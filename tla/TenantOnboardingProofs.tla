----------------------- MODULE TenantOnboardingProofs -----------------------
(* Safety of TenantOnboarding for every set of churches, requests and       *)
(* invites, every number of crashes and every subset of the console's       *)
(* operations.                                                              *)
EXTENDS TenantOnboarding, SequenceTheorems, TLAPS

\* Where a process holds a tenant entity it read from the table.
Working == {"routing"} \cup (Provisioning \ {"ensure"})

\* Every copy of a tenant, in the table, in a process or in a console edit,
\* is of the church its id was issued for.
Holding ==
  /\ \A t \in TenantIds : rows[t] # NoRow => issued[t] = rows[t].sub
  /\ \A x \in Procs : run[x].pc \in Working =>
       /\ run[x].tid \in TenantIds
       /\ run[x].ent \in Row
       /\ run[x].ent.sub = run[x].job.sub
       /\ issued[run[x].tid] = run[x].job.sub
  /\ \A x \in Procs : run[x].pc = "accept" => run[x].job.token \in Tokens
  /\ edit # NoEdit =>
       /\ edit.tid \in TenantIds
       /\ edit.ent \in Row
       /\ issued[edit.tid] = edit.ent.sub

Typed == TypeOK /\ Holding

-----------------------------------------------------------------------------
\* The local variables a process starts a handler with, or is left with.
LEMMA BlankType ==
  ASSUME NEW s \in Subdomains, NEW k \in Tokens \cup {NoToken},
         NEW sp \in BOOLEAN
  PROVE  Blank(s, k, sp) \in Job
  BY DEF Blank, Job

LEMMA TicketType ==
  ASSUME NEW s \in Subdomains, NEW t \in TenantIds
  PROVE  [Blank(s, NoToken, FALSE) EXCEPT !.tid = t] \in Job
  BY DEF Blank, Job

LEMMA AtType ==
  ASSUME NEW pc \in Steps
  PROVE  At(pc) \in Local /\ At(pc).pc = pc
  <1>1. AnySub \in Subdomains
    BY OnboardingAssumption DEF AnySub
  <1>2. Blank(AnySub, NoToken, FALSE) \in Job
    BY <1>1, BlankType
  <1> QED BY <1>2 DEF At, Local, Kinds

\* A process that ends its handler holds nothing any more.
LEMMA FinishLemma ==
  ASSUME TypeOK, NEW x \in Procs, Finish(x)
  PROVE  /\ run' \in [Procs -> Local]
         /\ run'[x].pc \notin Provisioning \cup Working
         /\ \A y \in Procs \ {x} : run'[y] = run[y]
  <1>1. {"idle", "done"} \subseteq Steps
    BY DEF Steps
  <1>2. PICK pc \in {"idle", "done"} : run' = [run EXCEPT ![x] = At(pc)]
    BY DEF Finish
  <1>3. At(pc) \in Local /\ At(pc).pc = pc
    BY <1>1, AtType
  <1>4. pc \notin Provisioning \cup Working
    BY <1>2 DEF Provisioning, Working
  <1>5. run'[x] = At(pc) /\ \A y \in Procs \ {x} : run'[y] = run[y]
    BY <1>2 DEF TypeOK
  <1>6. run' \in [Procs -> Local]
    BY <1>2, <1>3 DEF TypeOK
  <1> QED BY <1>3, <1>4, <1>5, <1>6

\* A process that goes on to the next step keeps its other local variables.
LEMMA GotoLemma ==
  ASSUME TypeOK, NEW x \in Procs, NEW pc \in Steps, Goto(x, pc)
  PROVE  /\ run' \in [Procs -> Local]
         /\ run'[x] = [run[x] EXCEPT !.pc = pc]
         /\ \A y \in Procs \ {x} : run'[y] = run[y]
  <1>1. run[x] \in Local
    BY DEF TypeOK
  <1>2. [run[x] EXCEPT !.pc = pc] \in Local
    BY <1>1 DEF Local
  <1>3. run' = [run EXCEPT ![x] = [run[x] EXCEPT !.pc = pc]]
    BY DEF Goto
  <1> QED BY <1>2, <1>3 DEF TypeOK

-----------------------------------------------------------------------------
(* Typed is inductive *)

LEMMA TypedInit == Init => Typed
  <1> SUFFICES ASSUME Init PROVE Typed
    OBVIOUS
  <1>1. At("idle") \in Local /\ At("idle").pc = "idle"
    BY AtType DEF Steps
  <1>2. TypeOK
    BY <1>1, OnboardingAssumption DEF Init, TypeOK, NoEdit
  <1>3. Holding
    BY <1>1 DEF Init, Holding, Working, Provisioning
  <1> QED BY <1>2, <1>3 DEF Typed

\* A step of EnsureTenant, whoever takes it.
LEMMA EnsureTenantStep ==
  ASSUME Typed, NEW x \in Procs, NEW pc \in {"routing", "schema"},
         EnsureTenant(x, pc), UNCHANGED edit
  PROVE  /\ rows' \in [TenantIds -> Row \cup {NoRow}]
         /\ issued' \in [TenantIds -> Subdomains \cup {NoSubdomain}]
         /\ run' \in [Procs -> Local]
         /\ Holding'
  <1> DEFINE l == run[x]
  <1>1. l \in Local /\ l.job \in Job /\ l.job.sub \in Subdomains
    BY DEF Typed, TypeOK, Local, Job
  <1>2. pc \in Steps /\ pc # "accept"
    BY DEF Steps, Provisioning
  <1>3. CASE \E t \in Holders(l.job.sub) :
               /\ ~rows[t].isActive
               /\ run' = [run EXCEPT ![x].pc = pc, ![x].tid = t, ![x].ent = rows[t]]
               /\ UNCHANGED <<rows, issued>>
    <2>1. PICK t \in TenantIds :
            /\ rows[t] \in Row /\ rows[t].sub = l.job.sub
            /\ run' = [run EXCEPT ![x].pc = pc, ![x].tid = t, ![x].ent = rows[t]]
            /\ UNCHANGED <<rows, issued>>
      BY <1>3 DEF Typed, TypeOK, Holders
    <2>2. run' \in [Procs -> Local]
      BY <1>1, <1>2, <2>1 DEF Typed, TypeOK, Local
    <2>3. issued[t] = l.job.sub
      BY <2>1, OnboardingAssumption DEF Typed, Holding
    <2>4. Holding'
      BY <1>1, <1>2, <2>1, <2>3 DEF Typed, TypeOK, Holding, Local
    <2> QED BY <2>1, <2>2, <2>4 DEF Typed, TypeOK
  <1>4. CASE /\ Holders(l.job.sub) = {}
             /\ \E t \in Fresh :
                  LET row == NewRow(l.job.sub, l.job.token) IN
                  /\ rows' = [rows EXCEPT ![t] = row]
                  /\ issued' = [issued EXCEPT ![t] = l.job.sub]
                  /\ run' = [run EXCEPT ![x].pc = pc, ![x].tid = t, ![x].ent = row]
    <2> DEFINE row == NewRow(l.job.sub, l.job.token)
    <2>1. row \in Row /\ row.sub = l.job.sub
      BY <1>1 DEF NewRow, Row, Status, Job
    <2>2. PICK t \in TenantIds :
            /\ issued[t] = NoSubdomain
            /\ rows' = [rows EXCEPT ![t] = row]
            /\ issued' = [issued EXCEPT ![t] = l.job.sub]
            /\ run' = [run EXCEPT ![x].pc = pc, ![x].tid = t, ![x].ent = row]
      BY <1>4 DEF Fresh
    <2> HIDE DEF row
    <2>3. run' \in [Procs -> Local]
      BY <1>1, <1>2, <2>1, <2>2 DEF Typed, TypeOK, Local
    <2>4. /\ rows' \in [TenantIds -> Row \cup {NoRow}]
          /\ issued' \in [TenantIds -> Subdomains \cup {NoSubdomain}]
      BY <1>1, <2>1, <2>2 DEF Typed, TypeOK
    <2>5. \A u \in TenantIds : issued[u] \in Subdomains => issued'[u] = issued[u]
      BY <2>2, OnboardingAssumption DEF Typed, TypeOK
    <2>6. \A u \in TenantIds : rows'[u] # NoRow => issued'[u] = rows'[u].sub
      BY <2>1, <2>2 DEF Typed, TypeOK, Holding
    <2>7. \A y \in Procs \ {x} : run'[y] = run[y] /\ run[y].job.sub \in Subdomains
      BY <2>2 DEF Typed, TypeOK, Local, Job
    <2>8. /\ run'[x].pc = pc /\ run'[x].tid = t /\ run'[x].ent = row
          /\ run'[x].job = l.job /\ issued'[t] = l.job.sub
      BY <1>1, <2>2 DEF Typed, TypeOK, Local
    <2>9. edit # NoEdit => edit.ent.sub \in Subdomains
      BY DEF Typed, Holding, Row
    <2>10. Holding'
      BY <1>2, <2>1, <2>5, <2>6, <2>7, <2>8, <2>9 DEF Typed, TypeOK, Holding
    <2> QED BY <2>3, <2>4, <2>10
  <1> QED BY <1>3, <1>4 DEF EnsureTenant

\* Whoever takes EnsureTenant changes no other process and no job, and leaves
\* the table as it was or with one new PENDING row.
LEMMA EnsureTenantFrame ==
  ASSUME Typed, NEW x \in Procs, NEW pc \in {"routing", "schema"},
         EnsureTenant(x, pc)
  PROVE  /\ \A y \in Procs \ {x} : run'[y] = run[y]
         /\ run'[x].pc = pc /\ run'[x].job = run[x].job
         /\ \A t \in TenantIds : rows'[t] = rows[t] \/ rows'[t].status = "PENDING"
  <1>1. PICK t, ent :
          run' = [run EXCEPT ![x].pc = pc, ![x].tid = t, ![x].ent = ent]
    BY DEF EnsureTenant, Holders, Fresh
  <1>2. /\ \A y \in Procs \ {x} : run'[y] = run[y]
        /\ run'[x].pc = pc /\ run'[x].job = run[x].job
    BY <1>1 DEF Typed, TypeOK, Local
  <1>3. \/ rows' = rows
        \/ \E u \in TenantIds :
             rows' = [rows EXCEPT ![u] = NewRow(run[x].job.sub, run[x].job.token)]
    BY DEF EnsureTenant, Fresh
  <1>4. NewRow(run[x].job.sub, run[x].job.token).status = "PENDING"
    BY DEF NewRow
  <1>5. \A u \in TenantIds : rows'[u] = rows[u] \/ rows'[u].status = "PENDING"
    BY <1>3, <1>4 DEF Typed, TypeOK
  <1> QED BY <1>2, <1>5

\* The steps that change nothing of Holding but one process's position.
LEMMA GotoHolding ==
  ASSUME Typed, NEW x \in Procs, NEW pc \in Working \ {"accept"}, Goto(x, pc),
         run[x].pc \in Working, UNCHANGED <<issued, edit>>,
         \A t \in TenantIds : rows'[t] # NoRow => issued[t] = rows'[t].sub
  PROVE  run' \in [Procs -> Local] /\ Holding'
  <1>1. pc \in Steps
    BY DEF Working, Steps
  <1>2. /\ run' \in [Procs -> Local]
        /\ run'[x] = [run[x] EXCEPT !.pc = pc]
        /\ \A y \in Procs \ {x} : run'[y] = run[y]
    BY <1>1, GotoLemma DEF Typed
  <1>3. run[x] \in Local
    BY DEF Typed, TypeOK
  <1> QED BY <1>2, <1>3 DEF Typed, Holding, Local

LEMMA FinishHolding ==
  ASSUME Typed, NEW x \in Procs, Finish(x), UNCHANGED <<issued, edit>>,
         \A t \in TenantIds : rows'[t] # NoRow => issued[t] = rows'[t].sub
  PROVE  run' \in [Procs -> Local] /\ Holding'
  <1>1. /\ run' \in [Procs -> Local]
        /\ run'[x].pc \notin Provisioning \cup Working
        /\ \A y \in Procs \ {x} : run'[y] = run[y]
    BY FinishLemma DEF Typed
  <1> QED BY <1>1 DEF Typed, Holding, Provisioning

\* An UPDATE of the status leaves a row with its church.
LEMMA SetStatusLemma ==
  ASSUME Typed, NEW t, NEW st \in Status, rows' = SetStatus(t, st)
  PROVE  /\ rows' \in [TenantIds -> Row \cup {NoRow}]
         /\ \A u \in TenantIds : rows'[u] # NoRow => issued[u] = rows'[u].sub
         /\ \A u \in TenantIds : rows[u] # NoRow /\ rows'[u] # NoRow =>
              /\ rows'[u].sub = rows[u].sub
              /\ rows'[u].isActive = rows[u].isActive
              /\ rows'[u].status \in {rows[u].status, st}
         /\ \A u \in TenantIds : rows'[u] # NoRow => rows[u] # NoRow
         /\ \A u \in TenantIds \ {t} : rows'[u] = rows[u]
  <1>1. CASE Exists(t)
    <2>1. t \in TenantIds /\ rows[t] \in Row
      BY <1>1 DEF Exists, Typed, TypeOK
    <2>2. rows' = [rows EXCEPT ![t] = [rows[t] EXCEPT !.status = st]]
      BY <1>1 DEF SetStatus
    <2>3. [rows[t] EXCEPT !.status = st] \in Row
      BY <2>1 DEF Row
    <2> QED BY <2>1, <2>2, <2>3, OnboardingAssumption
            DEF Typed, TypeOK, Holding, Row
  <1>2. CASE ~Exists(t)
    BY <1>2 DEF SetStatus, Typed, TypeOK, Holding
  <1> QED BY <1>1, <1>2

LEMMA TypedSignup ==
  ASSUME Typed, NEW r \in Requests, Signup(r)
  PROVE  Typed'
  <1>0. r \in Procs /\ run[r] \in Local /\ run[r].job \in Job
    BY DEF Typed, TypeOK, Procs, Local
  <1>1. ASSUME NEW s \in Subdomains, NEW k \in Tokens \cup {NoToken},
               SignupResolve(r, s, k)
        PROVE  Typed'
    <2>1. PICK sp \in BOOLEAN :
            run' = [run EXCEPT ![r] = [At("resolved") EXCEPT !.kind = "signup",
                                                    !.job = Blank(s, k, sp)]]
      BY <1>1 DEF SignupResolve
    <2>2. At("resolved") \in Local /\ At("resolved").pc = "resolved"
      BY AtType DEF Steps
    <2>3. Blank(s, k, sp) \in Job
      BY BlankType
    <2>4. run' \in [Procs -> Local] /\ run'[r].pc = "resolved"
      BY <1>0, <2>1, <2>2, <2>3 DEF Typed, TypeOK, Local, Kinds
    <2>5. TypeOK'
      BY <1>1, <2>4 DEF SignupResolve, Typed, TypeOK
    <2>6. Holding'
      BY <1>1, <2>1, <2>4 DEF SignupResolve, Typed, TypeOK, Holding, Working,
                              Provisioning, NoEdit
    <2> QED BY <2>5, <2>6 DEF Typed
  <1>2. CASE SignupEnsure(r)
    <2>1. /\ rows' \in [TenantIds -> Row \cup {NoRow}]
          /\ issued' \in [TenantIds -> Subdomains \cup {NoSubdomain}]
          /\ run' \in [Procs -> Local]
          /\ Holding'
      BY <1>0, <1>2, EnsureTenantStep DEF SignupEnsure
    <2> QED BY <1>2, <2>1 DEF SignupEnsure, Typed, TypeOK
  <1>3. CASE SignupConflict(r)
    <2>1. run' \in [Procs -> Local] /\ Holding'
      BY <1>0, <1>3, FinishHolding DEF SignupConflict, Typed, Holding
    <2> QED BY <1>3, <2>1 DEF SignupConflict, Typed, TypeOK
  <1>4. CASE SignupHold(r)
    <2> DEFINE t == run[r].tid
    <2>1. CASE Exists(t)
      <3>1. t \in TenantIds /\ rows[t] \in Row
        BY <2>1 DEF Exists, Typed, TypeOK
      <3> DEFINE row == [rows[t] EXCEPT !.status = "AWAITING_APPROVAL",
                                        !.held = TRUE]
      <3>2. rows' = [rows EXCEPT ![t] = row]
        BY <1>4, <2>1, <3>1 DEF SignupHold, Row
      <3>3. row \in Row /\ row.sub = rows[t].sub
        BY <3>1 DEF Row, Status
      <3>4. /\ rows' \in [TenantIds -> Row \cup {NoRow}]
            /\ \A u \in TenantIds : rows'[u] # NoRow => issued[u] = rows'[u].sub
        BY <3>1, <3>2, <3>3, OnboardingAssumption DEF Typed, TypeOK, Holding
      <3>5. run' \in [Procs -> Local] /\ Holding'
        BY <1>0, <1>4, <3>4, FinishHolding DEF SignupHold
      <3> QED BY <1>4, <3>4, <3>5 DEF SignupHold, Typed, TypeOK
    <2>2. CASE ~Exists(t)
      <3>1. rows' = rows
        BY <1>4, <2>2 DEF SignupHold
      <3>2. run' \in [Procs -> Local] /\ Holding'
        BY <1>0, <1>4, <3>1, FinishHolding DEF SignupHold, Typed, Holding
      <3> QED BY <1>4, <3>1, <3>2 DEF SignupHold, Typed, TypeOK
    <2> QED BY <2>1, <2>2
  <1>5. CASE SignupEnqueue(r)
    <2>1. [run[r].job EXCEPT !.tid = run[r].tid] \in Job
      BY <1>0 DEF Job, Local
    <2>2. queue' \in Seq(Job)
      BY <1>5, <2>1 DEF SignupEnqueue, Typed, TypeOK
    <2>3. cleared' \in SUBSET Subdomains
      BY <1>0, <1>5 DEF SignupEnqueue, Typed, TypeOK, Job
    <2>4. run' \in [Procs -> Local] /\ Holding'
      BY <1>0, <1>5, FinishHolding DEF SignupEnqueue, Typed, Holding
    <2> QED BY <1>5, <2>2, <2>3, <2>4 DEF SignupEnqueue, Typed, TypeOK
  <1> QED BY <1>1, <1>2, <1>3, <1>4, <1>5 DEF Signup

LEMMA TypedProvision ==
  ASSUME Typed, NEW x \in Procs, Provision(x)
  PROVE  Typed'
  <1> DEFINE l == run[x]
  <1>0. l \in Local /\ l.job \in Job /\ l.job.sub \in Subdomains
    BY DEF Typed, TypeOK, Local, Job
  <1>1. CASE EnsurePending(x)
    <2>1. /\ rows' \in [TenantIds -> Row \cup {NoRow}]
          /\ issued' \in [TenantIds -> Subdomains \cup {NoSubdomain}]
          /\ run' \in [Procs -> Local]
          /\ Holding'
      BY <1>1, EnsureTenantStep DEF EnsurePending
    <2> QED BY <1>1, <2>1 DEF EnsurePending, Typed, TypeOK
  <1>2. CASE MigrateSchema(x)
    <2>1. run' \in [Procs -> Local] /\ Holding'
      BY <1>2, GotoHolding DEF MigrateSchema, Working, Provisioning, Typed, Holding
    <2>2. schema' \in [Subdomains -> {"absent", "migrated", "seeded", "used"}]
      BY <1>0, <1>2 DEF MigrateSchema, Typed, TypeOK
    <2> QED BY <1>2, <2>1, <2>2 DEF MigrateSchema, Typed, TypeOK
  <1>3. CASE SeedAdmin(x)
    <2>1. run' \in [Procs -> Local] /\ Holding'
      BY <1>3, GotoHolding DEF SeedAdmin, Working, Provisioning, Typed, Holding
    <2>2. schema' \in [Subdomains -> {"absent", "migrated", "seeded", "used"}]
      BY <1>0, <1>3 DEF SeedAdmin, Typed, TypeOK
    <2> QED BY <1>3, <2>1, <2>2 DEF SeedAdmin, Typed, TypeOK
  <1>4. CASE Subscribe(x)
    <2>1. subs' \in [TenantIds -> Tokens \cup {NoToken, Unsubscribed}]
      BY <1>0, <1>4 DEF Subscribe, PaidBy, Typed, TypeOK, Job
    <2>2. run' \in [Procs -> Local] /\ Holding'
      BY <1>4, GotoHolding DEF Subscribe, Working, Provisioning, Typed, Holding
    <2> QED BY <1>4, <2>1, <2>2 DEF Subscribe, Typed, TypeOK
  <1>5. CASE Activate(x)
    <2> DEFINE ent == [l.ent EXCEPT !.isActive = TRUE]
    <2>1. /\ l.tid \in TenantIds /\ l.ent \in Row /\ l.ent.sub = l.job.sub
          /\ issued[l.tid] = l.job.sub
      BY <1>5 DEF Activate, Typed, Holding, Working, Provisioning
    <2>2. ent \in Row /\ ent.sub = l.job.sub
      BY <2>1 DEF Row
    <2>3. rows' = [rows EXCEPT ![l.tid] = ent]
      BY <1>5 DEF Activate
    <2> HIDE DEF ent
    <2>4. /\ rows' \in [TenantIds -> Row \cup {NoRow}]
          /\ \A u \in TenantIds : rows'[u] # NoRow => issued[u] = rows'[u].sub
      BY <2>1, <2>2, <2>3 DEF Typed, TypeOK, Holding
    <2>5. run' \in [Procs -> Local] /\ Holding'
      <3>1. CASE l.kind = "cli"
        <4>1. Finish(x) /\ UNCHANGED <<issued, edit>>
          BY <1>5, <3>1 DEF Activate
        <4> QED BY <2>4, <4>1, FinishHolding
      <3>2. CASE l.kind # "cli"
        <4>1. run' = [run EXCEPT ![x] = [l EXCEPT !.ent = ent, !.pc = "complete"]]
          BY <1>0, <1>5, <3>2 DEF Activate, ent, Typed, TypeOK, Local
        <4>2. [l EXCEPT !.ent = ent, !.pc = "complete"] \in Local
          BY <1>0, <2>2 DEF Local, Steps, Provisioning
        <4>3. run' \in [Procs -> Local]
          BY <4>1, <4>2 DEF Typed, TypeOK
        <4>4. Holding'
          BY <1>0, <1>5, <2>1, <2>2, <2>4, <4>1
             DEF Activate, Typed, TypeOK, Holding, Local
        <4> QED BY <4>3, <4>4
      <3> QED BY <3>1, <3>2
    <2> QED BY <1>5, <2>4, <2>5 DEF Activate, Typed, TypeOK
  <1> QED BY <1>1, <1>2, <1>3, <1>4, <1>5 DEF Provision

LEMMA TypedWorker ==
  ASSUME Typed, WorkerStep
  PROVE  Typed'
  <1> DEFINE l == run[Worker]
  <1>0. Worker \in Procs /\ l \in Local /\ l.job \in Job
    BY DEF Typed, TypeOK, Procs, Local
  <1>1. CASE TakeJob
    <2> DEFINE job == Head(queue)
    <2>1. job \in Job /\ queue' \in Seq(Job)
      BY <1>1 DEF TakeJob, Typed, TypeOK
    <2>2. rows' = SetStatus(job.tid, "PROVISIONING")
      BY <1>1 DEF TakeJob
    <2>3. /\ rows' \in [TenantIds -> Row \cup {NoRow}]
          /\ \A u \in TenantIds : rows'[u] # NoRow => issued[u] = rows'[u].sub
      BY <2>2, SetStatusLemma DEF Status
    <2>4. At("ensure") \in Local /\ At("ensure").pc = "ensure"
      BY AtType DEF Steps, Provisioning
    <2>5. run' = [run EXCEPT ![Worker] =
                    [At("ensure") EXCEPT !.kind = "job", !.job = job]]
      BY <1>1 DEF TakeJob
    <2>6. run' \in [Procs -> Local] /\ run'[Worker].pc = "ensure"
      BY <1>0, <2>1, <2>4, <2>5 DEF Typed, TypeOK, Local, Kinds
    <2>7. Holding'
      BY <1>1, <2>3, <2>5, <2>6 DEF TakeJob, Typed, TypeOK, Holding, Working,
                                    Provisioning
    <2> QED BY <1>1, <2>1, <2>3, <2>6, <2>7 DEF TakeJob, Typed, TypeOK
  <1>2. CASE Provision(Worker)
    BY <1>0, <1>2, TypedProvision
  <1>3. CASE CompleteJob
    <2>1. /\ rows' \in [TenantIds -> Row \cup {NoRow}]
          /\ \A u \in TenantIds : rows'[u] # NoRow => issued[u] = rows'[u].sub
      BY <1>3, SetStatusLemma DEF CompleteJob, Status
    <2>2. run' \in [Procs -> Local] /\ Holding'
      BY <1>0, <1>3, <2>1, GotoHolding DEF CompleteJob, Working, Provisioning
    <2> QED BY <1>3, <2>1, <2>2 DEF CompleteJob, Typed, TypeOK
  <1>4. CASE RecordCompleted
    <2>1. CASE l.job.token # NoToken
      <3>1. Goto(Worker, "accept")
        BY <1>4, <2>1 DEF RecordCompleted
      <3>2. /\ run' \in [Procs -> Local]
            /\ run'[Worker] = [l EXCEPT !.pc = "accept"]
            /\ \A y \in Procs \ {Worker} : run'[y] = run[y]
        BY <1>0, <3>1, GotoLemma DEF Typed, Steps, Provisioning
      <3>3. l.job.token \in Tokens
        BY <1>0, <2>1 DEF Job
      <3>4. Holding'
        BY <1>0, <1>4, <3>2, <3>3 DEF RecordCompleted, Typed, Holding, Working,
                                      Provisioning, Local
      <3> QED BY <1>4, <3>2, <3>4 DEF RecordCompleted, Typed, TypeOK
    <2>2. CASE l.job.token = NoToken
      <3>1. run' \in [Procs -> Local] /\ Holding'
        BY <1>0, <1>4, <2>2, FinishHolding DEF RecordCompleted, Typed, Holding
      <3> QED BY <1>4, <3>1 DEF RecordCompleted, Typed, TypeOK
    <2> QED BY <2>1, <2>2
  <1>5. CASE AcceptInvite
    <2>1. run' \in [Procs -> Local] /\ Holding'
      BY <1>0, <1>5, FinishHolding DEF AcceptInvite, Typed, Holding
    <2> QED BY <1>0, <1>5, <2>1 DEF AcceptInvite, Typed, TypeOK, Holding
  <1>6. CASE JobFails
    <2> DEFINE job == [l.job EXCEPT !.made = @ + 1]
    <2>1. job \in Job
      BY <1>0 DEF Job
    <2>2. /\ rows' \in [TenantIds -> Row \cup {NoRow}]
          /\ queue' \in Seq(Job)
          /\ \A u \in TenantIds : rows'[u] # NoRow => issued[u] = rows'[u].sub
      <3>1. /\ queue' \in {queue, Append(queue, job)}
            /\ \/ rows' = rows
               \/ rows' = SetStatus(job.tid, "FAILED")
        BY <1>6 DEF JobFails
      <3>2. queue' \in Seq(Job)
        <4> HIDE DEF job
        <4>1. queue \in Seq(Job) /\ Append(queue, job) \in Seq(Job)
          BY <2>1 DEF Typed, TypeOK
        <4> QED BY <3>1, <4>1
      <3>3. CASE rows' = rows
        BY <3>2, <3>3 DEF Typed, TypeOK, Holding
      <3>4. CASE rows' = SetStatus(job.tid, "FAILED")
        BY <3>2, <3>4, SetStatusLemma DEF Status
      <3> QED BY <3>1, <3>3, <3>4
    <2>3. run' \in [Procs -> Local] /\ Holding'
      BY <1>0, <1>6, <2>2, FinishHolding DEF JobFails
    <2> QED BY <1>6, <2>2, <2>3 DEF JobFails, Typed, TypeOK
  <1> QED BY <1>1, <1>2, <1>3, <1>4, <1>5, <1>6 DEF WorkerStep

LEMMA TypedRequest ==
  ASSUME Typed, NEW r \in Requests, RequestStep(r)
  PROVE  Typed'
  <1> DEFINE l == run[r]
  <1>0. r \in Procs /\ l \in Local /\ l.job \in Job
    BY DEF Typed, TypeOK, Procs, Local
  <1>1. At("ensure") \in Local /\ At("ensure").pc = "ensure"
    BY AtType DEF Steps, Provisioning
  <1>2. ASSUME NEW s \in Subdomains, CreateTenant(r, s)
        PROVE  Typed'
    <2>1. PICK t \in TenantIds :
            /\ run' = [run EXCEPT ![r] =
                 [At("ensure") EXCEPT !.kind = "create",
                    !.job = [Blank(s, NoToken, FALSE) EXCEPT !.tid = t]]]
            /\ \/ UNCHANGED <<rows, issued>>
               \/ /\ issued[t] = NoSubdomain
                  /\ rows' = [rows EXCEPT ![t] = NewRow(s, NoToken)]
                  /\ issued' = [issued EXCEPT ![t] = s]
      BY <1>1, <1>2 DEF CreateTenant, Holders, Fresh, Local
    <2>2. [Blank(s, NoToken, FALSE) EXCEPT !.tid = t] \in Job
      BY TicketType
    <2>3. run' \in [Procs -> Local] /\ run'[r].pc = "ensure"
      BY <1>0, <1>1, <2>1, <2>2 DEF Typed, TypeOK, Local, Kinds
    <2>4. NewRow(s, NoToken) \in Row /\ NewRow(s, NoToken).sub = s
      BY DEF NewRow, Row, Status
    <2>5. /\ rows' \in [TenantIds -> Row \cup {NoRow}]
          /\ issued' \in [TenantIds -> Subdomains \cup {NoSubdomain}]
          /\ \A u \in TenantIds : rows'[u] # NoRow => issued'[u] = rows'[u].sub
      BY <2>1, <2>4 DEF Typed, TypeOK, Holding
    <2>6. \A u \in TenantIds : issued[u] \in Subdomains => issued'[u] = issued[u]
      BY <2>1, OnboardingAssumption DEF Typed, TypeOK
    <2>7. \A y \in Procs \ {r} : run'[y] = run[y] /\ run[y].job.sub \in Subdomains
      BY <2>1 DEF Typed, TypeOK, Local, Job
    <2>8. edit # NoEdit => edit.ent.sub \in Subdomains
      BY DEF Typed, Holding, Row
    <2>9. edit' = edit
      BY <1>2 DEF CreateTenant
    <2>10. Holding'
      <3>1. run'[r].pc \notin Working /\ run'[r].pc # "accept"
        BY <2>3 DEF Working, Provisioning
      <3>2. \A y \in Procs : run'[y].pc \in Working =>
              /\ run'[y].tid \in TenantIds
              /\ run'[y].ent \in Row
              /\ run'[y].ent.sub = run'[y].job.sub
              /\ issued'[run'[y].tid] = run'[y].job.sub
        BY <2>6, <2>7, <3>1 DEF Typed, Holding
      <3>3. \A y \in Procs : run'[y].pc = "accept" => run'[y].job.token \in Tokens
        BY <2>7, <3>1 DEF Typed, Holding
      <3>4. edit' # NoEdit' =>
              /\ edit'.tid \in TenantIds
              /\ edit'.ent \in Row
              /\ issued'[edit'.tid] = edit'.ent.sub
        BY <2>6, <2>8, <2>9 DEF Typed, Holding, NoEdit
      <3> QED BY <2>5, <3>2, <3>3, <3>4 DEF Holding
    <2>11. cleared' \in SUBSET Subdomains
      BY <1>2 DEF CreateTenant, Typed, TypeOK
    <2> QED BY <1>2, <2>3, <2>5, <2>10, <2>11 DEF CreateTenant, Typed, TypeOK
  <1>3. ASSUME NEW s \in Subdomains, CliProvision(r, s)
        PROVE  Typed'
    <2>1. Blank(s, NoToken, FALSE) \in Job
      BY BlankType
    <2>2. run' = [run EXCEPT ![r] = [At("ensure") EXCEPT !.kind = "cli",
                                       !.job = Blank(s, NoToken, FALSE)]]
      BY <1>3 DEF CliProvision
    <2>3. run' \in [Procs -> Local] /\ run'[r].pc = "ensure"
      BY <1>0, <1>1, <2>1, <2>2 DEF Typed, TypeOK, Local, Kinds
    <2>4. \A y \in Procs \ {r} : run'[y] = run[y]
      BY <2>2 DEF Typed, TypeOK
    <2>5. UNCHANGED <<rows, issued, edit>>
      BY <1>3 DEF CliProvision
    <2>6. Holding'
      BY <2>3, <2>4, <2>5 DEF Typed, Holding, Working, Provisioning
    <2> QED BY <1>3, <2>3, <2>6 DEF CliProvision, Typed, TypeOK
  <1>4. CASE CompleteCreate(r)
    <2> DEFINE ent == [l.ent EXCEPT !.status = "ACTIVE"]
    <2>1. /\ l.tid \in TenantIds /\ l.ent \in Row /\ l.ent.sub = l.job.sub
          /\ issued[l.tid] = l.job.sub
      BY <1>0, <1>4 DEF CompleteCreate, Typed, Holding, Working, Provisioning
    <2>2. ent \in Row /\ ent.sub = l.job.sub
      BY <2>1 DEF Row, Status
    <2>3. rows' = [rows EXCEPT ![l.tid] = ent]
      BY <1>4 DEF CompleteCreate
    <2> HIDE DEF ent
    <2>4. /\ rows' \in [TenantIds -> Row \cup {NoRow}]
          /\ \A u \in TenantIds : rows'[u] # NoRow => issued[u] = rows'[u].sub
      BY <2>1, <2>2, <2>3 DEF Typed, TypeOK, Holding
    <2>5. run' \in [Procs -> Local] /\ Holding'
      BY <1>0, <1>4, <2>4, FinishHolding DEF CompleteCreate
    <2> QED BY <1>4, <2>4, <2>5 DEF CompleteCreate, Typed, TypeOK
  <1>5. CASE RequestFails(r)
    <2>1. /\ rows' \in [TenantIds -> Row \cup {NoRow}]
          /\ \A u \in TenantIds : rows'[u] # NoRow => issued[u] = rows'[u].sub
      <3>1. CASE rows' = SetStatus(l.job.tid, "FAILED")
        BY <3>1, SetStatusLemma DEF Status
      <3>2. CASE rows' = rows
        BY <3>2 DEF Typed, TypeOK, Holding
      <3> QED BY <1>5, <3>1, <3>2 DEF RequestFails
    <2>2. run' \in [Procs -> Local] /\ Holding'
      BY <1>0, <1>5, <2>1, FinishHolding DEF RequestFails
    <2> QED BY <1>5, <2>1, <2>2 DEF RequestFails, Typed, TypeOK
  <1> QED BY <1>0, <1>2, <1>3, <1>4, <1>5, TypedSignup, TypedProvision
          DEF RequestStep

LEMMA TypedCrash ==
  ASSUME Typed, Crash
  PROVE  Typed'
  <1>1. \A x \in Procs : \E pc \in {"idle", "done"} : run'[x] = At(pc)
    BY DEF Crash
  <1>2. \A pc \in {"idle", "done"} :
          At(pc) \in Local /\ At(pc).pc = pc /\ pc \notin Working
          /\ pc # "accept"
    BY AtType DEF Steps, Working, Provisioning
  <1>3. run' \in [Procs -> Local]
    BY <1>1, <1>2 DEF Crash
  <1>4. Holding'
    BY <1>1, <1>2 DEF Crash, Typed, Holding
  <1>5. queue' \in Seq(Job)
    <2> DEFINE job == run[Worker].job
               again == [job EXCEPT !.stalls = @ + 1]
    <2>1. job \in Job
      BY DEF Typed, TypeOK, Procs, Local
    <2>2. again \in Job
      BY <2>1 DEF Job
    <2>3. queue' \in {queue, <<again>> \o queue}
      BY DEF Crash
    <2> HIDE DEF again
    <2>4. <<again>> \in Seq(Job)
      BY <2>2
    <2>5. queue \in Seq(Job)
      BY DEF Typed, TypeOK
    <2>6. <<again>> \o queue \in Seq(Job)
      BY <2>4, <2>5, ConcatProperties
    <2> QED BY <2>3, <2>5, <2>6
  <1>6. crashes' \in 0..MaxCrashes
    BY OnboardingAssumption DEF Crash, Typed, TypeOK
  <1>7. edit' \in [tid: TenantIds \cup {NoTenant}, ent: Row \cup {NoRow}]
    BY DEF Crash, NoEdit
  <1> QED BY <1>3, <1>4, <1>5, <1>6, <1>7 DEF Crash, Typed, TypeOK

LEMMA TypedConsole ==
  ASSUME Typed, Console
  PROVE  Typed'
  <1>1. ASSUME NEW t \in TenantIds, ApproveTenant(t)
        PROVE  Typed'
    <2>1. rows[t] \in Row
      BY <1>1 DEF ApproveTenant, Exists, Typed, TypeOK
    <2>2. [Blank(rows[t].sub, NoToken, FALSE) EXCEPT !.tid = t] \in Job
      BY <2>1, TicketType DEF Row
    <2>3. queue' \in Seq(Job) /\ cleared' \in SUBSET Subdomains
      BY <1>1, <2>1, <2>2 DEF ApproveTenant, Typed, TypeOK, Row
    <2>4. Holding'
      BY <1>1 DEF ApproveTenant, Typed, Holding
    <2> QED BY <1>1, <2>3, <2>4 DEF ApproveTenant, Typed, TypeOK
  <1>2. ASSUME NEW t \in TenantIds, DeleteTenant(t)
        PROVE  Typed'
    <2>1. TypeOK'
      BY <1>2 DEF DeleteTenant, Typed, TypeOK
    <2>2. Holding'
      BY <1>2 DEF DeleteTenant, Typed, TypeOK, Holding
    <2> QED BY <2>1, <2>2 DEF Typed
  <1>3. ASSUME NEW t \in TenantIds, EditRead(t)
        PROVE  Typed'
    <2>1. rows[t] \in Row /\ issued[t] = rows[t].sub
      BY <1>3 DEF EditRead, Exists, Typed, TypeOK, Holding
    <2>2. edit' = [tid |-> t, ent |-> rows[t]]
      BY <1>3 DEF EditRead
    <2>3. TypeOK'
      BY <1>3, <2>1, <2>2 DEF EditRead, Typed, TypeOK
    <2>4. Holding'
      BY <1>3, <2>1, <2>2 DEF EditRead, Typed, Holding
    <2> QED BY <2>3, <2>4 DEF Typed
  <1>4. ASSUME NEW active \in BOOLEAN, EditSave(active)
        PROVE  Typed'
    <2> DEFINE ent == [edit.ent EXCEPT !.isActive = active]
    <2>1. /\ edit.tid \in TenantIds /\ edit.ent \in Row
          /\ issued[edit.tid] = edit.ent.sub
      BY <1>4 DEF EditSave, Typed, Holding
    <2>2. ent \in Row /\ ent.sub = edit.ent.sub
      BY <2>1 DEF Row
    <2>3. rows' = [rows EXCEPT ![edit.tid] = ent] /\ edit' = NoEdit
      BY <1>4 DEF EditSave
    <2> HIDE DEF ent
    <2>4. /\ rows' \in [TenantIds -> Row \cup {NoRow}]
          /\ \A u \in TenantIds : rows'[u] # NoRow => issued[u] = rows'[u].sub
      BY <2>1, <2>2, <2>3 DEF Typed, TypeOK, Holding
    <2>5. edit' \in [tid: TenantIds \cup {NoTenant}, ent: Row \cup {NoRow}]
      BY <2>3 DEF NoEdit
    <2>6. Holding'
      BY <1>4, <2>3, <2>4 DEF EditSave, Typed, Holding
    <2> QED BY <1>4, <2>4, <2>5, <2>6 DEF EditSave, Typed, TypeOK
  <1>5. CASE ToggleGate
    BY <1>5 DEF ToggleGate, Typed, TypeOK, Holding
  <1>6. ASSUME NEW k \in Tokens, CloseInvite(k)
        PROVE  Typed'
    BY <1>6 DEF CloseInvite, Typed, TypeOK, Holding
  <1> QED BY <1>1, <1>2, <1>3, <1>4, <1>5, <1>6 DEF Console

LEMMA TypedNext == Typed /\ [Next]_vars => Typed'
  <1> SUFFICES ASSUME Typed, [Next]_vars PROVE Typed'
    OBVIOUS
  <1>1. ASSUME NEW t \in TenantIds, Serve(t)
        PROVE  Typed'
    <2>1. rows[t] \in Row
      BY <1>1 DEF Serve, Admitted, Exists, Typed, TypeOK
    <2> QED BY <1>1, <2>1 DEF Serve, Typed, TypeOK, Holding, Row
  <1>2. CASE UNCHANGED vars
    BY <1>2 DEF vars, Typed, TypeOK, Holding
  <1>3. CASE Rest
    BY <1>2, <1>3 DEF Rest
  <1> QED BY <1>1, <1>2, <1>3, TypedWorker, TypedRequest, TypedConsole,
             TypedCrash DEF Next

LEMMA TypedAlways == Spec => []Typed
  <1>1. Init => Typed
    BY TypedInit
  <1>2. Typed /\ [Next]_vars => Typed'
    BY TypedNext
  <1> QED BY <1>1, <1>2, PTL DEF Spec

\* Every variable keeps its type: in particular no handler ever saves an
\* entity it does not hold.
THEOREM TypeCorrect == Spec => []TypeOK
  <1>1. Typed => TypeOK
    BY DEF Typed
  <1> QED BY <1>1, TypedAlways, PTL

-----------------------------------------------------------------------------
(* The approval gate *)

\* The strengthening of ApprovalGate: whatever can still make a church live, a
\* waiting job, a provisioning under way or a console edit that read an open
\* church, is of a church somebody was entitled to have.
Entitled ==
  /\ \A i \in 1..Len(queue) : queue[i].sub \in cleared
  /\ \A x \in Procs : run[x].pc \in Provisioning => run[x].job.sub \in cleared
  /\ \A t \in TenantIds :
       rows[t] # NoRow /\ rows[t].status = "ACTIVE" => rows[t].sub \in cleared
  /\ edit # NoEdit /\ edit.ent.status = "ACTIVE" => edit.ent.sub \in cleared

LEMMA EntitledInit == Init => Entitled
  <1> SUFFICES ASSUME Init PROVE Entitled
    OBVIOUS
  <1>1. At("idle").pc = "idle"
    BY AtType DEF Steps
  <1> QED BY <1>1 DEF Init, Entitled, Provisioning

\* A process that ends, or goes on to a step of the same provisioning, has
\* nothing new to be entitled to.
LEMMA FinishEntitled ==
  ASSUME Typed, NEW x \in Procs, Finish(x),
         \A y \in Procs : run[y].pc \in Provisioning => run[y].job.sub \in cleared
  PROVE  \A y \in Procs : run'[y].pc \in Provisioning => run'[y].job.sub \in cleared
  <1>1. /\ run'[x].pc \notin Provisioning
        /\ \A y \in Procs \ {x} : run'[y] = run[y]
    BY FinishLemma DEF Typed
  <1> QED BY <1>1

LEMMA EntitledSignup ==
  ASSUME Typed, Entitled, NEW r \in Requests, Signup(r)
  PROVE  Entitled'
  <1>0. r \in Procs /\ run[r] \in Local /\ run[r].job \in Job
    BY DEF Typed, TypeOK, Procs, Local
  <1>1. ASSUME NEW s \in Subdomains, NEW k \in Tokens \cup {NoToken},
               SignupResolve(r, s, k)
        PROVE  Entitled'
    <2>1. PICK sp \in BOOLEAN :
            run' = [run EXCEPT ![r] = [At("resolved") EXCEPT !.kind = "signup",
                                                    !.job = Blank(s, k, sp)]]
      BY <1>1 DEF SignupResolve
    <2>2. At("resolved") \in Local /\ At("resolved").pc = "resolved"
      BY AtType DEF Steps
    <2>3. /\ run'[r].pc = "resolved"
          /\ \A y \in Procs \ {r} : run'[y] = run[y]
      BY <1>0, <2>1, <2>2 DEF Typed, TypeOK, Local
    <2>4. UNCHANGED <<rows, queue, cleared, edit>>
      BY <1>1 DEF SignupResolve
    <2> QED BY <2>3, <2>4 DEF Entitled, Provisioning
  <1>2. CASE SignupEnsure(r)
    <2>1. UNCHANGED <<queue, cleared, edit>>
      BY <1>2 DEF SignupEnsure
    <2>2. /\ run'[r].pc = "routing"
          /\ \A y \in Procs \ {r} : run'[y] = run[y]
          /\ \A t \in TenantIds :
               rows'[t] = rows[t] \/ rows'[t].status = "PENDING"
      BY <1>0, <1>2, EnsureTenantFrame DEF SignupEnsure
    <2> QED BY <2>1, <2>2 DEF Entitled, Provisioning
  <1>3. CASE SignupConflict(r)
    BY <1>0, <1>3, FinishEntitled DEF SignupConflict, Entitled
  <1>4. CASE SignupHold(r)
    <2>1. UNCHANGED <<queue, cleared, edit>> /\ Finish(r)
      BY <1>4 DEF SignupHold
    <2>2. \A t \in TenantIds :
            rows'[t] = rows[t] \/ rows'[t].status = "AWAITING_APPROVAL"
      BY <1>4 DEF SignupHold, Exists, Typed, TypeOK, Row
    <2> QED BY <1>0, <2>1, <2>2, FinishEntitled DEF Entitled
  <1>5. CASE SignupEnqueue(r)
    <2> DEFINE job == [run[r].job EXCEPT !.tid = run[r].tid]
    <2>1. job.sub = run[r].job.sub /\ job \in Job
      BY <1>0 DEF Job, Local
    <2>2. cleared' = cleared \cup {run[r].job.sub}
      BY <1>5 DEF SignupEnqueue, MustHold
    <2>3. queue' = Append(queue, job) /\ UNCHANGED <<rows, edit>> /\ Finish(r)
      BY <1>5 DEF SignupEnqueue
    <2>4. \A i \in 1..Len(queue') : queue'[i].sub \in cleared'
      BY <2>1, <2>2, <2>3 DEF Typed, TypeOK, Entitled
    <2>5. \A y \in Procs : run'[y].pc \in Provisioning => run'[y].job.sub \in cleared
      BY <1>0, <2>3, FinishEntitled DEF Entitled
    <2> QED BY <2>2, <2>3, <2>4, <2>5 DEF Entitled
  <1> QED BY <1>1, <1>2, <1>3, <1>4, <1>5 DEF Signup

LEMMA EntitledProvision ==
  ASSUME Typed, Entitled, NEW x \in Procs, Provision(x)
  PROVE  Entitled'
  <1> DEFINE l == run[x]
  <1>0. /\ l \in Local /\ l.job.sub \in cleared
        /\ UNCHANGED <<queue, cleared, edit>>
    BY DEF Typed, TypeOK, Entitled, Provision, EnsurePending, MigrateSchema,
           SeedAdmin, Subscribe, Activate, Provisioning
  <1>1. /\ \A y \in Procs \ {x} : run'[y] = run[y]
        /\ run'[x].pc \in Provisioning => run'[x].job = l.job
    <2>1. CASE EnsurePending(x)
      BY <2>1, EnsureTenantFrame DEF EnsurePending
    <2>2. CASE MigrateSchema(x) \/ SeedAdmin(x) \/ Subscribe(x)
      <3>1. PICK pc \in {"seed", "subscribe", "activate"} : Goto(x, pc)
        BY <2>2 DEF MigrateSchema, SeedAdmin, Subscribe
      <3> QED BY <1>0, <3>1, GotoLemma DEF Typed, Steps, Provisioning, Local
    <2>3. CASE Activate(x)
      <3>1. CASE l.kind = "cli"
        BY <2>3, <3>1, FinishLemma DEF Activate, Typed
      <3>2. CASE l.kind # "cli"
        BY <1>0, <2>3, <3>2 DEF Activate, Typed, TypeOK, Local
      <3> QED BY <3>1, <3>2
    <2> QED BY <2>1, <2>2, <2>3 DEF Provision
  <1>2. \A t \in TenantIds :
          \/ rows'[t] = rows[t]
          \/ rows'[t].status = "PENDING"
          \/ rows'[t].sub \in cleared
    <2>1. CASE EnsurePending(x)
      BY <2>1, EnsureTenantFrame DEF EnsurePending
    <2>2. CASE Activate(x)
      <3>1. /\ l.tid \in TenantIds /\ l.ent \in Row /\ l.ent.sub = l.job.sub
        BY <2>2 DEF Activate, Typed, Holding, Working, Provisioning
      <3>2. rows' = [rows EXCEPT ![l.tid] = [l.ent EXCEPT !.isActive = TRUE]]
        BY <2>2 DEF Activate
      <3>3. [l.ent EXCEPT !.isActive = TRUE].sub = l.job.sub
        BY <3>1 DEF Row
      <3> QED BY <1>0, <3>1, <3>2, <3>3 DEF Typed, TypeOK
    <2>3. CASE MigrateSchema(x) \/ SeedAdmin(x) \/ Subscribe(x)
      BY <2>3 DEF MigrateSchema, SeedAdmin, Subscribe
    <2> QED BY <2>1, <2>2, <2>3 DEF Provision
  <1> QED BY <1>0, <1>1, <1>2 DEF Entitled

LEMMA EntitledWorker ==
  ASSUME Typed, Entitled, WorkerStep
  PROVE  Entitled'
  <1> DEFINE l == run[Worker]
  <1>0. Worker \in Procs /\ l \in Local /\ l.job \in Job
    BY DEF Typed, TypeOK, Procs, Local
  <1>1. CASE TakeJob
    <2> DEFINE job == Head(queue)
    <2>1. /\ queue # <<>> /\ queue' = Tail(queue) /\ UNCHANGED <<cleared, edit>>
          /\ rows' = SetStatus(job.tid, "PROVISIONING")
          /\ run' = [run EXCEPT ![Worker] =
                       [At("ensure") EXCEPT !.kind = "job", !.job = job]]
      BY <1>1 DEF TakeJob
    <2>2. \A i \in 1..Len(queue') : queue'[i] = queue[i + 1] /\ i + 1 \in 1..Len(queue)
      BY <2>1 DEF Typed, TypeOK
    <2>3. job \in Job /\ job.sub \in cleared
      BY <2>1 DEF Typed, TypeOK, Entitled
    <2>4. At("ensure") \in Local
      BY AtType DEF Steps, Provisioning
    <2>5. run'[Worker].job = job /\ \A y \in Procs \ {Worker} : run'[y] = run[y]
      BY <1>0, <2>1, <2>4 DEF Typed, TypeOK, Local
    <2>6. \A t \in TenantIds :
            rows'[t] = rows[t] \/ rows'[t].status = "PROVISIONING"
      BY <2>1 DEF SetStatus, Exists, Typed, TypeOK, Row
    <2> QED BY <2>1, <2>2, <2>3, <2>5, <2>6 DEF Entitled
  <1>2. CASE Provision(Worker)
    BY <1>0, <1>2, EntitledProvision
  <1>3. CASE CompleteJob
    <2>1. /\ UNCHANGED <<queue, cleared, edit>> /\ Goto(Worker, "record")
          /\ rows' = SetStatus(l.tid, "ACTIVE")
      BY <1>3 DEF CompleteJob
    <2>2. l.job.sub \in cleared /\ issued[l.tid] = l.job.sub
      BY <1>0, <1>3 DEF CompleteJob, Typed, Holding, Working, Provisioning,
                        Entitled
    <2>3. \A t \in TenantIds : rows'[t] # NoRow =>
            \/ rows'[t] = rows[t]
            \/ t = l.tid /\ rows'[t].sub = issued[t]
      BY <1>3, <2>1, SetStatusLemma DEF Status, CompleteJob
    <2>4. /\ run'[Worker] = [l EXCEPT !.pc = "record"]
          /\ \A y \in Procs \ {Worker} : run'[y] = run[y]
      BY <1>0, <2>1, GotoLemma DEF Typed, Steps, Provisioning
    <2>5. run'[Worker].job = l.job
      BY <1>0, <2>4 DEF Local
    <2>6. \A t \in TenantIds : rows'[t] # NoRow /\ rows'[t].status = "ACTIVE" =>
            rows'[t].sub \in cleared
      BY <2>2, <2>3 DEF Entitled
    <2> QED BY <2>1, <2>2, <2>4, <2>5, <2>6 DEF Entitled
  <1>4. CASE RecordCompleted
    <2>0. UNCHANGED <<rows, queue, cleared, edit>>
      BY <1>4 DEF RecordCompleted
    <2>1. CASE Goto(Worker, "accept")
      <3>1. /\ run'[Worker] = [l EXCEPT !.pc = "accept"]
            /\ \A y \in Procs \ {Worker} : run'[y] = run[y]
        BY <1>0, <2>1, GotoLemma DEF Typed, Steps, Provisioning
      <3>2. run'[Worker].job = l.job /\ l.job.sub \in cleared
        BY <1>0, <1>4, <3>1 DEF Local, RecordCompleted, Provisioning, Entitled
      <3> QED BY <2>0, <3>1, <3>2 DEF Entitled
    <2>2. CASE Finish(Worker)
      BY <1>0, <2>0, <2>2, FinishEntitled DEF Entitled
    <2> QED BY <1>4, <2>1, <2>2 DEF RecordCompleted
  <1>5. CASE AcceptInvite
    BY <1>0, <1>5, FinishEntitled DEF AcceptInvite, Entitled
  <1>6. CASE JobFails
    <2> DEFINE job == [l.job EXCEPT !.made = @ + 1]
    <2>0. UNCHANGED <<cleared, edit>> /\ Finish(Worker)
      BY <1>6 DEF JobFails
    <2>1. /\ queue' \in {queue, Append(queue, job)}
          /\ \/ rows' = rows
             \/ rows' = SetStatus(job.tid, "FAILED")
      BY <1>6 DEF JobFails
    <2>2. job.sub = l.job.sub /\ l.job.sub \in cleared
      BY <1>0, <1>6, OnboardingAssumption
         DEF Job, JobFails, Fails, Rejected, Entitled, Provisioning
    <2> HIDE DEF job
    <2>3. \A i \in 1..Len(queue') : queue'[i].sub \in cleared
      <3>1. CASE queue' = queue
        BY <3>1 DEF Entitled
      <3>2. CASE queue' = Append(queue, job)
        BY <2>2, <3>2 DEF Typed, TypeOK, Entitled
      <3> QED BY <2>1, <3>1, <3>2
    <2>4. \A t \in TenantIds : rows'[t] = rows[t] \/ rows'[t].status = "FAILED"
      BY <2>1 DEF SetStatus, Exists, Typed, TypeOK, Row
    <2> QED BY <1>0, <2>0, <2>3, <2>4, FinishEntitled DEF Entitled
  <1> QED BY <1>1, <1>2, <1>3, <1>4, <1>5, <1>6 DEF WorkerStep

LEMMA EntitledRequest ==
  ASSUME Typed, Entitled, NEW r \in Requests, RequestStep(r)
  PROVE  Entitled'
  <1> DEFINE l == run[r]
  <1>0. r \in Procs /\ l \in Local /\ l.job \in Job
    BY DEF Typed, TypeOK, Procs, Local
  <1>1. At("ensure") \in Local
    BY AtType DEF Steps, Provisioning
  <1>2. ASSUME NEW s \in Subdomains, CreateTenant(r, s)
        PROVE  Entitled'
    <2>1. PICK t \in TenantIds :
            run' = [run EXCEPT ![r] =
                 [At("ensure") EXCEPT !.kind = "create",
                    !.job = [Blank(s, NoToken, FALSE) EXCEPT !.tid = t]]]
      BY <1>1, <1>2 DEF CreateTenant, Holders, Fresh
    <2>2. [Blank(s, NoToken, FALSE) EXCEPT !.tid = t].sub = s
      BY DEF Blank
    <2>3. /\ run'[r].job.sub = s
          /\ \A y \in Procs \ {r} : run'[y] = run[y]
      BY <1>0, <1>1, <2>1, <2>2 DEF Typed, TypeOK, Local
    <2>4. UNCHANGED <<queue, edit>> /\ cleared' = cleared \cup {s}
      BY <1>2 DEF CreateTenant
    <2>5. \A u \in TenantIds : rows'[u] = rows[u] \/ rows'[u].status = "PENDING"
      <3>1. \/ rows' = rows
            \/ \E u \in TenantIds : rows' = [rows EXCEPT ![u] = NewRow(s, NoToken)]
        BY <1>2 DEF CreateTenant, Fresh
      <3>2. NewRow(s, NoToken).status = "PENDING"
        BY DEF NewRow
      <3> QED BY <3>1, <3>2 DEF Typed, TypeOK
    <2> QED BY <2>3, <2>4, <2>5 DEF Entitled
  <1>3. ASSUME NEW s \in Subdomains, CliProvision(r, s)
        PROVE  Entitled'
    <2>1. /\ run' = [run EXCEPT ![r] = [At("ensure") EXCEPT !.kind = "cli",
                                          !.job = Blank(s, NoToken, FALSE)]]
          /\ UNCHANGED <<rows, queue, edit>> /\ cleared' = cleared \cup {s}
      BY <1>3 DEF CliProvision
    <2>2. Blank(s, NoToken, FALSE).sub = s
      BY DEF Blank
    <2>3. /\ run'[r].job.sub = s
          /\ \A y \in Procs \ {r} : run'[y] = run[y]
      BY <1>0, <1>1, <2>1, <2>2 DEF Typed, TypeOK, Local
    <2>4. UNCHANGED <<rows, queue, edit>> /\ cleared' = cleared \cup {s}
      BY <2>1
    <2> QED BY <2>3, <2>4 DEF Entitled
  <1>4. CASE CompleteCreate(r)
    <2> DEFINE ent == [l.ent EXCEPT !.status = "ACTIVE"]
    <2>1. /\ l.tid \in TenantIds /\ l.ent \in Row /\ l.ent.sub = l.job.sub
          /\ l.job.sub \in cleared
      BY <1>0, <1>4 DEF CompleteCreate, Typed, Holding, Working, Provisioning,
                        Entitled
    <2>2. ent.sub = l.job.sub
      BY <2>1 DEF Row
    <2>3. /\ rows' = [rows EXCEPT ![l.tid] = ent]
          /\ UNCHANGED <<queue, cleared, edit>> /\ Finish(r)
      BY <1>4 DEF CompleteCreate
    <2> HIDE DEF ent
    <2>4. \A t \in TenantIds : rows'[t] = rows[t] \/ rows'[t].sub \in cleared
      BY <2>1, <2>2, <2>3 DEF Typed, TypeOK
    <2> QED BY <1>0, <2>3, <2>4, FinishEntitled DEF Entitled
  <1>5. CASE RequestFails(r)
    <2>1. /\ UNCHANGED <<queue, cleared, edit>> /\ Finish(r)
          /\ rows' = rows \/ rows' = SetStatus(l.job.tid, "FAILED")
      BY <1>5 DEF RequestFails
    <2>2. \A t \in TenantIds : rows'[t] = rows[t] \/ rows'[t].status = "FAILED"
      BY <2>1 DEF SetStatus, Exists, Typed, TypeOK, Row
    <2> QED BY <1>0, <2>1, <2>2, FinishEntitled DEF Entitled
  <1> QED BY <1>0, <1>2, <1>3, <1>4, <1>5, EntitledSignup, EntitledProvision
          DEF RequestStep

LEMMA EntitledRest ==
  ASSUME Typed, Entitled, Console \/ Crash \/ \E t \in TenantIds : Serve(t)
  PROVE  Entitled'
  <1>1. ASSUME NEW t \in TenantIds, ApproveTenant(t)
        PROVE  Entitled'
    <2> DEFINE job == [Blank(rows[t].sub, NoToken, FALSE) EXCEPT !.tid = t]
    <2>1. /\ queue' = Append(queue, job) /\ cleared' = cleared \cup {rows[t].sub}
          /\ UNCHANGED <<rows, run, edit>>
      BY <1>1 DEF ApproveTenant
    <2>2. job.sub = rows[t].sub
      BY DEF Blank
    <2> HIDE DEF job
    <2>3. \A i \in 1..Len(queue') : queue'[i].sub \in cleared'
      BY <2>1, <2>2 DEF Typed, TypeOK, Entitled
    <2> QED BY <2>1, <2>3 DEF Entitled
  <1>2. ASSUME NEW t \in TenantIds, DeleteTenant(t)
        PROVE  Entitled'
    <2>1. /\ rows' = [rows EXCEPT ![t] = NoRow]
          /\ UNCHANGED <<queue, run, edit, cleared>>
      BY <1>2 DEF DeleteTenant
    <2> QED BY <2>1 DEF Typed, TypeOK, Entitled
  <1>3. ASSUME NEW t \in TenantIds, EditRead(t)
        PROVE  Entitled'
    <2>1. /\ edit' = [tid |-> t, ent |-> rows[t]] /\ rows[t] # NoRow
          /\ UNCHANGED <<rows, queue, run, cleared>>
      BY <1>3 DEF EditRead, Exists
    <2> QED BY <2>1 DEF Entitled
  <1>4. ASSUME NEW active \in BOOLEAN, EditSave(active)
        PROVE  Entitled'
    <2> DEFINE ent == [edit.ent EXCEPT !.isActive = active]
    <2>1. edit.tid \in TenantIds /\ edit.ent \in Row /\ edit # NoEdit
      BY <1>4 DEF EditSave, Typed, Holding
    <2>2. ent.status = edit.ent.status /\ ent.sub = edit.ent.sub
      BY <2>1 DEF Row
    <2>3. /\ rows' = [rows EXCEPT ![edit.tid] = ent] /\ edit' = NoEdit
          /\ UNCHANGED <<queue, run, cleared>>
      BY <1>4 DEF EditSave
    <2> HIDE DEF ent
    <2>4. \A t \in TenantIds : rows'[t] = rows[t] \/ rows'[t] = ent
      BY <2>1, <2>3 DEF Typed, TypeOK
    <2> QED BY <2>1, <2>2, <2>3, <2>4 DEF Entitled
  <1>5. CASE ToggleGate
    BY <1>5 DEF ToggleGate, Entitled
  <1>6. ASSUME NEW k \in Tokens, CloseInvite(k)
        PROVE  Entitled'
    BY <1>6 DEF CloseInvite, Entitled
  <1>7. CASE Crash
    <2> DEFINE l == run[Worker]
               again == [l.job EXCEPT !.stalls = @ + 1]
    <2>1. UNCHANGED <<rows, cleared>> /\ edit' = NoEdit
      BY <1>7 DEF Crash
    <2>2. \A x \in Procs : run'[x].pc \notin Provisioning
      <3>1. \A x \in Procs : \E pc \in {"idle", "done"} : run'[x] = At(pc)
        BY <1>7 DEF Crash
      <3>2. \A pc \in {"idle", "done"} : At(pc).pc \notin Provisioning
        BY AtType DEF Steps, Provisioning
      <3> QED BY <3>1, <3>2
    <2>3. l \in Local /\ l.job \in Job
      BY DEF Typed, TypeOK, Procs, Local
    <2>4. again.sub = l.job.sub
      BY <2>3 DEF Job
    <2> HIDE DEF again
    <2>5. \A i \in 1..Len(queue') : queue'[i].sub \in cleared
      <3>1. CASE queue' = queue
        BY <3>1 DEF Entitled
      <3>2. CASE queue' # queue
        <4>1. queue' = <<again>> \o queue /\ l.pc \in Provisioning
          BY <1>7, <3>2 DEF Crash, again
        <4>2. l.job.sub \in cleared
          BY <4>1 DEF Entitled, Procs
        <4> QED BY <2>4, <4>1, <4>2 DEF Typed, TypeOK, Entitled
      <3> QED BY <3>1, <3>2
    <2> QED BY <2>1, <2>2, <2>5 DEF Entitled
  <1>8. ASSUME NEW t \in TenantIds, Serve(t)
        PROVE  Entitled'
    BY <1>8 DEF Serve, Entitled
  <1> QED BY <1>1, <1>2, <1>3, <1>4, <1>5, <1>6, <1>7, <1>8 DEF Console

LEMMA EntitledNext == Typed /\ Entitled /\ [Next]_vars => Entitled'
  <1> SUFFICES ASSUME Typed, Entitled, [Next]_vars PROVE Entitled'
    OBVIOUS
  <1>1. CASE UNCHANGED vars
    BY <1>1 DEF vars, Entitled
  <1>2. CASE Rest
    BY <1>1, <1>2 DEF Rest
  <1> QED BY <1>1, <1>2, EntitledWorker, EntitledRequest, EntitledRest DEF Next

\* No church goes live that nobody was entitled to: not by a second signup for
\* the same subdomain, a retry after a crash, a stale console edit or a save
\* that brings a deleted row back.
THEOREM GateHolds == Spec => []ApprovalGate
  <1>1. Init => Entitled
    BY EntitledInit
  <1>2. Typed /\ Entitled /\ [Next]_vars => Entitled'
    BY EntitledNext
  <1>3. Entitled => ApprovalGate
    BY DEF Entitled, ApprovalGate, Admitted, Exists
  <1> QED BY <1>1, <1>2, <1>3, TypedAlways, PTL DEF Spec

-----------------------------------------------------------------------------
(* The whole workspace *)

\* Church t has all that provision() builds before it opens it.
Built(t) ==
  /\ issued[t] \in Subdomains
  /\ schema[issued[t]] \in {"seeded", "used"}
  /\ subs[t] # Unsubscribed

\* An entity a process read stands for a built church if it says the church is
\* open, and a provisioning stands where its earlier steps have brought it.
Advanced(x) ==
  /\ run[x].pc \in Working /\ run[x].ent.status = "ACTIVE" => Built(run[x].tid)
  /\ run[x].pc = "subscribe" => schema[run[x].job.sub] \in {"seeded", "used"}
  /\ run[x].pc \in {"activate", "complete", "record", "accept"} => Built(run[x].tid)

\* The strengthening of ServedIsComplete: whatever calls a church open, its
\* row, a process about to save it or a console edit, is of a built one.
Backed ==
  /\ \A t \in TenantIds : rows[t] # NoRow /\ rows[t].status = "ACTIVE" => Built(t)
  /\ \A x \in Procs : Advanced(x)
  /\ edit # NoEdit /\ edit.ent.status = "ACTIVE" => Built(edit.tid)

\* Nothing that was built is taken down.
Grows ==
  /\ \A s \in Subdomains :
       schema[s] \in {"seeded", "used"} => schema'[s] \in {"seeded", "used"}
  /\ \A t \in TenantIds : issued[t] \in Subdomains => issued'[t] = issued[t]
  /\ \A t \in TenantIds : subs[t] # Unsubscribed => subs'[t] # Unsubscribed

LEMMA BackedInit == Init => Backed
  <1> SUFFICES ASSUME Init PROVE Backed
    OBVIOUS
  <1>1. At("idle").pc = "idle"
    BY AtType DEF Steps
  <1> QED BY <1>1 DEF Init, Backed, Advanced, Working, Provisioning

LEMMA BuiltStays ==
  ASSUME Grows, NEW t \in TenantIds, Built(t)
  PROVE  Built(t)'
  BY DEF Grows, Built

\* A process that does not move, or that ends, stays where it was advanced to.
LEMMA AdvancedStays ==
  ASSUME Typed, Grows, NEW x \in Procs, Advanced(x), run'[x] = run[x]
  PROVE  Advanced(x)'
  <1> DEFINE l == run[x]
  <1>1. l.pc \in Working => l.tid \in TenantIds /\ l.job.sub \in Subdomains
    BY DEF Typed, TypeOK, Holding, Local, Job
  <1>2. {"subscribe", "activate", "complete", "record", "accept"} \subseteq Working
    BY DEF Working, Provisioning
  <1>3. \A t \in TenantIds : Built(t) => Built(t)'
    BY BuiltStays
  <1>4. l.pc = "subscribe" => schema'[l.job.sub] \in {"seeded", "used"}
    BY <1>1, <1>2 DEF Grows, Advanced
  <1> HIDE DEF Built
  <1> QED BY <1>1, <1>2, <1>3, <1>4 DEF Advanced

LEMMA AdvancedAtRest ==
  ASSUME NEW x \in Procs, run'[x].pc \notin Working
  PROVE  Advanced(x)'
  BY DEF Advanced, Working, Provisioning

\* A step keeps Backed when each row, process and edit it changes is backed.
LEMMA BackedStays ==
  ASSUME Typed, Backed, Grows,
         \A t \in TenantIds :
           rows'[t] = rows[t] \/ (rows'[t] # NoRow /\ rows'[t].status = "ACTIVE"
                                  => Built(t)),
         \A x \in Procs : run'[x] = run[x] \/ Advanced(x)',
         edit' \in {edit, NoEdit}
  PROVE  Backed'
  <1>1. \A t \in TenantIds : Built(t) => Built(t)'
    BY BuiltStays
  <1>2. \A x \in Procs : Advanced(x)'
    BY AdvancedStays DEF Backed
  <1>3. edit # NoEdit => edit.tid \in TenantIds
    BY DEF Typed, Holding
  <1> HIDE DEF Built, Advanced
  <1>4. (edit # NoEdit /\ edit.ent.status = "ACTIVE" => Built(edit.tid))'
    BY <1>1, <1>3 DEF Backed, NoEdit
  <1>5. \A t \in TenantIds : (rows[t] # NoRow /\ rows[t].status = "ACTIVE" => Built(t))'
    BY <1>1 DEF Backed
  <1> QED BY <1>2, <1>4, <1>5 DEF Backed

\* A handler that ends and leaves the workspaces alone.
LEMMA BackedFinish ==
  ASSUME Typed, Backed, NEW x \in Procs, Finish(x),
         UNCHANGED <<schema, issued, subs, edit>>,
         \A t \in TenantIds :
           rows'[t] = rows[t] \/ (rows'[t] # NoRow /\ rows'[t].status = "ACTIVE"
                                  => Built(t))
  PROVE  Backed'
  <1>1. /\ run'[x].pc \notin Provisioning \cup Working
        /\ \A y \in Procs \ {x} : run'[y] = run[y]
    BY FinishLemma DEF Typed
  <1>2. Advanced(x)'
    BY <1>1, AdvancedAtRest
  <1>3. Grows
    BY DEF Grows
  <1> HIDE DEF Advanced, Built
  <1> QED BY <1>1, <1>2, <1>3, BackedStays

\* A handler that goes on to a step it has earned.
LEMMA BackedGoto ==
  ASSUME Typed, Backed, Grows, NEW x \in Procs, NEW pc \in Working, Goto(x, pc),
         run[x].pc \in Working, UNCHANGED edit,
         pc = "subscribe" => schema'[run[x].job.sub] \in {"seeded", "used"},
         pc \in {"activate", "complete", "record", "accept"} =>
           \A t \in TenantIds : t = run[x].tid => Built(t)',
         \A t \in TenantIds :
           rows'[t] = rows[t] \/ (rows'[t] # NoRow /\ rows'[t].status = "ACTIVE"
                                  => Built(t))
  PROVE  Backed'
  <1> DEFINE l == run[x]
  <1>1. pc \in Steps
    BY DEF Working, Steps
  <1>2. /\ run'[x] = [l EXCEPT !.pc = pc]
        /\ \A y \in Procs \ {x} : run'[y] = run[y]
    BY <1>1, GotoLemma DEF Typed
  <1>3. l \in Local
    BY DEF Typed, TypeOK
  <1>4. /\ run'[x].pc = pc /\ run'[x].tid = l.tid /\ run'[x].ent = l.ent
        /\ run'[x].job = l.job
    BY <1>2, <1>3 DEF Local
  <1>5. PICK t \in TenantIds : t = l.tid
    BY DEF Typed, Holding
  <1>6. l.ent.status = "ACTIVE" => Built(t)'
    BY <1>5, BuiltStays DEF Backed, Advanced
  <1> HIDE DEF Built
  <1>7. Advanced(x)'
    BY <1>4, <1>5, <1>6 DEF Advanced
  <1> HIDE DEF Advanced
  <1> QED BY <1>2, <1>7, BackedStays

LEMMA EnsureTenantBacked ==
  ASSUME Typed, Backed, NEW x \in Procs, NEW pc \in {"routing", "schema"},
         EnsureTenant(x, pc), UNCHANGED <<schema, subs, edit>>
  PROVE  Backed'
  <1> DEFINE l == run[x]
  <1>1. l \in Local
    BY DEF Typed, TypeOK
  <1>2. CASE \E t \in Holders(l.job.sub) :
               /\ ~rows[t].isActive
               /\ run' = [run EXCEPT ![x].pc = pc, ![x].tid = t, ![x].ent = rows[t]]
               /\ UNCHANGED <<rows, issued>>
    <2>1. PICK t \in TenantIds :
            /\ rows[t] # NoRow
            /\ run' = [run EXCEPT ![x].pc = pc, ![x].tid = t, ![x].ent = rows[t]]
            /\ UNCHANGED <<rows, issued>>
      BY <1>2 DEF Holders
    <2>2. Grows
      BY <2>1 DEF Grows
    <2>3. /\ run'[x].pc = pc /\ run'[x].tid = t /\ run'[x].ent = rows[t]
          /\ \A y \in Procs \ {x} : run'[y] = run[y]
      BY <1>1, <2>1 DEF Typed, TypeOK, Local
    <2>4. rows[t].status = "ACTIVE" => Built(t)'
      BY <2>1, <2>2, BuiltStays DEF Backed
    <2> HIDE DEF Built
    <2>5. Advanced(x)'
      BY <2>3, <2>4 DEF Advanced
    <2> HIDE DEF Advanced
    <2> QED BY <2>1, <2>2, <2>3, <2>5, BackedStays
  <1>3. CASE \E t \in Fresh :
               LET row == NewRow(l.job.sub, l.job.token) IN
               /\ rows' = [rows EXCEPT ![t] = row]
               /\ issued' = [issued EXCEPT ![t] = l.job.sub]
               /\ run' = [run EXCEPT ![x].pc = pc, ![x].tid = t, ![x].ent = row]
    <2> DEFINE row == NewRow(l.job.sub, l.job.token)
    <2>1. row.status = "PENDING"
      BY DEF NewRow
    <2>2. PICK t \in TenantIds :
            /\ issued[t] = NoSubdomain
            /\ rows' = [rows EXCEPT ![t] = row]
            /\ issued' = [issued EXCEPT ![t] = l.job.sub]
            /\ run' = [run EXCEPT ![x].pc = pc, ![x].tid = t, ![x].ent = row]
      BY <1>3 DEF Fresh
    <2> HIDE DEF row
    <2>3. Grows
      BY <2>2, OnboardingAssumption DEF Grows, Typed, TypeOK
    <2>4. /\ run'[x].pc = pc /\ run'[x].ent = row
          /\ \A y \in Procs \ {x} : run'[y] = run[y]
      BY <1>1, <2>2 DEF Typed, TypeOK, Local
    <2>5. Advanced(x)'
      BY <2>1, <2>4 DEF Advanced
    <2>6. \A u \in TenantIds : rows'[u] = rows[u] \/ rows'[u].status # "ACTIVE"
      BY <2>1, <2>2 DEF Typed, TypeOK
    <2> HIDE DEF Advanced, Built
    <2> QED BY <2>3, <2>4, <2>5, <2>6, BackedStays
  <1> QED BY <1>2, <1>3 DEF EnsureTenant

LEMMA BackedSignup ==
  ASSUME Typed, Backed, NEW r \in Requests, Signup(r)
  PROVE  Backed'
  <1>0. r \in Procs /\ run[r] \in Local
    BY DEF Typed, TypeOK, Procs
  <1>1. ASSUME NEW s \in Subdomains, NEW k \in Tokens \cup {NoToken},
               SignupResolve(r, s, k)
        PROVE  Backed'
    <2>1. PICK sp \in BOOLEAN :
            run' = [run EXCEPT ![r] = [At("resolved") EXCEPT !.kind = "signup",
                                                    !.job = Blank(s, k, sp)]]
      BY <1>1 DEF SignupResolve
    <2>2. At("resolved") \in Local /\ At("resolved").pc = "resolved"
      BY AtType DEF Steps
    <2>3. /\ run'[r].pc = "resolved"
          /\ \A y \in Procs \ {r} : run'[y] = run[y]
      BY <1>0, <2>1, <2>2 DEF Typed, TypeOK, Local
    <2>4. UNCHANGED <<rows, issued, schema, subs, edit>>
      BY <1>1 DEF SignupResolve
    <2>5. Grows
      BY <2>4 DEF Grows
    <2>6. Advanced(r)'
      BY <1>0, <2>3, AdvancedAtRest DEF Working, Provisioning
    <2> HIDE DEF Advanced, Built
    <2> QED BY <2>3, <2>4, <2>5, <2>6, BackedStays
  <1>2. CASE SignupEnsure(r)
    BY <1>0, <1>2, EnsureTenantBacked DEF SignupEnsure
  <1>3. CASE SignupConflict(r)
    BY <1>0, <1>3, BackedFinish DEF SignupConflict
  <1>4. CASE SignupHold(r)
    <2>1. UNCHANGED <<issued, schema, subs, edit>> /\ Finish(r)
      BY <1>4 DEF SignupHold
    <2>2. \A t \in TenantIds :
            rows'[t] = rows[t] \/ rows'[t].status = "AWAITING_APPROVAL"
      BY <1>4 DEF SignupHold, Exists, Typed, TypeOK, Row
    <2> HIDE DEF Built
    <2> QED BY <1>0, <2>1, <2>2, BackedFinish
  <1>5. CASE SignupEnqueue(r)
    BY <1>0, <1>5, BackedFinish DEF SignupEnqueue
  <1> QED BY <1>1, <1>2, <1>3, <1>4, <1>5 DEF Signup

LEMMA BackedProvision ==
  ASSUME Typed, Backed, NEW x \in Procs, Provision(x)
  PROVE  Backed'
  <1> DEFINE l == run[x]
  <1>0. l \in Local /\ l.job \in Job /\ l.job.sub \in Subdomains
    BY DEF Typed, TypeOK, Local, Job
  <1>1. CASE EnsurePending(x)
    BY <1>1, EnsureTenantBacked DEF EnsurePending
  <1>2. CASE MigrateSchema(x)
    <2>1. Goto(x, "seed") /\ UNCHANGED <<rows, issued, subs, edit>>
      BY <1>2 DEF MigrateSchema
    <2>2. Grows
      BY <1>0, <1>2 DEF MigrateSchema, Grows, Typed, TypeOK
    <2>3. l.pc \in Working /\ "seed" \in Working
      BY <1>2 DEF MigrateSchema, Working, Provisioning
    <2> HIDE DEF Built
    <2> QED BY <2>1, <2>2, <2>3, BackedGoto
  <1>3. CASE SeedAdmin(x)
    <2>1. Goto(x, "subscribe") /\ UNCHANGED <<rows, issued, subs, edit>>
      BY <1>3 DEF SeedAdmin
    <2>2. Grows /\ schema'[l.job.sub] \in {"seeded", "used"}
      BY <1>0, <1>3 DEF SeedAdmin, Grows, Typed, TypeOK
    <2>3. l.pc \in Working /\ "subscribe" \in Working
      BY <1>3 DEF SeedAdmin, Working, Provisioning
    <2> HIDE DEF Built
    <2> QED BY <2>1, <2>2, <2>3, BackedGoto
  <1>4. CASE Subscribe(x)
    <2>1. Goto(x, "activate") /\ UNCHANGED <<rows, issued, schema, edit>>
      BY <1>4 DEF Subscribe
    <2>2. l.pc \in Working /\ "activate" \in Working
      BY <1>4 DEF Subscribe, Working, Provisioning
    <2>3. /\ l.tid \in TenantIds /\ issued[l.tid] = l.job.sub
          /\ schema[l.job.sub] \in {"seeded", "used"}
      BY <1>4, <2>2 DEF Subscribe, Typed, Holding, Backed, Advanced
    <2>4. PaidBy(x) # Unsubscribed
      BY <1>0, OnboardingAssumption DEF PaidBy, Job
    <2>5. /\ subs'[l.tid] # Unsubscribed
          /\ \A t \in TenantIds : subs[t] # Unsubscribed => subs'[t] # Unsubscribed
      BY <1>4, <2>3, <2>4 DEF Subscribe, Typed, TypeOK
    <2>6. Grows
      BY <2>1, <2>5 DEF Grows
    <2>7. \A t \in TenantIds : t = l.tid => Built(t)'
      BY <1>0, <2>1, <2>3, <2>5 DEF Built
    <2> HIDE DEF Built
    <2> QED BY <2>1, <2>2, <2>6, <2>7, BackedGoto
  <1>5. CASE Activate(x)
    <2> DEFINE ent == [l.ent EXCEPT !.isActive = TRUE]
    <2>1. l.tid \in TenantIds /\ l.ent \in Row /\ Built(l.tid)
      BY <1>5 DEF Activate, Typed, Holding, Backed, Advanced, Working, Provisioning
    <2>2. /\ rows' = [rows EXCEPT ![l.tid] = ent]
          /\ UNCHANGED <<issued, schema, subs, edit>>
      BY <1>5 DEF Activate
    <2> HIDE DEF ent, Built
    <2>3. \A t \in TenantIds : rows'[t] = rows[t] \/ Built(t)
      BY <2>1, <2>2 DEF Typed, TypeOK
    <2>4. CASE l.kind = "cli"
      <3>1. Finish(x)
        BY <1>5, <2>4 DEF Activate
      <3> QED BY <2>2, <2>3, <3>1, BackedFinish
    <2>5. CASE l.kind # "cli"
      <3>1. /\ run'[x].pc = "complete" /\ run'[x].tid = l.tid
            /\ \A y \in Procs \ {x} : run'[y] = run[y]
        BY <1>0, <1>5, <2>5 DEF Activate, Typed, TypeOK, Local
      <3>2. Grows
        BY <2>2 DEF Grows
      <3>3. PICK t \in TenantIds : t = l.tid
        BY <2>1
      <3>4. Built(t)'
        BY <2>1, <3>2, <3>3, BuiltStays
      <3>5. Advanced(x)'
        BY <3>1, <3>3, <3>4 DEF Advanced
      <3> HIDE DEF Advanced
      <3> QED BY <2>2, <2>3, <3>1, <3>2, <3>5, BackedStays
    <2> QED BY <2>4, <2>5
  <1> QED BY <1>1, <1>2, <1>3, <1>4, <1>5 DEF Provision

LEMMA BackedWorker ==
  ASSUME Typed, Backed, WorkerStep
  PROVE  Backed'
  <1> DEFINE l == run[Worker]
  <1>0. Worker \in Procs /\ l \in Local /\ l.job \in Job
    BY DEF Typed, TypeOK, Procs, Local
  <1>1. CASE TakeJob
    <2> DEFINE job == Head(queue)
    <2>1. /\ UNCHANGED <<issued, schema, subs, edit>>
          /\ rows' = SetStatus(job.tid, "PROVISIONING")
          /\ run' = [run EXCEPT ![Worker] =
                       [At("ensure") EXCEPT !.kind = "job", !.job = job]]
      BY <1>1 DEF TakeJob
    <2>2. At("ensure") \in Local /\ At("ensure").pc = "ensure"
      BY AtType DEF Steps, Provisioning
    <2>3. run'[Worker].pc = "ensure" /\ \A y \in Procs \ {Worker} : run'[y] = run[y]
      BY <1>0, <2>1, <2>2 DEF Typed, TypeOK, Local
    <2>4. \A t \in TenantIds :
            rows'[t] = rows[t] \/ rows'[t].status = "PROVISIONING"
      BY <2>1 DEF SetStatus, Exists, Typed, TypeOK, Row
    <2>5. Advanced(Worker)'
      BY <1>0, <2>3, AdvancedAtRest DEF Working, Provisioning
    <2>6. Grows
      BY <2>1 DEF Grows
    <2> HIDE DEF Advanced, Built
    <2> QED BY <2>1, <2>3, <2>4, <2>5, <2>6, BackedStays
  <1>2. CASE Provision(Worker)
    BY <1>0, <1>2, BackedProvision
  <1>3. CASE CompleteJob
    <2>1. /\ UNCHANGED <<issued, schema, subs, edit>> /\ Goto(Worker, "record")
          /\ rows' = SetStatus(l.tid, "ACTIVE")
      BY <1>3 DEF CompleteJob
    <2>2. l.pc \in Working /\ "record" \in Working
      BY <1>3 DEF CompleteJob, Working, Provisioning
    <2>3. l.tid \in TenantIds /\ Built(l.tid)
      BY <1>0, <1>3, <2>2 DEF CompleteJob, Typed, Holding, Backed, Advanced
    <2>4. Grows
      BY <2>1 DEF Grows
    <2> HIDE DEF Built
    <2>5. \A t \in TenantIds : rows'[t] = rows[t] \/ Built(t)
      BY <2>1, <2>3, SetStatusLemma DEF Status
    <2>6. \A t \in TenantIds : t = l.tid => Built(t)'
      BY <2>3, <2>4, BuiltStays
    <2> QED BY <1>0, <2>1, <2>2, <2>4, <2>5, <2>6, BackedGoto
  <1>4. CASE RecordCompleted
    <2>1. UNCHANGED <<rows, issued, schema, subs, edit>>
      BY <1>4 DEF RecordCompleted
    <2>2. CASE Goto(Worker, "accept")
      <3>1. l.pc \in Working /\ "accept" \in Working
        BY <1>4 DEF RecordCompleted, Working, Provisioning
      <3>2. Built(l.tid)
        BY <1>0, <1>4 DEF RecordCompleted, Backed, Advanced
      <3>3. Grows
        BY <2>1 DEF Grows
      <3> HIDE DEF Built
      <3>4. \A t \in TenantIds : t = l.tid => Built(t)'
        BY <3>2, <3>3, BuiltStays
      <3> QED BY <1>0, <2>1, <2>2, <3>1, <3>3, <3>4, BackedGoto
    <2>3. CASE Finish(Worker)
      BY <1>0, <2>1, <2>3, BackedFinish
    <2> QED BY <1>4, <2>2, <2>3 DEF RecordCompleted
  <1>5. CASE AcceptInvite
    BY <1>0, <1>5, BackedFinish DEF AcceptInvite
  <1>6. CASE JobFails
    <2>1. UNCHANGED <<issued, schema, subs, edit>> /\ Finish(Worker)
      BY <1>6 DEF JobFails
    <2>2. rows' = rows \/ \E t : rows' = SetStatus(t, "FAILED")
      BY <1>6 DEF JobFails
    <2>3. \A t \in TenantIds : rows'[t] = rows[t] \/ rows'[t].status = "FAILED"
      BY <2>2 DEF SetStatus, Exists, Typed, TypeOK, Row
    <2> HIDE DEF Built
    <2> QED BY <1>0, <2>1, <2>3, BackedFinish
  <1> QED BY <1>1, <1>2, <1>3, <1>4, <1>5, <1>6 DEF WorkerStep

LEMMA BackedRequest ==
  ASSUME Typed, Backed, NEW r \in Requests, RequestStep(r)
  PROVE  Backed'
  <1> DEFINE l == run[r]
  <1>0. r \in Procs /\ l \in Local /\ l.job \in Job
    BY DEF Typed, TypeOK, Procs, Local
  <1>1. At("ensure") \in Local /\ At("ensure").pc = "ensure"
    BY AtType DEF Steps, Provisioning
  <1>2. ASSUME NEW s \in Subdomains, CreateTenant(r, s)
        PROVE  Backed'
    <2>1. PICK t \in TenantIds :
            /\ run' = [run EXCEPT ![r] =
                 [At("ensure") EXCEPT !.kind = "create",
                    !.job = [Blank(s, NoToken, FALSE) EXCEPT !.tid = t]]]
            /\ \/ UNCHANGED <<rows, issued>>
               \/ /\ issued[t] = NoSubdomain
                  /\ rows' = [rows EXCEPT ![t] = NewRow(s, NoToken)]
                  /\ issued' = [issued EXCEPT ![t] = s]
      BY <1>1, <1>2 DEF CreateTenant, Holders, Fresh, Local
    <2>2. /\ run'[r].pc = "ensure"
          /\ \A y \in Procs \ {r} : run'[y] = run[y]
      BY <1>0, <1>1, <2>1 DEF Typed, TypeOK, Local
    <2>3. UNCHANGED <<schema, subs, edit>>
      BY <1>2 DEF CreateTenant
    <2>4. NewRow(s, NoToken).status = "PENDING"
      BY DEF NewRow
    <2>5. \A u \in TenantIds : rows'[u] = rows[u] \/ rows'[u].status = "PENDING"
      BY <2>1, <2>4 DEF Typed, TypeOK
    <2>6. Grows
      BY <2>1, <2>3, OnboardingAssumption DEF Grows, Typed, TypeOK
    <2>7. Advanced(r)'
      BY <1>0, <2>2, AdvancedAtRest DEF Working, Provisioning
    <2> HIDE DEF Advanced, Built
    <2> QED BY <2>2, <2>3, <2>5, <2>6, <2>7, BackedStays
  <1>3. ASSUME NEW s \in Subdomains, CliProvision(r, s)
        PROVE  Backed'
    <2>1. /\ run' = [run EXCEPT ![r] = [At("ensure") EXCEPT !.kind = "cli",
                                          !.job = Blank(s, NoToken, FALSE)]]
          /\ UNCHANGED <<rows, issued, schema, subs, edit>>
      BY <1>3 DEF CliProvision
    <2>2. /\ run'[r].pc = "ensure"
          /\ \A y \in Procs \ {r} : run'[y] = run[y]
      BY <1>0, <1>1, <2>1 DEF Typed, TypeOK, Local
    <2>3. Grows
      BY <2>1 DEF Grows
    <2>4. Advanced(r)'
      BY <1>0, <2>2, AdvancedAtRest DEF Working, Provisioning
    <2> HIDE DEF Advanced, Built
    <2> QED BY <2>1, <2>2, <2>3, <2>4, BackedStays
  <1>4. CASE CompleteCreate(r)
    <2> DEFINE ent == [l.ent EXCEPT !.status = "ACTIVE"]
    <2>1. l.tid \in TenantIds /\ Built(l.tid)
      BY <1>0, <1>4 DEF CompleteCreate, Typed, Holding, Backed, Advanced, Working,
                        Provisioning
    <2>2. /\ rows' = [rows EXCEPT ![l.tid] = ent]
          /\ UNCHANGED <<issued, schema, subs, edit>> /\ Finish(r)
      BY <1>4 DEF CompleteCreate
    <2> HIDE DEF ent, Built
    <2>3. \A t \in TenantIds : rows'[t] = rows[t] \/ Built(t)
      BY <2>1, <2>2 DEF Typed, TypeOK
    <2> QED BY <1>0, <2>2, <2>3, BackedFinish
  <1>5. CASE RequestFails(r)
    <2>1. /\ UNCHANGED <<issued, schema, subs, edit>> /\ Finish(r)
          /\ rows' = rows \/ rows' = SetStatus(l.job.tid, "FAILED")
      BY <1>5 DEF RequestFails
    <2>2. \A t \in TenantIds : rows'[t] = rows[t] \/ rows'[t].status = "FAILED"
      BY <2>1 DEF SetStatus, Exists, Typed, TypeOK, Row
    <2> HIDE DEF Built
    <2> QED BY <1>0, <2>1, <2>2, BackedFinish
  <1> QED BY <1>0, <1>2, <1>3, <1>4, <1>5, BackedSignup, BackedProvision
          DEF RequestStep

\* The console without deleteTenant, which takes down what was built.
LEMMA BackedRest ==
  ASSUME Typed, Backed, "delete" \notin Ops,
         Console \/ Crash \/ \E t \in TenantIds : Serve(t)
  PROVE  Backed'
  <1>1. ASSUME NEW t \in TenantIds, ApproveTenant(t)
        PROVE  Backed'
    BY <1>1 DEF ApproveTenant, Backed, Advanced, Built, NoEdit
  <1>2. \A t \in TenantIds : ~DeleteTenant(t)
    BY DEF DeleteTenant
  <1>3. ASSUME NEW t \in TenantIds, EditRead(t)
        PROVE  Backed'
    <2>1. /\ edit' = [tid |-> t, ent |-> rows[t]] /\ rows[t] # NoRow
          /\ UNCHANGED <<rows, issued, schema, subs, run>>
      BY <1>3 DEF EditRead, Exists
    <2> QED BY <2>1 DEF Backed, Advanced, Built
  <1>4. ASSUME NEW active \in BOOLEAN, EditSave(active)
        PROVE  Backed'
    <2> DEFINE ent == [edit.ent EXCEPT !.isActive = active]
    <2>1. edit.tid \in TenantIds /\ edit.ent \in Row /\ edit # NoEdit
      BY <1>4 DEF EditSave, Typed, Holding
    <2>2. ent.status = edit.ent.status
      BY <2>1 DEF Row
    <2>3. /\ rows' = [rows EXCEPT ![edit.tid] = ent] /\ edit' = NoEdit
          /\ UNCHANGED <<issued, schema, subs, run>>
      BY <1>4 DEF EditSave
    <2> HIDE DEF ent, Built
    <2>4. \A t \in TenantIds :
            rows'[t] = rows[t] \/ (rows'[t].status = "ACTIVE" => Built(t))
      BY <2>1, <2>2, <2>3 DEF Typed, TypeOK, Backed
    <2>5. Grows
      BY <2>3 DEF Grows
    <2> HIDE DEF Advanced
    <2> QED BY <2>3, <2>4, <2>5, BackedStays
  <1>5. CASE ToggleGate
    BY <1>5 DEF ToggleGate, Backed, Advanced, Built, NoEdit
  <1>6. ASSUME NEW k \in Tokens, CloseInvite(k)
        PROVE  Backed'
    BY <1>6 DEF CloseInvite, Backed, Advanced, Built, NoEdit
  <1>7. CASE Crash
    <2>1. UNCHANGED <<rows, issued, schema, subs>> /\ edit' = NoEdit
      BY <1>7 DEF Crash
    <2>2. \A x \in Procs : \E pc \in {"idle", "done"} : run'[x] = At(pc)
      BY <1>7 DEF Crash
    <2>3. \A pc \in {"idle", "done"} : At(pc).pc \notin Working
      BY AtType DEF Steps, Working, Provisioning
    <2>4. \A x \in Procs : Advanced(x)'
      BY <2>2, <2>3, AdvancedAtRest
    <2>5. Grows
      BY <2>1 DEF Grows
    <2> HIDE DEF Advanced, Built
    <2> QED BY <2>1, <2>4, <2>5, BackedStays
  <1>8. ASSUME NEW t \in TenantIds, Serve(t)
        PROVE  Backed'
    <2>1. UNCHANGED <<rows, issued, subs, run, edit>>
      BY <1>8 DEF Serve
    <2>2. Grows
      BY <1>8 DEF Serve, Grows, Typed, TypeOK
    <2> HIDE DEF Advanced, Built
    <2> QED BY <2>1, <2>2, BackedStays
  <1> QED BY <1>1, <1>2, <1>3, <1>4, <1>5, <1>6, <1>7, <1>8 DEF Console

LEMMA BackedNext ==
  ASSUME "delete" \notin Ops
  PROVE  Typed /\ Backed /\ [Next]_vars => Backed'
  <1> SUFFICES ASSUME Typed, Backed, [Next]_vars PROVE Backed'
    OBVIOUS
  <1>1. CASE UNCHANGED vars
    BY <1>1 DEF vars, Backed, Advanced, Built, NoEdit
  <1>2. CASE Rest
    BY <1>1, <1>2 DEF Rest
  <1> QED BY <1>1, <1>2, BackedWorker, BackedRequest, BackedRest DEF Next

LEMMA BackedAlways ==
  ASSUME "delete" \notin Ops
  PROVE  Spec => []Backed
  <1>1. Init => Backed
    BY BackedInit
  <1>2. Typed /\ Backed /\ [Next]_vars => Backed'
    BY BackedNext
  <1> QED BY <1>1, <1>2, TypedAlways, PTL DEF Spec

\* As long as the console deletes nothing, a church that is let in has its
\* schema, its first admin and its subscription, however many runs of
\* provision() build it at once and wherever each of them fails or crashes.
THEOREM ServedHolds ==
  ASSUME "delete" \notin Ops
  PROVE  Spec => []ServedIsComplete
  <1>1. Typed /\ Backed => ServedIsComplete
    BY DEF Typed, Holding, Backed, Built, ServedIsComplete, Admitted, Exists
  <1> QED BY <1>1, TypedAlways, BackedAlways, PTL

\* Under the same assumption no invite is used up before the workspace of the
\* job that carried it is built.
THEOREM InviteHolds ==
  ASSUME "delete" \notin Ops
  PROVE  Spec => InviteSpentOnSuccess
  <1> DEFINE Spends(k) == invites[k] # "accepted" /\ invites'[k] = "accepted"
  <1>1. ASSUME Typed, Backed, [Next]_vars, NEW k \in Tokens, Spends(k)
        PROVE  SpentBy(k)
    <2>1. AcceptInvite
      <3>1. ASSUME NEW j \in Tokens, CloseInvite(j) PROVE FALSE
        BY <1>1, <3>1 DEF CloseInvite, Typed, TypeOK
      <3>2. CASE WorkerStep
        BY <1>1, <3>2 DEF WorkerStep, TakeJob, Provision, EnsurePending,
           MigrateSchema, SeedAdmin, Subscribe, Activate, CompleteJob,
           RecordCompleted, JobFails
      <3>3. ASSUME NEW r \in Requests, RequestStep(r) PROVE FALSE
        BY <1>1, <3>3 DEF RequestStep, Signup, SignupResolve, SignupEnsure,
           SignupConflict, SignupHold, SignupEnqueue, CreateTenant, CliProvision,
           Provision, EnsurePending, MigrateSchema, SeedAdmin, Subscribe,
           Activate, CompleteCreate, RequestFails
      <3>4. ASSUME Console \/ Crash \/ (\E t \in TenantIds : Serve(t)) \/ Rest
                   \/ UNCHANGED vars
            PROVE  FALSE
        BY <1>1, <3>1, <3>4 DEF Console, ApproveTenant, DeleteTenant, EditRead,
           EditSave, ToggleGate, Crash, Serve, Rest, vars
      <3> QED BY <1>1, <3>2, <3>3, <3>4 DEF Next
    <2>2. /\ Worker \in Procs /\ run[Worker].pc = "accept"
          /\ invites' = [invites EXCEPT ![run[Worker].job.token] = "accepted"]
      BY <2>1 DEF AcceptInvite, Procs
    <2>3. run[Worker].job.token = k
      BY <1>1, <2>2 DEF Typed, TypeOK
    <2>4. run[Worker].tid \in TenantIds /\ Built(run[Worker].tid)
      BY <1>1, <2>2 DEF Typed, Holding, Working, Provisioning, Backed, Advanced
    <2> QED BY <2>3, <2>4 DEF SpentBy, Built
  <1>2. Typed /\ Backed /\ [Next]_vars =>
          [\A k \in Tokens : invites[k] # "accepted" /\ invites'[k] = "accepted"
                             => SpentBy(k)]_vars
    BY <1>1
  <1> QED BY <1>2, TypedAlways, BackedAlways, PTL DEF Spec, InviteSpentOnSuccess

-----------------------------------------------------------------------------
(* The lifecycle of a church *)

\* A church is asked for by one request, nothing fails once its row is ACTIVE,
\* and no admin deletes it, edits it or approves it twice.
AskedOnce ==
  /\ Ops \subseteq {"create", "cli", "gate", "revoke"}
  /\ MaxCrashes = 0
  /\ Faults \cap {"record", "accept"} = {}
  /\ \A q, r \in Requests : q # r => Asks[q] \cap Asks[r] = {}

OneHolder == \A s \in Subdomains : \A t, u \in Holders(s) : t = u

Queued(s) == \E i \in 1..Len(queue) : queue[i].sub = s

Taken(s) == run[Worker].pc # "idle" /\ run[Worker].job.sub = s

\* A church nobody has asked for yet.
Unasked(s) == Holders(s) = {} /\ ~Queued(s) /\ ~Taken(s)

\* The church of a request under way, which nobody else works on.
Asking(r) ==
  LET l == run[r] IN
  /\ l.pc \notin {"record", "accept"}
  /\ l.job.sub \in Asks[r]
  /\ ~Queued(l.job.sub) /\ ~Taken(l.job.sub)
  /\ \A t \in Holders(l.job.sub) : rows[t].status = "PENDING"
  /\ l.kind = "create" => l.job.tid \in Holders(l.job.sub)
  /\ l.pc \in Working =>
       l.ent.status = "PENDING" /\ l.tid \in Holders(l.job.sub)

\* A waiting job is the only one of its church, and the church is as it was
\* when the job was added.
InLine(i) ==
  LET job == queue[i] IN
  /\ job.tid \in Holders(job.sub)
  /\ rows[job.tid].status \in {"PENDING", "AWAITING_APPROVAL"}
  /\ \A j \in 1..Len(queue) : queue[j].sub = job.sub => i = j
  /\ ~Taken(job.sub)

\* The church whose job the worker has.
InHand ==
  LET l == run[Worker] IN
  /\ l.job.tid \in Holders(l.job.sub)
  /\ rows[l.job.tid].status =
       IF l.pc \in {"record", "accept"} THEN "ACTIVE" ELSE "PROVISIONING"
  /\ l.pc \in Working => l.tid = l.job.tid
  /\ l.pc \in Working \ {"record", "accept"} => l.ent.status = "PROVISIONING"

\* At any time one party has a church: the request that asked for it, a job in
\* the queue or the worker.
InTurn ==
  /\ edit = NoEdit
  /\ OneHolder
  /\ \A r \in Requests : run[r].pc \notin {"idle", "done"} => Asking(r)
  /\ \A r \in Requests : run[r].pc = "idle" => \A s \in Asks[r] : Unasked(s)
  /\ \A i \in 1..Len(queue) : InLine(i)
  /\ run[Worker].pc # "idle" => InHand

\* The statuses a row may go through.
Onward(a, b) ==
  \/ a = b
  \/ a = "PENDING"
  \/ a = "AWAITING_APPROVAL" /\ b = "PROVISIONING"
  \/ a = "PROVISIONING" /\ b \in {"ACTIVE", "FAILED"}

\* A step writes one row, that of s, and takes it onward.
Moves(s) ==
  \E t \in TenantIds, row \in Row :
    /\ row.sub = s
    /\ rows' = [rows EXCEPT ![t] = row]
    /\ \/ Holders(s) = {} /\ rows[t] = NoRow /\ row.status = "PENDING"
       \/ t \in Holders(s) /\ Onward(rows[t].status, row.status)

Elsewhere(s) ==
  \A u \in Subdomains \ {s} :
    Holders(u)' = Holders(u) /\ \A t \in Holders(u) : rows'[t] = rows[t]

LEMMA OnlyChosen ==
  ASSUME NEW S, NEW t, S = {t}
  PROVE  (CHOOSE u \in S : TRUE) = t
  OBVIOUS

LEMMA RowsMove ==
  ASSUME Typed, OneHolder, NEW s \in Subdomains, Moves(s) \/ rows' = rows
  PROVE  OneHolder' /\ Elsewhere(s) /\ Holders(s) \subseteq Holders(s)'
  <1>1. CASE rows' = rows
    BY <1>1 DEF OneHolder, Elsewhere, Holders
  <1>2. CASE Moves(s)
    <2>1. PICK t \in TenantIds, row \in Row :
            /\ row.sub = s
            /\ rows' = [rows EXCEPT ![t] = row]
            /\ \/ Holders(s) = {} /\ rows[t] = NoRow
               \/ t \in Holders(s)
      BY <1>2 DEF Moves
    <2>2. row # NoRow
      BY <2>1, OnboardingAssumption
    <2>3. Holders(s) \subseteq {t}
      BY <2>1 DEF OneHolder
    <2>4. Holders(s)' = {t}
      BY <2>1, <2>2, <2>3 DEF Holders, Typed, TypeOK
    <2>5. ASSUME NEW u \in Subdomains \ {s}
          PROVE  Holders(u)' = Holders(u) /\ t \notin Holders(u)
      BY <2>1, <2>2, <2>5 DEF Holders, Typed, TypeOK
    <2>6. Elsewhere(s)
      BY <2>1, <2>5 DEF Elsewhere, Typed, TypeOK, Holders
    <2> QED BY <2>3, <2>4, <2>5, <2>6 DEF OneHolder
  <1> QED BY <1>1, <1>2

\* What Stage shows of the one row of a subdomain.
LEMMA StageShows ==
  ASSUME NEW s, NEW t, Holders(s) = {t}
  PROVE  /\ rows[t].status = "PENDING" => Stage(s) = "asked"
         /\ rows[t].status = "AWAITING_APPROVAL" => Stage(s) = "held"
         /\ rows[t].status = "PROVISIONING" => Stage(s) = "building"
         /\ rows[t].status = "ACTIVE" => Stage(s) = "open"
         /\ rows[t].status = "FAILED" => Stage(s) = "failed"
  <1>1. (CHOOSE u \in Holders(s) : TRUE) = t
    BY OnlyChosen
  <1> QED BY <1>1 DEF Stage

LEMMA StageShowsNext ==
  ASSUME NEW s, NEW t, Holders(s)' = {t}
  PROVE  /\ rows'[t].status = "PENDING" => Stage(s)' = "asked"
         /\ rows'[t].status = "AWAITING_APPROVAL" => Stage(s)' = "held"
         /\ rows'[t].status = "PROVISIONING" => Stage(s)' = "building"
         /\ rows'[t].status = "ACTIVE" => Stage(s)' = "open"
         /\ rows'[t].status = "FAILED" => Stage(s)' = "failed"
  <1>1. (CHOOSE u \in Holders(s)' : TRUE) = t
    BY OnlyChosen
  <1> QED BY <1>1 DEF Stage

\* Writing one row onward is a step of the lifecycle, or none.
LEMMA StageMoves ==
  ASSUME Typed, OneHolder, NEW s \in Subdomains, Moves(s) \/ rows' = rows
  PROVE  [Lifecycle!Next]_([c \in Subdomains |-> Stage(c)])
  <1> DEFINE F == [c \in Subdomains |-> Stage(c)]
  <1>1. CASE rows' = rows
    BY <1>1 DEF Stage, Holders
  <1>2. CASE Moves(s)
    <2>1. PICK t \in TenantIds, row \in Row :
            /\ row.sub = s
            /\ rows' = [rows EXCEPT ![t] = row]
            /\ \/ Holders(s) = {} /\ rows[t] = NoRow /\ row.status = "PENDING"
               \/ t \in Holders(s) /\ Onward(rows[t].status, row.status)
      BY <1>2 DEF Moves
    <2>2. OneHolder' /\ Elsewhere(s)
      BY RowsMove
    <2>3. rows'[t] = row /\ row # NoRow
      BY <2>1, OnboardingAssumption DEF Typed, TypeOK
    <2>4. Holders(s)' = {t}
      BY <2>1, <2>2, <2>3 DEF Holders, OneHolder
    <2>5. ASSUME NEW u \in Subdomains \ {s} PROVE Stage(u)' = Stage(u)
      <3>1. CASE Holders(u) = {}
        BY <2>2, <3>1 DEF Elsewhere, Stage
      <3>2. ASSUME NEW v \in Holders(u) PROVE Stage(u)' = Stage(u)
        <4>1. Holders(u) = {v} /\ Holders(u)' = {v} /\ rows'[v] = rows[v]
          BY <2>2, <3>2 DEF OneHolder, Elsewhere
        <4>2. (CHOOSE w \in Holders(u) : TRUE) = v /\ (CHOOSE w \in Holders(u)' : TRUE) = v
          BY <4>1, OnlyChosen
        <4> QED BY <4>1, <4>2 DEF Stage
      <3> QED BY <3>1, <3>2
    <2>6. F' = [F EXCEPT ![s] = Stage(s)']
      BY <2>5
    <2>7. Stage(s)' = Stage(s) \/ Stage(s)' \in Lifecycle!After[Stage(s)]
      <3>1. CASE Holders(s) = {} /\ row.status = "PENDING"
        <4>1. Stage(s) = "none" /\ Stage(s)' = "asked"
          BY <2>3, <2>4, <3>1, StageShowsNext DEF Stage
        <4> QED BY <4>1 DEF Lifecycle!After
      <3>2. CASE t \in Holders(s) /\ Onward(rows[t].status, row.status)
        <4>1. Holders(s) = {t}
          BY <3>2 DEF OneHolder
        <4>2. rows[t].status \in Status /\ row.status \in Status
          BY <3>2 DEF Typed, TypeOK, Holders, Row
        <4>3. CASE rows[t].status = "PENDING"
          <5>1. Stage(s) = "asked"
            BY <4>1, <4>3, StageShows
          <5>2. Stage(s)' \in {"asked", "held", "building", "open", "failed"}
            BY <2>3, <2>4, <4>2, StageShowsNext DEF Status
          <5> QED BY <5>1, <5>2 DEF Lifecycle!After
        <4>4. CASE rows[t].status = "AWAITING_APPROVAL"
          <5>1. Stage(s) = "held"
            BY <4>1, <4>4, StageShows
          <5>2. Stage(s)' \in {"held", "building"}
            BY <2>3, <2>4, <3>2, <4>4, StageShowsNext DEF Onward
          <5> QED BY <5>1, <5>2 DEF Lifecycle!After
        <4>5. CASE rows[t].status = "PROVISIONING"
          <5>1. Stage(s) = "building"
            BY <4>1, <4>5, StageShows
          <5>2. Stage(s)' \in {"building", "open", "failed"}
            BY <2>3, <2>4, <3>2, <4>5, StageShowsNext DEF Onward
          <5> QED BY <5>1, <5>2 DEF Lifecycle!After
        <4>6. CASE rows[t].status \in {"ACTIVE", "FAILED"}
          <5>1. row.status = rows[t].status
            BY <3>2, <4>6 DEF Onward
          <5> QED BY <2>3, <2>4, <4>1, <4>6, <5>1, StageShows, StageShowsNext
        <4> QED BY <4>2, <4>3, <4>4, <4>5, <4>6 DEF Status
      <3> QED BY <2>1, <3>1, <3>2
    <2>8. CASE Stage(s)' = Stage(s)
      BY <2>6, <2>8
    <2>9. CASE Stage(s)' \in Lifecycle!After[Stage(s)]
      <3>1. F[s] = Stage(s)
        OBVIOUS
      <3> HIDE DEF F
      <3>2. \E to \in Lifecycle!After[F[s]] : F' = [F EXCEPT ![s] = to]
        BY <2>6, <2>9, <3>1
      <3>3. Lifecycle!Advance(s)
        BY <3>2 DEF Lifecycle!Advance, F
      <3> QED BY <3>3 DEF Lifecycle!Next
    <2> QED BY <2>7, <2>8, <2>9
  <1> QED BY <1>1, <1>2

LEMMA InTurnInit == Init => InTurn
  <1> SUFFICES ASSUME Init PROVE InTurn
    OBVIOUS
  <1>1. \A x \in Procs : run[x].pc = "idle"
    BY AtType DEF Init, Steps
  <1>2. \A s \in Subdomains : Holders(s) = {}
    BY DEF Init, Holders
  <1>3. Worker \in Procs /\ Requests \subseteq Procs
    BY DEF Procs
  <1>4. \A r \in Requests : Asks[r] \subseteq Subdomains
    BY OnboardingAssumption
  <1>5. queue = <<>> /\ edit = NoEdit
    BY DEF Init
  <1>6. \A r \in Requests : \A s \in Asks[r] : Unasked(s)
    BY <1>1, <1>2, <1>3, <1>4, <1>5 DEF Unasked, Queued, Taken
  <1> QED BY <1>1, <1>2, <1>3, <1>5, <1>6 DEF InTurn, OneHolder

\* What a party that has church s leaves alone: every other church and the
\* queue.
LEMMA OthersKeep ==
  ASSUME Typed, InTurn, NEW s \in Subdomains, Elsewhere(s), queue' = queue,
         ~Queued(s), \A u \in Subdomains \ {s} : Taken(u)' = Taken(u)
  PROVE  /\ \A u \in Subdomains : Queued(u)' = Queued(u)
         /\ \A u \in Subdomains \ {s} : Unasked(u) => Unasked(u)'
         /\ \A i \in 1..Len(queue') : InLine(i)'
  <1>1. \A u \in Subdomains : Queued(u)' = Queued(u)
    BY DEF Queued
  <1>2. \A u \in Subdomains \ {s} : Unasked(u) => Unasked(u)'
    BY <1>1 DEF Unasked, Elsewhere
  <1>3. ASSUME NEW i \in 1..Len(queue) PROVE InLine(i)'
    <2>1. queue[i].sub # s /\ queue[i].sub \in Subdomains
      <3>1. queue[i] \in Job
        BY DEF Typed, TypeOK
      <3> QED BY <3>1 DEF Queued, Job
    <2>2. InLine(i)
      BY DEF InTurn
    <2> QED BY <2>1, <2>2 DEF InLine, Elsewhere
  <1> QED BY <1>1, <1>2, <1>3

\* A request under way keeps what it has when someone else's church changes.
LEMMA AskingKeeps ==
  ASSUME NEW s \in Subdomains, Elsewhere(s), NEW r \in Requests, Asking(r),
         run'[r] = run[r], run[r].job.sub \in Subdomains \ {s},
         \A u \in Subdomains \ {s} :
           (Taken(u)' => Taken(u)) /\ (Queued(u)' => Queued(u))
  PROVE  Asking(r)'
  BY DEF Asking, Elsewhere

\* The steps of request r, which has the church s.
LEMMA RequestHas ==
  ASSUME AskedOnce, Typed, InTurn, NEW r \in Requests, NEW s \in Asks[r],
         run[r].pc = "idle" \/ (run[r].pc # "done" /\ run[r].job.sub = s),
         Moves(s) \/ rows' = rows, UNCHANGED <<queue, edit>>,
         \A y \in Procs \ {r} : run'[y] = run[y],
         run'[r].pc = "done" \/ (run'[r].pc # "idle" /\ Asking(r)')
  PROVE  InTurn'
  <1>1. s \in Subdomains /\ Worker # r /\ Worker \in Procs /\ Requests \subseteq Procs
    BY OnboardingAssumption DEF Procs
  <1>2. ~Queued(s) /\ ~Taken(s)
    BY DEF InTurn, Asking, Unasked
  <1>3. OneHolder' /\ Elsewhere(s)
    BY <1>1, RowsMove DEF InTurn
  <1>4. \A u \in Subdomains : Taken(u)' = Taken(u)
    BY <1>1 DEF Taken
  <1>5. /\ \A u \in Subdomains : Queued(u)' = Queued(u)
        /\ \A u \in Subdomains \ {s} : Unasked(u) => Unasked(u)'
        /\ \A i \in 1..Len(queue') : InLine(i)'
    BY <1>1, <1>2, <1>3, <1>4, OthersKeep
  <1>6. \A q \in Requests \ {r} : Asks[q] \subseteq Subdomains \ {s}
    BY OnboardingAssumption DEF AskedOnce
  <1>7. ASSUME NEW q \in Requests, run'[q].pc \notin {"idle", "done"}
        PROVE  Asking(q)'
    <2>1. CASE q = r
      BY <1>7, <2>1
    <2>2. CASE q # r
      <3>1. run'[q] = run[q]
        BY <1>1, <2>2
      <3>2. Asking(q)
        BY <1>7, <3>1 DEF InTurn
      <3>3. run[q].job.sub \in Subdomains \ {s}
        BY <1>6, <2>2, <3>2 DEF Asking
      <3> QED BY <1>1, <1>3, <1>4, <1>5, <3>1, <3>2, <3>3, AskingKeeps
    <2> QED BY <2>1, <2>2
  <1>8. ASSUME NEW q \in Requests, run'[q].pc = "idle", NEW u \in Asks[q]
        PROVE  Unasked(u)'
    <2>1. q # r /\ run'[q] = run[q]
      BY <1>1, <1>8
    <2>2. Unasked(u) /\ u \in Subdomains \ {s}
      BY <1>6, <1>8, <2>1 DEF InTurn
    <2> QED BY <1>5, <2>2
  <1>9. run'[Worker].pc # "idle" => InHand'
    <2>1. run'[Worker] = run[Worker]
      BY <1>1
    <2>2. ASSUME run[Worker].pc # "idle" PROVE InHand'
      <3>1. InHand
        BY <2>2 DEF InTurn
      <3>2. run[Worker].job.sub \in Subdomains \ {s}
        BY <1>1, <1>2, <2>2 DEF Taken, Typed, TypeOK, Local, Job
      <3> QED BY <1>3, <2>1, <3>1, <3>2 DEF InHand, Elsewhere
    <2> QED BY <2>1, <2>2
  <1> QED BY <1>3, <1>5, <1>7, <1>8, <1>9 DEF InTurn, NoEdit

\* The steps of the worker on the church s of its job.
LEMMA WorkerHas ==
  ASSUME AskedOnce, Typed, InTurn, run[Worker].pc # "idle",
         NEW s \in Subdomains, s = run[Worker].job.sub,
         Moves(s) \/ rows' = rows, UNCHANGED <<queue, edit>>,
         \A y \in Procs \ {Worker} : run'[y] = run[y],
         run'[Worker].pc = "idle" \/ (run'[Worker].job.sub = s /\ InHand')
  PROVE  InTurn'
  <1>1. Requests \subseteq Procs \ {Worker}
    BY OnboardingAssumption DEF Procs
  <1>2. Taken(s)
    BY DEF Taken
  <1>3. ~Queued(s)
    BY <1>2 DEF Queued, InTurn, InLine
  <1>4. OneHolder' /\ Elsewhere(s)
    BY RowsMove DEF InTurn
  <1>5. \A u \in Subdomains \ {s} : Taken(u)' = Taken(u)
    BY DEF Taken
  <1>6. /\ \A u \in Subdomains : Queued(u)' = Queued(u)
        /\ \A u \in Subdomains \ {s} : Unasked(u) => Unasked(u)'
        /\ \A i \in 1..Len(queue') : InLine(i)'
    BY <1>3, <1>4, <1>5, OthersKeep
  <1>7. ASSUME NEW q \in Requests, run'[q].pc \notin {"idle", "done"}
        PROVE  Asking(q)'
    <2>1. run'[q] = run[q]
      BY <1>1
    <2>2. Asking(q)
      BY <1>7, <2>1 DEF InTurn
    <2>3. run[q].job.sub \in Subdomains \ {s}
      BY <1>2, <2>2, OnboardingAssumption DEF Asking
    <2> QED BY <1>4, <1>5, <1>6, <2>1, <2>2, <2>3, AskingKeeps
  <1>8. ASSUME NEW q \in Requests, run'[q].pc = "idle", NEW u \in Asks[q]
        PROVE  Unasked(u)'
    <2>1. run'[q] = run[q]
      BY <1>1
    <2>2. Unasked(u) /\ u \in Subdomains
      BY <1>8, <2>1, OnboardingAssumption DEF InTurn
    <2>3. u # s
      BY <1>2, <2>2 DEF Unasked
    <2> QED BY <1>6, <2>2, <2>3
  <1>9. run'[Worker].pc # "idle" => InHand'
    OBVIOUS
  <1>10. edit' = NoEdit
    BY DEF InTurn
  <1> QED BY <1>4, <1>6, <1>7, <1>8, <1>9, <1>10 DEF InTurn, NoEdit

\* What every step does: it keeps the churches in turn and takes one onward.
KeepsTurn ==
  InTurn' /\ \E s \in Subdomains : Moves(s) \/ rows' = rows

LEMMA StillFree ==
  ASSUME NEW s, ~Queued(s), ~Taken(s), queue' = queue, run'[Worker] = run[Worker]
  PROVE  ~Queued(s)' /\ ~Taken(s)'
  BY DEF Queued, Taken

\* A request that only goes on to its next step.
LEMMA TurnGoto ==
  ASSUME AskedOnce, Typed, InTurn, NEW r \in Requests, run[r].pc \in Working,
         NEW pc \in Working \ {"record", "accept"}, Goto(r, pc),
         UNCHANGED <<rows, queue, edit>>
  PROVE  KeepsTurn
  <1>1. /\ run[r].pc \notin {"idle", "done"} /\ pc \notin {"idle", "done"}
        /\ pc \in Steps
    BY DEF Working, Provisioning, Steps
  <1>2. r \in Procs /\ Worker \in Procs /\ Worker # r
    BY OnboardingAssumption DEF Procs
  <1>3. Asking(r)
    BY <1>1 DEF InTurn
  <1>4. PICK s \in Asks[r] : s = run[r].job.sub /\ s \in Subdomains
    BY <1>3, OnboardingAssumption DEF Asking
  <1>5. /\ run'[r] = [run[r] EXCEPT !.pc = pc] /\ run[r] \in Local
        /\ \A y \in Procs \ {r} : run'[y] = run[y]
    BY <1>1, <1>2, GotoLemma DEF Typed, TypeOK
  <1>6. /\ run'[r].pc = pc /\ run'[r].job = run[r].job /\ run'[r].kind = run[r].kind
        /\ run'[r].ent = run[r].ent /\ run'[r].tid = run[r].tid
    BY <1>5 DEF Local
  <1>7. ~Queued(s)' /\ ~Taken(s)'
    BY <1>2, <1>3, <1>4, <1>5, StillFree DEF Asking
  <1>8. \A c : Holders(c)' = Holders(c)
    BY DEF Holders
  <1>9. Asking(r)'
    BY <1>1, <1>3, <1>4, <1>6, <1>7, <1>8 DEF Asking
  <1>10. InTurn'
    BY <1>1, <1>4, <1>5, <1>6, <1>9, RequestHas
  <1> QED BY <1>4, <1>10 DEF KeepsTurn

\* A request that ends, having taken its church onward or not.
LEMMA TurnFinish ==
  ASSUME AskedOnce, Typed, InTurn, NEW r \in Requests,
         run[r].pc \notin {"idle", "done"}, Finish(r),
         Moves(run[r].job.sub) \/ rows' = rows, UNCHANGED <<queue, edit>>
  PROVE  KeepsTurn
  <1>1. r \in Procs /\ Worker # r
    BY OnboardingAssumption DEF Procs
  <1>2. run[r].job.sub \in Asks[r] /\ run[r].job.sub \in Subdomains
    BY OnboardingAssumption DEF InTurn, Asking
  <1>3. run' = [run EXCEPT ![r] = At("done")] /\ At("done").pc = "done"
    BY <1>1, AtType DEF Finish, Steps
  <1>4. run'[r].pc = "done" /\ \A y \in Procs \ {r} : run'[y] = run[y]
    BY <1>1, <1>3 DEF Typed, TypeOK
  <1>5. InTurn'
    BY <1>2, <1>4, RequestHas
  <1> QED BY <1>2, <1>5 DEF KeepsTurn

\* The row of its church that a request finds or inserts.
LEMMA TurnEnsure ==
  ASSUME AskedOnce, Typed, InTurn, NEW r \in Requests,
         run[r].pc \notin {"idle", "done"}, NEW pc \in {"routing", "schema"},
         EnsureTenant(r, pc), UNCHANGED <<queue, edit>>
  PROVE  KeepsTurn
  <1> DEFINE l == run[r]
  <1>1. r \in Procs /\ Worker \in Procs /\ Worker # r
    BY OnboardingAssumption DEF Procs
  <1>2. l \in Local /\ l.job \in Job
    BY <1>1 DEF Typed, TypeOK, Local
  <1>3. Asking(r)
    BY DEF InTurn
  <1>4. PICK s \in Asks[r] : s = l.job.sub /\ s \in Subdomains
    BY <1>3, OnboardingAssumption DEF Asking
  <1>5. PICK t \in TenantIds, ent \in Row :
          /\ ent.sub = s /\ ent.status = "PENDING"
          /\ run' = [run EXCEPT ![r].pc = pc, ![r].tid = t, ![r].ent = ent]
          /\ \/ t \in Holders(s) /\ rows' = rows /\ ent = rows[t]
             \/ /\ Holders(s) = {} /\ rows[t] = NoRow
                /\ rows' = [rows EXCEPT ![t] = ent]
    <2>1. CASE \E t \in Holders(s) :
                 /\ run' = [run EXCEPT ![r].pc = pc, ![r].tid = t, ![r].ent = rows[t]]
                 /\ rows' = rows
      <3>1. PICK t \in Holders(s) :
              /\ run' = [run EXCEPT ![r].pc = pc, ![r].tid = t, ![r].ent = rows[t]]
              /\ rows' = rows
        BY <2>1
      <3>2. t \in TenantIds /\ rows[t] \in Row /\ rows[t].sub = s /\ rows[t].status = "PENDING"
        BY <1>3, <1>4, <3>1 DEF Holders, Asking, Typed, TypeOK
      <3> QED BY <3>1, <3>2
    <2>2. CASE /\ Holders(s) = {}
               /\ \E t \in Fresh :
                    LET row == NewRow(s, l.job.token) IN
                    /\ rows' = [rows EXCEPT ![t] = row]
                    /\ run' = [run EXCEPT ![r].pc = pc, ![r].tid = t, ![r].ent = row]
      <3> DEFINE row == NewRow(s, l.job.token)
      <3>1. row \in Row /\ row.sub = s /\ row.status = "PENDING"
        BY <1>2, <1>4 DEF NewRow, Row, Status, Job
      <3>2. PICK t \in Fresh :
              /\ rows' = [rows EXCEPT ![t] = row]
              /\ run' = [run EXCEPT ![r].pc = pc, ![r].tid = t, ![r].ent = row]
        BY <2>2
      <3>3. t \in TenantIds /\ rows[t] = NoRow
        BY OnboardingAssumption DEF Fresh, Typed, TypeOK, Holding, Row
      <3> HIDE DEF row
      <3> QED BY <2>2, <3>1, <3>2, <3>3
    <2> QED BY <1>4, <2>1, <2>2 DEF EnsureTenant
  <1>6. /\ run'[r].pc = pc /\ run'[r].job = l.job /\ run'[r].kind = l.kind
        /\ run'[r].tid = t /\ run'[r].ent = ent
        /\ \A y \in Procs \ {r} : run'[y] = run[y]
    BY <1>1, <1>2, <1>5 DEF Typed, TypeOK, Local
  <1>7. ~Queued(s)' /\ ~Taken(s)'
    BY <1>1, <1>3, <1>4, <1>6, StillFree DEF Asking
  <1>8. Moves(s) \/ rows' = rows
    BY <1>5 DEF Moves
  <1>9. Holders(s)' = {t} /\ rows'[t] = ent /\ (l.kind = "create" => l.job.tid = t)
    <2>1. CASE t \in Holders(s) /\ rows' = rows /\ ent = rows[t]
      <3>1. Holders(s) = {t}
        BY <1>4, <2>1 DEF InTurn, OneHolder
      <3>2. Holders(s)' = Holders(s) /\ rows'[t] = ent
        BY <2>1 DEF Holders
      <3> QED BY <1>3, <1>4, <3>1, <3>2 DEF Asking
    <2>2. CASE Holders(s) = {} /\ rows' = [rows EXCEPT ![t] = ent]
      <3>1. l.kind # "create"
        BY <1>3, <1>4, <2>2 DEF Asking
      <3>2. rows'[t] = ent /\ \A u \in TenantIds \ {t} : rows'[u] = rows[u]
        BY <2>2 DEF Typed, TypeOK
      <3>3. ent # NoRow
        BY OnboardingAssumption
      <3>4. Holders(s)' = {t}
        BY <1>5, <2>2, <3>2, <3>3 DEF Holders
      <3> QED BY <3>1, <3>2, <3>4
    <2> QED BY <1>5, <2>1, <2>2
  <1>10. Asking(r)'
    <2>1. pc \notin {"record", "accept", "idle"}
      OBVIOUS
    <2> QED BY <1>3, <1>4, <1>5, <1>6, <1>7, <1>9, <2>1 DEF Asking
  <1>11. InTurn'
    BY <1>4, <1>6, <1>8, <1>10, RequestHas
  <1> QED BY <1>4, <1>8, <1>11 DEF KeepsTurn

\* The first step of a request that asks for a church.
LEMMA TurnStart ==
  ASSUME AskedOnce, Typed, InTurn, NEW r \in Requests, run[r].pc = "idle",
         NEW s \in Asks[r], Moves(s) \/ rows' = rows, UNCHANGED <<queue, edit>>,
         \A y \in Procs \ {r} : run'[y] = run[y],
         run'[r].pc \in {"resolved", "ensure"}, run'[r].job.sub = s,
         \A t \in Holders(s)' : rows'[t].status = "PENDING",
         run'[r].kind = "create" => run'[r].job.tid \in Holders(s)'
  PROVE  KeepsTurn
  <1>1. r \in Procs /\ Worker \in Procs /\ Worker # r
    BY OnboardingAssumption DEF Procs
  <1>2. ~Queued(s)' /\ ~Taken(s)'
    BY <1>1, StillFree DEF InTurn, Unasked
  <1>3. run'[r].pc \notin {"record", "accept", "idle"} \cup Working
    BY DEF Working, Provisioning
  <1>4. Asking(r)'
    BY <1>2, <1>3 DEF Asking
  <1>5. InTurn'
    BY <1>3, <1>4, RequestHas
  <1>6. s \in Subdomains
    BY OnboardingAssumption
  <1> QED BY <1>5, <1>6 DEF KeepsTurn

\* A row written back or updated for the church that has it.
LEMMA MovesRow ==
  ASSUME NEW s, NEW t \in Holders(s), NEW row \in Row, row.sub = s,
         rows' = [rows EXCEPT ![t] = row], Onward(rows[t].status, row.status)
  PROVE  Moves(s)
  BY DEF Moves, Holders

LEMMA MovesStatus ==
  ASSUME Typed, NEW s, NEW t \in Holders(s), NEW st \in Status,
         rows' = SetStatus(t, st), Onward(rows[t].status, st)
  PROVE  Moves(s) /\ rows'[t].status = st
  <1> DEFINE row == [rows[t] EXCEPT !.status = st]
  <1>1. t \in TenantIds /\ rows[t] \in Row /\ rows[t].sub = s /\ rows[t] # NoRow
    BY DEF Holders, Typed, TypeOK
  <1>2. row \in Row /\ row.sub = s /\ row.status = st
    BY <1>1 DEF Row
  <1>3. rows' = [rows EXCEPT ![t] = row]
    BY <1>1 DEF SetStatus, Exists
  <1> HIDE DEF row
  <1>4. rows'[t] = row
    BY <1>1, <1>3 DEF Typed, TypeOK
  <1> QED BY <1>2, <1>3, <1>4, MovesRow

LEMMA TurnSignup ==
  ASSUME AskedOnce, Typed, InTurn, NEW r \in Requests,
         SignupEnsure(r) \/ SignupConflict(r) \/ SignupHold(r)
  PROVE  KeepsTurn
  <1>1. run[r].pc \in {"resolved", "routing"}
    BY DEF SignupEnsure, SignupConflict, SignupHold
  <1>2. Asking(r)
    BY <1>1 DEF InTurn
  <1>3. CASE SignupEnsure(r)
    BY <1>1, <1>3, TurnEnsure DEF SignupEnsure
  <1>4. CASE SignupConflict(r)
    BY <1>1, <1>4, TurnFinish DEF SignupConflict
  <1>5. CASE SignupHold(r)
    <2> DEFINE t == run[r].tid
               row == [rows[t] EXCEPT !.status = "AWAITING_APPROVAL", !.held = TRUE]
    <2>1. t \in Holders(run[r].job.sub) /\ rows[t].status = "PENDING"
      BY <1>2, <1>5 DEF SignupHold, Asking, Working
    <2>2. t \in TenantIds /\ rows[t] \in Row /\ rows[t].sub = run[r].job.sub /\ Exists(t)
      BY <2>1 DEF Holders, Exists, Typed, TypeOK
    <2>3. row \in Row /\ row.sub = run[r].job.sub
      BY <2>2 DEF Row, Status
    <2>4. rows' = [rows EXCEPT ![t] = row]
      BY <1>5, <2>2 DEF SignupHold, Row
    <2>5. Moves(run[r].job.sub)
      BY <2>1, <2>3, <2>4, MovesRow DEF Onward
    <2> QED BY <1>1, <1>5, <2>5, TurnFinish DEF SignupHold
  <1> QED BY <1>3, <1>4, <1>5

LEMMA TurnResolve ==
  ASSUME AskedOnce, Typed, InTurn, NEW r \in Requests, NEW s \in Subdomains,
         NEW k \in Tokens \cup {NoToken}, SignupResolve(r, s, k)
  PROVE  KeepsTurn
  <1>1. run[r].pc = "idle" /\ s \in Asks[r] /\ UNCHANGED <<rows, queue, edit>>
    BY DEF SignupResolve
  <1>2. PICK sp \in BOOLEAN :
          run' = [run EXCEPT ![r] = [At("resolved") EXCEPT !.kind = "signup",
                                                  !.job = Blank(s, k, sp)]]
    BY DEF SignupResolve
  <1>3. Blank(s, k, sp).sub = s
    BY DEF Blank
  <1>4. At("resolved") \in Local /\ At("resolved").pc = "resolved" /\ r \in Procs
    BY AtType DEF Steps, Procs
  <1>5. /\ run'[r].pc = "resolved" /\ run'[r].job.sub = s /\ run'[r].kind = "signup"
        /\ \A y \in Procs \ {r} : run'[y] = run[y]
    BY <1>2, <1>3, <1>4 DEF Typed, TypeOK, Local
  <1>6. Holders(s)' = {}
    BY <1>1 DEF InTurn, Unasked, Holders
  <1> QED BY <1>1, <1>5, <1>6, TurnStart

LEMMA TurnCli ==
  ASSUME AskedOnce, Typed, InTurn, NEW r \in Requests, NEW s \in Subdomains,
         CliProvision(r, s)
  PROVE  KeepsTurn
  <1>1. run[r].pc = "idle" /\ s \in Asks[r] /\ UNCHANGED <<rows, queue, edit>>
    BY DEF CliProvision
  <1>2. run' = [run EXCEPT ![r] = [At("ensure") EXCEPT !.kind = "cli",
                                     !.job = Blank(s, NoToken, FALSE)]]
    BY DEF CliProvision
  <1>3. Blank(s, NoToken, FALSE).sub = s
    BY DEF Blank
  <1>4. At("ensure") \in Local /\ At("ensure").pc = "ensure" /\ r \in Procs
    BY AtType DEF Steps, Provisioning, Procs
  <1>5. /\ run'[r].pc = "ensure" /\ run'[r].job.sub = s /\ run'[r].kind = "cli"
        /\ \A y \in Procs \ {r} : run'[y] = run[y]
    BY <1>2, <1>3, <1>4 DEF Typed, TypeOK, Local
  <1>6. Holders(s)' = {}
    BY <1>1 DEF InTurn, Unasked, Holders
  <1> QED BY <1>1, <1>5, <1>6, TurnStart

LEMMA TurnCreate ==
  ASSUME AskedOnce, Typed, InTurn, NEW r \in Requests, NEW s \in Subdomains,
         CreateTenant(r, s)
  PROVE  KeepsTurn
  <1>1. run[r].pc = "idle" /\ s \in Asks[r] /\ UNCHANGED <<queue, edit>>
    BY DEF CreateTenant
  <1>2. Holders(s) = {}
    BY <1>1 DEF InTurn, Unasked
  <1>3. PICK t \in Fresh :
          /\ rows' = [rows EXCEPT ![t] = NewRow(s, NoToken)]
          /\ run' = [run EXCEPT ![r] =
               [[At("ensure") EXCEPT !.kind = "create"] EXCEPT
                  !.job = [Blank(s, NoToken, FALSE) EXCEPT !.tid = t]]]
    BY <1>2 DEF CreateTenant
  <1>4. t \in TenantIds /\ rows[t] = NoRow
    BY OnboardingAssumption DEF Fresh, Typed, TypeOK, Holding, Row
  <1>5. /\ NewRow(s, NoToken) \in Row /\ NewRow(s, NoToken).sub = s
        /\ NewRow(s, NoToken).status = "PENDING"
    BY DEF NewRow, Row, Status
  <1>6. /\ [Blank(s, NoToken, FALSE) EXCEPT !.tid = t].sub = s
        /\ [Blank(s, NoToken, FALSE) EXCEPT !.tid = t].tid = t
    BY DEF Blank
  <1>7. At("ensure") \in Local /\ At("ensure").pc = "ensure" /\ r \in Procs
    BY AtType DEF Steps, Provisioning, Procs
  <1>8. /\ run'[r].pc = "ensure" /\ run'[r].job.sub = s /\ run'[r].job.tid = t
        /\ \A y \in Procs \ {r} : run'[y] = run[y]
    BY <1>3, <1>6, <1>7 DEF Typed, TypeOK, Local
  <1>9. rows'[t] = NewRow(s, NoToken) /\ \A u \in TenantIds \ {t} : rows'[u] = rows[u]
    BY <1>3, <1>4 DEF Typed, TypeOK
  <1>10. Holders(s)' = {t}
    BY <1>2, <1>4, <1>5, <1>9, OnboardingAssumption DEF Holders
  <1>11. Moves(s)
    BY <1>2, <1>3, <1>4, <1>5 DEF Moves
  <1> QED BY <1>1, <1>5, <1>8, <1>9, <1>10, <1>11, TurnStart

\* provision() run by a request.
LEMMA TurnProvision ==
  ASSUME AskedOnce, Typed, InTurn, NEW r \in Requests,
         Provision(r) \/ CompleteCreate(r)
  PROVE  KeepsTurn
  <1> DEFINE l == run[r]
  <1>1. l.pc \in {"ensure", "schema", "seed", "subscribe", "activate", "complete"}
    BY DEF Provision, EnsurePending, MigrateSchema, SeedAdmin, Subscribe, Activate,
           CompleteCreate
  <1>2. Asking(r) /\ r \in Procs /\ Worker # r /\ Worker \in Procs
    BY <1>1, OnboardingAssumption DEF InTurn, Procs
  <1>3. {"schema", "seed", "subscribe", "activate", "complete"} \subseteq Working
    BY DEF Working, Provisioning
  <1>4. CASE EnsurePending(r)
    BY <1>1, <1>4, TurnEnsure DEF EnsurePending
  <1>5. CASE MigrateSchema(r)
    BY <1>3, <1>5, TurnGoto DEF MigrateSchema
  <1>6. CASE SeedAdmin(r)
    BY <1>3, <1>6, TurnGoto DEF SeedAdmin
  <1>7. CASE Subscribe(r)
    BY <1>3, <1>7, TurnGoto DEF Subscribe
  <1>8. ASSUME l.pc \in {"activate", "complete"}
        PROVE  /\ l.tid \in Holders(l.job.sub) /\ rows[l.tid].status = "PENDING"
               /\ l.ent \in Row /\ l.ent.sub = l.job.sub /\ l.ent.status = "PENDING"
               /\ l \in Local /\ l.tid \in TenantIds
    BY <1>2, <1>3, <1>8 DEF Asking, Typed, TypeOK, Holding, Holders
  <1>9. CASE Activate(r)
    <2> DEFINE ent == [l.ent EXCEPT !.isActive = TRUE]
    <2>0. l.pc = "activate"
      BY <1>9 DEF Activate
    <2>1. ent \in Row /\ ent.sub = l.job.sub /\ ent.status = "PENDING"
      BY <1>8, <2>0 DEF Row
    <2>2. rows' = [rows EXCEPT ![l.tid] = ent] /\ UNCHANGED <<queue, edit>>
      BY <1>9 DEF Activate
    <2>3. CASE l.kind = "cli"
      <3> HIDE DEF ent
      <3>1. Moves(l.job.sub)
        BY <1>8, <2>0, <2>1, <2>2, MovesRow DEF Onward
      <3>2. Finish(r)
        BY <1>9, <2>3 DEF Activate
      <3> QED BY <2>0, <2>2, <3>1, <3>2, TurnFinish
    <2>4. CASE l.kind # "cli"
      <3>0. PICK s \in Asks[r] : s = l.job.sub /\ s \in Subdomains
        BY <1>2, OnboardingAssumption DEF Asking
      <3>1. run' = [run EXCEPT ![r].ent = ent, ![r].pc = "complete"]
        BY <1>9, <2>4 DEF Activate
      <3> HIDE DEF ent
      <3>2. /\ run'[r].pc = "complete" /\ run'[r].ent = ent /\ run'[r].tid = l.tid
            /\ run'[r].job = l.job /\ run'[r].kind = l.kind
            /\ \A y \in Procs \ {r} : run'[y] = run[y]
        BY <1>2, <1>8, <2>0, <3>1 DEF Typed, TypeOK, Local
      <3>3. Moves(s)
        BY <1>8, <2>0, <2>1, <2>2, <3>0, MovesRow DEF Onward
      <3>4. /\ Holders(s) \subseteq Holders(s)' /\ Holders(s)' \subseteq {l.tid}
            /\ l.tid \in Holders(s)
        <4>1. OneHolder' /\ Holders(s) \subseteq Holders(s)'
          BY <3>0, <3>3, RowsMove DEF InTurn
        <4>2. \A t, u \in Holders(s)' : t = u
          BY <3>0, <4>1 DEF OneHolder
        <4> QED BY <1>8, <2>0, <3>0, <4>1, <4>2
      <3>5. rows'[l.tid].status = "PENDING"
        BY <1>8, <2>0, <2>1, <2>2 DEF Typed, TypeOK
      <3>6. ~Queued(s)' /\ ~Taken(s)'
        BY <1>2, <2>2, <3>0, <3>2, StillFree DEF Asking
      <3>7. Asking(r)'
        BY <1>2, <2>1, <3>0, <3>2, <3>4, <3>5, <3>6 DEF Asking
      <3>8. InTurn'
        BY <2>0, <2>2, <3>0, <3>2, <3>3, <3>7, RequestHas
      <3> QED BY <3>0, <3>3, <3>8 DEF KeepsTurn
    <2> QED BY <2>3, <2>4
  <1>10. CASE CompleteCreate(r)
    <2> DEFINE ent == [l.ent EXCEPT !.status = "ACTIVE"]
    <2>0. l.pc = "complete"
      BY <1>10 DEF CompleteCreate
    <2>1. ent \in Row /\ ent.sub = l.job.sub
      BY <1>8, <2>0 DEF Row, Status
    <2>2. rows' = [rows EXCEPT ![l.tid] = ent] /\ UNCHANGED <<queue, edit>> /\ Finish(r)
      BY <1>10 DEF CompleteCreate
    <2> HIDE DEF ent
    <2>3. Moves(l.job.sub)
      BY <1>8, <2>0, <2>1, <2>2, MovesRow DEF Onward
    <2> QED BY <2>0, <2>2, <2>3, TurnFinish
  <1> QED BY <1>4, <1>5, <1>6, <1>7, <1>9, <1>10 DEF Provision

LEMMA TurnRequestFails ==
  ASSUME AskedOnce, Typed, InTurn, NEW r \in Requests, RequestFails(r)
  PROVE  KeepsTurn
  <1>1. run[r].pc \notin {"idle", "done"}
    BY OnboardingAssumption DEF RequestFails, Fails, Rejected, Provisioning
  <1>2. Asking(r)
    BY <1>1 DEF InTurn
  <1>3. Moves(run[r].job.sub) \/ rows' = rows
    <2>1. CASE run[r].kind = "create" /\ rows' = SetStatus(run[r].job.tid, "FAILED")
      BY <1>2, <2>1, MovesStatus DEF Asking, Onward, Status
    <2> QED BY <2>1 DEF RequestFails
  <1> QED BY <1>1, <1>3, TurnFinish DEF RequestFails

\* The worker goes on with its job or ends it.
LEMMA TurnWork ==
  ASSUME AskedOnce, Typed, InTurn, run[Worker].pc # "idle", UNCHANGED <<queue, edit>>,
         Moves(run[Worker].job.sub) \/ rows' = rows,
         \A y \in Procs \ {Worker} : run'[y] = run[y],
         run'[Worker].pc = "idle" \/ (run'[Worker].job = run[Worker].job /\ InHand')
  PROVE  KeepsTurn
  <1>1. Worker \in Procs
    BY DEF Procs
  <1>2. PICK s \in Subdomains : s = run[Worker].job.sub
    BY <1>1 DEF Typed, TypeOK, Local, Job
  <1>3. InTurn'
    BY <1>2, WorkerHas
  <1> QED BY <1>2, <1>3 DEF KeepsTurn

LEMMA TurnWorkEnds ==
  ASSUME AskedOnce, Typed, InTurn, run[Worker].pc # "idle", UNCHANGED <<queue, edit>>,
         Moves(run[Worker].job.sub) \/ rows' = rows, Finish(Worker)
  PROVE  KeepsTurn
  <1>1. run' = [run EXCEPT ![Worker] = At("idle")] /\ At("idle").pc = "idle"
    BY AtType DEF Finish, Steps
  <1>2. run'[Worker].pc = "idle" /\ \A y \in Procs \ {Worker} : run'[y] = run[y]
    BY <1>1 DEF Typed, TypeOK, Procs
  <1> QED BY <1>2, TurnWork

\* The row of the worker's church keeps one holder over any step on it.
LEMMA HolderStays ==
  ASSUME Typed, InTurn, NEW s \in Subdomains, NEW t \in Holders(s),
         Moves(s) \/ rows' = rows
  PROVE  t \in Holders(s)' /\ Holders(s) = {t}
  BY RowsMove DEF InTurn, OneHolder

LEMMA TurnWorkGoto ==
  ASSUME AskedOnce, Typed, InTurn, run[Worker].pc \in Working, UNCHANGED <<queue, edit>>,
         NEW pc \in Working, Goto(Worker, pc),
         Moves(run[Worker].job.sub) \/ rows' = rows,
         rows'[run[Worker].job.tid].status =
           IF pc \in {"record", "accept"} THEN "ACTIVE" ELSE "PROVISIONING",
         pc \notin {"record", "accept"} => run[Worker].pc \notin {"record", "accept"}
  PROVE  KeepsTurn
  <1>1. Worker \in Procs /\ run[Worker].pc # "idle" /\ pc \in Steps
    BY DEF Procs, Working, Provisioning, Steps
  <1>2. InHand
    BY <1>1 DEF InTurn
  <1>3. /\ run'[Worker] = [run[Worker] EXCEPT !.pc = pc] /\ run[Worker] \in Local
        /\ \A y \in Procs \ {Worker} : run'[y] = run[y]
    BY <1>1, GotoLemma DEF Typed, TypeOK
  <1>4. /\ run'[Worker].pc = pc /\ run'[Worker].job = run[Worker].job
        /\ run'[Worker].ent = run[Worker].ent /\ run'[Worker].tid = run[Worker].tid
    BY <1>3 DEF Local
  <1>5. PICK s \in Subdomains : s = run[Worker].job.sub
    BY <1>1 DEF Typed, TypeOK, Local, Job
  <1>6. run[Worker].job.tid \in Holders(s)'
    BY <1>2, <1>5, HolderStays DEF InHand
  <1>7. InHand'
    BY <1>2, <1>4, <1>5, <1>6 DEF InHand
  <1> QED BY <1>1, <1>3, <1>4, <1>7, TurnWork

\* provision() run by the worker.
LEMMA TurnWorkProvision ==
  ASSUME AskedOnce, Typed, InTurn, Provision(Worker)
  PROVE  KeepsTurn
  <1> DEFINE l == run[Worker]
  <1>1. l.pc \in {"ensure", "schema", "seed", "subscribe", "activate"} /\ Worker \in Procs
    BY DEF Provision, EnsurePending, MigrateSchema, SeedAdmin, Subscribe, Activate, Procs
  <1>2. InHand
    BY <1>1 DEF InTurn
  <1>3. {"schema", "seed", "subscribe", "activate", "complete"} \subseteq Working
    BY DEF Working, Provisioning
  <1>4. PICK s \in Subdomains : s = l.job.sub
    BY <1>1 DEF Typed, TypeOK, Local, Job
  <1>5. l \in Local /\ rows[l.job.tid].status = "PROVISIONING" /\ l.job.tid \in Holders(s)
    BY <1>1, <1>2, <1>4 DEF InHand, Typed, TypeOK
  <1>6. CASE EnsurePending(Worker)
    <2>1. UNCHANGED <<queue, edit>> /\ EnsureTenant(Worker, "schema")
      BY <1>6 DEF EnsurePending
    <2>2. PICK t \in Holders(s) :
            /\ run' = [run EXCEPT ![Worker].pc = "schema", ![Worker].tid = t,
                                  ![Worker].ent = rows[t]]
            /\ rows' = rows
      BY <1>4, <1>5, <2>1 DEF EnsureTenant
    <2>3. t = l.job.tid
      BY <1>4, <1>5, <2>2 DEF InTurn, OneHolder
    <2>4. /\ run'[Worker].pc = "schema" /\ run'[Worker].job = l.job
          /\ run'[Worker].tid = t /\ run'[Worker].ent = rows[t]
          /\ \A y \in Procs \ {Worker} : run'[y] = run[y]
      BY <1>1, <1>5, <2>2 DEF Typed, TypeOK, Local
    <2>5. Holders(s)' = Holders(s)
      BY <2>2 DEF Holders
    <2>6. InHand'
      BY <1>4, <1>5, <2>2, <2>3, <2>4, <2>5 DEF InHand
    <2> QED BY <1>1, <2>1, <2>2, <2>4, <2>6, TurnWork
  <1>7. CASE MigrateSchema(Worker)
    BY <1>3, <1>5, <1>7, TurnWorkGoto DEF MigrateSchema
  <1>8. CASE SeedAdmin(Worker)
    BY <1>3, <1>5, <1>8, TurnWorkGoto DEF SeedAdmin
  <1>9. CASE Subscribe(Worker)
    BY <1>3, <1>5, <1>9, TurnWorkGoto DEF Subscribe
  <1>10. CASE Activate(Worker)
    <2> DEFINE ent == [l.ent EXCEPT !.isActive = TRUE]
    <2>1. l.pc = "activate" /\ UNCHANGED <<queue, edit>>
      BY <1>10 DEF Activate
    <2>2. /\ l.tid = l.job.tid /\ l.tid \in TenantIds
          /\ l.ent \in Row /\ l.ent.sub = s /\ l.ent.status = "PROVISIONING"
      BY <1>1, <1>2, <1>3, <1>4, <2>1 DEF InHand, Typed, Holding
    <2>3. ent \in Row /\ ent.sub = s /\ ent.status = "PROVISIONING"
      BY <2>2 DEF Row
    <2>4. rows' = [rows EXCEPT ![l.tid] = ent]
      BY <1>10 DEF Activate
    <2>5. l.kind # "cli" => run' = [run EXCEPT ![Worker].ent = ent, ![Worker].pc = "complete"]
      BY <1>10 DEF Activate
    <2>6. l.kind = "cli" => Finish(Worker)
      BY <1>10 DEF Activate
    <2> HIDE DEF ent
    <2>7. Moves(s)
      BY <1>5, <2>2, <2>3, <2>4, MovesRow DEF Onward
    <2>8. CASE l.kind = "cli"
      BY <1>4, <2>1, <2>6, <2>7, <2>8, TurnWorkEnds
    <2>9. CASE l.kind # "cli"
      <3>1. /\ run'[Worker].pc = "complete" /\ run'[Worker].job = l.job
            /\ run'[Worker].tid = l.tid /\ run'[Worker].ent = ent
            /\ \A y \in Procs \ {Worker} : run'[y] = run[y]
        BY <1>1, <1>5, <2>5, <2>9 DEF Typed, TypeOK, Local
      <3>2. l.job.tid \in Holders(s)'
        BY <1>5, <2>7, HolderStays
      <3>3. rows'[l.job.tid] = ent
        BY <2>2, <2>4 DEF Typed, TypeOK
      <3>4. InHand'
        BY <1>4, <2>2, <2>3, <3>1, <3>2, <3>3 DEF InHand
      <3> QED BY <1>4, <2>1, <2>7, <3>1, <3>4, TurnWork
    <2> QED BY <2>8, <2>9
  <1> QED BY <1>6, <1>7, <1>8, <1>9, <1>10 DEF Provision

LEMMA TurnWorkCompletes ==
  ASSUME AskedOnce, Typed, InTurn, CompleteJob \/ RecordCompleted \/ AcceptInvite \/ JobFails
  PROVE  KeepsTurn
  <1> DEFINE l == run[Worker]
  <1>1. l.pc \in Provisioning /\ l.pc # "idle" /\ Worker \in Procs
    BY OnboardingAssumption DEF CompleteJob, RecordCompleted, AcceptInvite, JobFails,
       Fails, Rejected, Provisioning, Procs
  <1>2. InHand /\ {"complete", "record", "accept"} \subseteq Working
    BY <1>1 DEF InTurn, Working, Provisioning
  <1>3. l.job.tid \in Holders(l.job.sub)
    BY <1>2 DEF InHand
  <1>4. CASE CompleteJob
    <2>1. l.tid = l.job.tid /\ rows[l.job.tid].status = "PROVISIONING"
      BY <1>2, <1>4 DEF CompleteJob, InHand
    <2>2. Moves(l.job.sub) /\ rows'[l.job.tid].status = "ACTIVE"
      BY <1>3, <1>4, <2>1, MovesStatus DEF CompleteJob, Onward, Status
    <2> QED BY <1>2, <1>4, <2>2, TurnWorkGoto DEF CompleteJob
  <1>5. CASE RecordCompleted
    <2>1. rows[l.job.tid].status = "ACTIVE" /\ l.pc \in Working
      BY <1>2, <1>5 DEF RecordCompleted, InHand
    <2>2. UNCHANGED <<rows, queue, edit>> /\ (Goto(Worker, "accept") \/ Finish(Worker))
      BY <1>5 DEF RecordCompleted
    <2>3. CASE Goto(Worker, "accept")
      BY <1>2, <2>1, <2>2, <2>3, TurnWorkGoto
    <2> QED BY <1>1, <2>2, <2>3, TurnWorkEnds
  <1>6. CASE AcceptInvite
    BY <1>1, <1>6, TurnWorkEnds DEF AcceptInvite
  <1>7. CASE JobFails
    <2>1. l.pc \notin {"record", "accept"}
      <3>1. l.pc \in {"record", "accept"} => l.tid = l.job.tid /\ Exists(l.tid)
        BY <1>2 DEF InHand, Exists, Holders
      <3>2. l.pc \notin Faults \/ l.pc \notin {"record", "accept"}
        BY DEF AskedOnce
      <3> QED BY <1>7, <3>1, <3>2 DEF JobFails, Fails, Rejected
    <2>2. rows[l.job.tid].status = "PROVISIONING"
      BY <1>2, <2>1 DEF InHand
    <2> DEFINE job == [l.job EXCEPT !.made = @ + 1]
    <2>3. l.job \in Job
      BY <1>1 DEF Typed, TypeOK, Local
    <2>4. job.tid = l.job.tid /\ job.made = l.job.made + 1 /\ l.job.made \in Nat
      BY <2>3 DEF Job
    <2>5. /\ queue' = IF job.made < Attempts THEN Append(queue, job) ELSE queue
          /\ rows' = SetStatus(job.tid, "FAILED") \/ rows' = rows
          /\ Finish(Worker) /\ edit' = edit
      BY <1>7 DEF JobFails
    <2> HIDE DEF job
    <2>6. queue' = queue
      BY <2>4, <2>5 DEF Attempts
    <2>7. Moves(l.job.sub) \/ rows' = rows
      BY <1>3, <2>2, <2>4, <2>5, MovesStatus DEF Onward, Status
    <2> QED BY <1>1, <2>5, <2>6, <2>7, TurnWorkEnds
  <1> QED BY <1>4, <1>5, <1>6, <1>7

\* A job joins the queue for a church that is nobody else's.
LEMMA QueueGains ==
  ASSUME AskedOnce, Typed, InTurn, NEW job \in Job, queue' = Append(queue, job),
         UNCHANGED <<rows, edit>>, run'[Worker] = run[Worker],
         ~Queued(job.sub), ~Taken(job.sub), job.tid \in Holders(job.sub),
         rows[job.tid].status \in {"PENDING", "AWAITING_APPROVAL"},
         \A q \in Requests :
           \/ run'[q].pc = "done"
           \/ /\ run'[q] = run[q]
              /\ run[q].pc \notin {"idle", "done"} => run[q].job.sub # job.sub
  PROVE  KeepsTurn
  <1>1. PICK s \in Subdomains : s = job.sub
    BY DEF Job
  <1>2. queue \in Seq(Job)
    BY DEF Typed, TypeOK
  <1>3. /\ Len(queue') = Len(queue) + 1 /\ queue'[Len(queue) + 1] = job
        /\ \A i \in 1..Len(queue) : queue'[i] = queue[i]
    BY <1>2, AppendProperties
  <1>4. Len(queue) \in Nat
    BY <1>2
  <1>5. \A u : Holders(u)' = Holders(u)
    BY DEF Holders
  <1>6. \A u : Taken(u)' = Taken(u)
    BY DEF Taken
  <1>7. \A u \in Subdomains \ {s} : Queued(u)' => Queued(u)
    BY <1>1, <1>3, <1>4 DEF Queued
  <1>8. Elsewhere(s)
    BY <1>5 DEF Elsewhere
  <1>9. ASSUME NEW q \in Requests, run'[q].pc \notin {"idle", "done"}
        PROVE  Asking(q)'
    <2>1. run'[q] = run[q] /\ run[q].job.sub # s
      BY <1>1, <1>9
    <2>2. Asking(q)
      BY <1>9, <2>1 DEF InTurn
    <2>3. run[q].job.sub \in Subdomains \ {s}
      BY <2>1, <2>2, OnboardingAssumption DEF Asking
    <2> QED BY <1>6, <1>7, <1>8, <2>1, <2>2, <2>3, AskingKeeps
  <1>10. ASSUME NEW q \in Requests, run'[q].pc = "idle", NEW u \in Asks[q]
         PROVE  Unasked(u)'
    <2>1. run'[q] = run[q]
      BY <1>10
    <2>2. Unasked(u) /\ u \in Subdomains
      BY <1>10, <2>1, OnboardingAssumption DEF InTurn
    <2>3. u # s
      BY <1>1, <2>2 DEF Unasked
    <2> QED BY <1>5, <1>6, <1>7, <2>2, <2>3 DEF Unasked
  <1>11. ASSUME NEW i \in 1..Len(queue') PROVE InLine(i)'
    <2>1. CASE i = Len(queue) + 1
      <3>1. queue'[i] = job
        BY <1>3, <2>1
      <3>2. \A j \in 1..Len(queue') : queue'[j].sub = s => i = j
        BY <1>1, <1>3, <1>4, <2>1 DEF Queued
      <3> QED BY <1>1, <1>5, <1>6, <3>1, <3>2 DEF InLine
    <2>2. CASE i \in 1..Len(queue)
      <3>1. queue'[i] = queue[i] /\ InLine(i) /\ queue[i].sub # s
        BY <1>1, <1>3, <2>2 DEF InTurn, Queued
      <3>2. \A j \in 1..Len(queue') : queue'[j].sub = queue[i].sub => i = j
        BY <1>1, <1>3, <1>4, <3>1 DEF InLine
      <3> QED BY <1>5, <1>6, <3>1, <3>2 DEF InLine
    <2> QED BY <1>3, <1>4, <2>1, <2>2
  <1>12. run'[Worker].pc # "idle" => InHand'
    BY <1>5 DEF InTurn, InHand
  <1>13. edit' = NoEdit /\ OneHolder'
    BY <1>5 DEF InTurn, OneHolder
  <1>14. InTurn'
    BY <1>9, <1>10, <1>11, <1>12, <1>13 DEF InTurn, NoEdit
  <1> QED BY <1>1, <1>14 DEF KeepsTurn

LEMMA TurnEnqueue ==
  ASSUME AskedOnce, Typed, InTurn, NEW r \in Requests, SignupEnqueue(r)
  PROVE  KeepsTurn
  <1> DEFINE job == [run[r].job EXCEPT !.tid = run[r].tid]
  <1>1. run[r].pc = "routing" /\ queue' = Append(queue, job) /\ Finish(r)
        /\ UNCHANGED <<rows, edit>>
    BY DEF SignupEnqueue
  <1>2. Asking(r) /\ run[r].pc \in Working
    BY <1>1 DEF InTurn, Working
  <1>3. r \in Procs /\ Worker # r /\ Worker \in Procs /\ Requests \subseteq Procs
    BY OnboardingAssumption DEF Procs
  <1>4. run[r].job \in Job /\ run[r].tid \in TenantIds
    BY <1>2, <1>3 DEF Typed, TypeOK, Holding, Local
  <1>5. job \in Job /\ job.sub = run[r].job.sub /\ job.tid = run[r].tid
    BY <1>4 DEF Job
  <1> HIDE DEF job
  <1>6. run' = [run EXCEPT ![r] = At("done")] /\ At("done").pc = "done"
    BY <1>1, <1>3, AtType DEF Finish, Steps
  <1>7. run'[r].pc = "done" /\ \A y \in Procs \ {r} : run'[y] = run[y]
    BY <1>3, <1>6 DEF Typed, TypeOK
  <1>8. ASSUME NEW q \in Requests, q # r, run[q].pc \notin {"idle", "done"}
        PROVE  run[q].job.sub # job.sub
    <2>1. Asking(q)
      BY <1>8 DEF InTurn
    <2> QED BY <1>2, <1>5, <1>8, <2>1 DEF Asking, AskedOnce
  <1>9. \A q \in Requests :
          \/ run'[q].pc = "done"
          \/ /\ run'[q] = run[q]
             /\ run[q].pc \notin {"idle", "done"} => run[q].job.sub # job.sub
    BY <1>3, <1>7, <1>8
  <1>10. /\ ~Queued(job.sub) /\ ~Taken(job.sub)
         /\ job.tid \in Holders(job.sub) /\ rows[job.tid].status = "PENDING"
    BY <1>2, <1>5 DEF Asking
  <1> QED BY <1>1, <1>3, <1>5, <1>7, <1>9, <1>10, QueueGains

LEMMA TurnApprove ==
  ASSUME AskedOnce, Typed, InTurn, NEW t \in TenantIds, ApproveTenant(t)
  PROVE  KeepsTurn
  <1> DEFINE job == [Blank(rows[t].sub, NoToken, FALSE) EXCEPT !.tid = t]
  <1>1. /\ rows[t] \in Row /\ rows[t].status = "AWAITING_APPROVAL"
        /\ queue' = Append(queue, job) /\ UNCHANGED <<rows, run, edit>>
    BY DEF ApproveTenant, Exists, Typed, TypeOK
  <1>2. \A i \in DOMAIN queue : queue[i].tid # t
    BY DEF ApproveTenant, AskedOnce
  <1>3. PICK s \in Subdomains : s = rows[t].sub
    BY <1>1 DEF Row
  <1>4. job \in Job /\ job.tid = t /\ job.sub = s
    BY <1>3, TicketType DEF Blank
  <1> HIDE DEF job
  <1>5. Holders(s) = {t}
    <2>1. t \in Holders(s)
      BY <1>1, <1>3, OnboardingAssumption DEF Holders
    <2> QED BY <2>1 DEF InTurn, OneHolder
  <1>6. ~Queued(s)
    <2>1. queue \in Seq(Job)
      BY DEF Typed, TypeOK
    <2>2. DOMAIN queue = 1..Len(queue)
      BY <2>1
    <2>3. ASSUME NEW i \in 1..Len(queue) PROVE queue[i].sub # s
      <3>1. InLine(i)
        BY DEF InTurn
      <3> QED BY <1>2, <1>5, <2>2, <3>1 DEF InLine
    <2> QED BY <2>3 DEF Queued
  <1>7. ~Taken(s)
    BY <1>1, <1>5 DEF Taken, InTurn, InHand
  <1>8. ASSUME NEW q \in Requests, run[q].pc \notin {"idle", "done"}
        PROVE  run[q].job.sub # s
    <2>1. Asking(q)
      BY <1>8 DEF InTurn
    <2> QED BY <1>1, <1>5, <2>1 DEF Asking
  <1>9. \A q \in Requests :
          \/ run'[q].pc = "done"
          \/ /\ run'[q] = run[q]
             /\ run[q].pc \notin {"idle", "done"} => run[q].job.sub # job.sub
    BY <1>1, <1>4, <1>8
  <1> QED BY <1>1, <1>4, <1>5, <1>6, <1>7, <1>9, QueueGains

LEMMA TurnTake ==
  ASSUME AskedOnce, Typed, InTurn, TakeJob
  PROVE  KeepsTurn
  <1> DEFINE job == Head(queue)
  <1>1. queue \in Seq(Job) /\ queue # <<>> /\ queue' = Tail(queue)
    BY DEF TakeJob, Typed, TypeOK
  <1>2. /\ job = queue[1] /\ job \in Job /\ Len(queue) \in Nat \ {0}
        /\ Len(queue') = Len(queue) - 1
        /\ \A i \in 1..Len(queue') : queue'[i] = queue[i + 1]
    BY <1>1, HeadTailProperties
  <1>3. /\ run[Worker].pc = "idle" /\ rows' = SetStatus(job.tid, "PROVISIONING")
        /\ run' = [run EXCEPT ![Worker] =
                     [At("ensure") EXCEPT !.kind = "job", !.job = job]]
        /\ edit' = edit
    BY DEF TakeJob
  <1> HIDE DEF job
  <1>4. PICK s \in Subdomains : s = job.sub
    BY <1>2 DEF Job
  <1>5. PICK t \in Holders(s) : t = job.tid
    BY <1>2, <1>4 DEF InTurn, InLine
  <1>6. rows[t].status \in {"PENDING", "AWAITING_APPROVAL"} /\ Queued(s)
    BY <1>2, <1>4, <1>5 DEF InTurn, InLine, Queued
  <1>7. Moves(s) /\ rows'[t].status = "PROVISIONING"
    BY <1>3, <1>5, <1>6, MovesStatus DEF Onward, Status
  <1>8. OneHolder' /\ Elsewhere(s) /\ t \in Holders(s)'
    BY <1>5, <1>7, RowsMove DEF InTurn
  <1>9. At("ensure") \in Local /\ At("ensure").pc = "ensure" /\ Worker \in Procs
    BY AtType DEF Steps, Provisioning, Procs
  <1>10. /\ run'[Worker].pc = "ensure" /\ run'[Worker].job = job
         /\ \A y \in Procs \ {Worker} : run'[y] = run[y]
    BY <1>3, <1>9 DEF Typed, TypeOK, Local
  <1>11. Requests \subseteq Procs \ {Worker}
    BY OnboardingAssumption DEF Procs
  <1>12. \A u \in Subdomains \ {s} : ~Taken(u)'
    BY <1>4, <1>10 DEF Taken
  <1>13. \A u \in Subdomains \ {s} : Queued(u)' => Queued(u)
    BY <1>2 DEF Queued
  <1>14. ASSUME NEW q \in Requests, run'[q].pc \notin {"idle", "done"}
         PROVE  Asking(q)'
    <2>1. run'[q] = run[q]
      BY <1>10, <1>11
    <2>2. Asking(q)
      BY <1>14, <2>1 DEF InTurn
    <2>3. run[q].job.sub \in Subdomains \ {s}
      BY <1>6, <2>2, OnboardingAssumption DEF Asking
    <2> QED BY <1>8, <1>12, <1>13, <2>1, <2>2, <2>3, AskingKeeps
  <1>15. ASSUME NEW q \in Requests, run'[q].pc = "idle", NEW u \in Asks[q]
         PROVE  Unasked(u)'
    <2>1. run'[q] = run[q]
      BY <1>10, <1>11
    <2>2. Unasked(u) /\ u \in Subdomains
      BY <1>15, <2>1, OnboardingAssumption DEF InTurn
    <2>3. u # s
      BY <1>6, <2>2 DEF Unasked
    <2> QED BY <1>8, <1>12, <1>13, <2>2, <2>3 DEF Unasked, Elsewhere
  <1>16. ASSUME NEW i \in 1..Len(queue') PROVE InLine(i)'
    <2>1. i + 1 \in 1..Len(queue) /\ i + 1 # 1
      BY <1>2
    <2>2. InLine(i + 1) /\ InLine(1) /\ queue'[i] = queue[i + 1]
      BY <1>2, <2>1 DEF InTurn
    <2>3. queue[i + 1].sub \in Subdomains \ {s}
      <3>1. queue[i + 1] \in Job
        BY <1>1, <2>1
      <3>2. queue[i + 1].sub # s
        BY <1>2, <1>4, <2>1, <2>2 DEF InLine
      <3> QED BY <3>1, <3>2 DEF Job
    <2>4. \A j \in 1..Len(queue') : queue'[j].sub = queue'[i].sub => i = j
      <3>1. ASSUME NEW j \in 1..Len(queue'), queue'[j].sub = queue'[i].sub
            PROVE  i = j
        <4>1. j + 1 \in 1..Len(queue) /\ queue'[j] = queue[j + 1]
          BY <1>2
        <4>2. i + 1 = j + 1
          BY <2>2, <3>1, <4>1 DEF InLine
        <4> QED BY <4>2
      <3> QED BY <3>1
    <2> QED BY <1>8, <1>12, <2>2, <2>3, <2>4 DEF InLine, Elsewhere
  <1>17. InHand'
    BY <1>4, <1>5, <1>7, <1>8, <1>10 DEF InHand, Working, Provisioning
  <1>18. edit' = NoEdit
    BY <1>3 DEF InTurn
  <1>19. InTurn'
    BY <1>8, <1>14, <1>15, <1>16, <1>17, <1>18 DEF InTurn, NoEdit
  <1> QED BY <1>7, <1>19 DEF KeepsTurn

\* The steps that touch no church's row, process, job or edit.
LEMMA TurnQuiet ==
  ASSUME InTurn, UNCHANGED <<rows, queue, run, edit>>
  PROVE  KeepsTurn
  <1>1. Subdomains # {}
    BY OnboardingAssumption
  <1>2. InTurn'
    BY DEF InTurn, OneHolder, Asking, Unasked, InLine, InHand, Queued, Taken, Holders,
           NoEdit
  <1> QED BY <1>1, <1>2 DEF KeepsTurn

LEMMA TurnStep ==
  ASSUME AskedOnce, Typed, InTurn, [Next]_vars
  PROVE  InTurn' /\ [Lifecycle!Next]_([s \in Subdomains |-> Stage(s)])
  <1>1. KeepsTurn
    <2>1. CASE WorkerStep
      BY <2>1, TurnTake, TurnWorkProvision, TurnWorkCompletes DEF WorkerStep
    <2>2. ASSUME NEW r \in Requests, RequestStep(r) PROVE KeepsTurn
      BY <2>2, TurnResolve, TurnSignup, TurnEnqueue, TurnCreate, TurnCli,
         TurnProvision, TurnRequestFails DEF RequestStep, Signup
    <2>3. CASE Console
      <3>1. ASSUME NEW t \in TenantIds, DeleteTenant(t) \/ EditRead(t) PROVE FALSE
        BY <3>1 DEF DeleteTenant, EditRead, AskedOnce
      <3>2. ASSUME NEW active \in BOOLEAN, EditSave(active) PROVE FALSE
        BY <3>2 DEF EditSave, InTurn
      <3>3. CASE ToggleGate
        BY <3>3, TurnQuiet DEF ToggleGate
      <3>4. ASSUME NEW k \in Tokens, CloseInvite(k) PROVE KeepsTurn
        BY <3>4, TurnQuiet DEF CloseInvite
      <3> QED BY <2>3, <3>1, <3>2, <3>3, <3>4, TurnApprove DEF Console
    <2>4. ASSUME NEW t \in TenantIds, Serve(t) PROVE KeepsTurn
      BY <2>4, TurnQuiet DEF Serve
    <2>5. ASSUME Crash PROVE FALSE
      BY <2>5 DEF Crash, AskedOnce, Typed, TypeOK
    <2>6. CASE Rest \/ UNCHANGED vars
      BY <2>6, TurnQuiet DEF Rest, vars
    <2> QED BY <2>1, <2>2, <2>3, <2>4, <2>5, <2>6 DEF Next
  <1>2. OneHolder
    BY DEF InTurn
  <1> QED BY <1>1, <1>2, StageMoves DEF KeepsTurn

\* A church asked for once, by the public page or the console, goes through the
\* lifecycle the status page shows and never back, as long as the process does
\* not crash, no statement fails once its row is ACTIVE, and the console neither
\* deletes it, edits it nor approves it twice.
THEOREM LifecycleFollowed == AskedOnce => (Spec => FollowsLifecycle)
  <1> SUFFICES ASSUME AskedOnce PROVE Spec => FollowsLifecycle
    OBVIOUS
  <1>1. Init => InTurn /\ Lifecycle!Init
    <2>1. ASSUME Init, NEW s \in Subdomains PROVE Stage(s) = "none"
      BY <2>1 DEF Init, Stage, Holders
    <2> QED BY <2>1, InTurnInit DEF Lifecycle!Init
  <1>2. Typed /\ InTurn /\ [Next]_vars =>
          InTurn' /\ [Lifecycle!Next]_([s \in Subdomains |-> Stage(s)])
    BY TurnStep
  <1> QED BY <1>1, <1>2, TypedAlways, PTL DEF Spec, FollowsLifecycle, Lifecycle!Spec

=============================================================================
