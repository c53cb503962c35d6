-------------------------- MODULE TenantOnboarding --------------------------
(***************************************************************************)
(* How a church's workspace comes to exist: the public signup handler, the *)
(* approval gate, branch invites, the provisioning queue with its single   *)
(* worker, the platform console (create inline, approve, delete, suspend)  *)
(* and the command-line script, all writing the same rows of `public`.     *)
(*                                                                         *)
(* A step is what happens between two awaits that another actor's step can *)
(* come between.  provision() is one sequence of steps run by whoever      *)
(* called it: the queue worker, an HTTP request or the script.             *)
(***************************************************************************)
EXTENDS Naturals, Sequences, FiniteSets

CONSTANTS
  TenantIds,     \* the ids the database may issue; an id is never reused
  Subdomains,    \* a subdomain also names the schema derived from it
  Requests,      \* HTTP requests and script runs, each made at most once
  Asks,          \* Asks[r]: the subdomains request r may ask for
  Tokens,        \* branch invites; a token also stands for the inviting church
  SponsorTokens, \* the invites created with sponsorPlan
  Worker,        \* the one consumer of the provisioning queue
  NoTenant, NoToken, NoRow, NoSubdomain, Unsubscribed,
  Ops,           \* which of the console's operations happen in this instance
  Faults,        \* the steps at which the database or Redis may fail
  MaxCrashes,    \* bound: process crashes
  MaxQueue       \* bound: waiting jobs

AllOps == {"create", "cli", "delete", "edit", "gate", "reapprove", "revoke"}

Provisioning == {"ensure", "schema", "seed", "subscribe", "activate",
                 "complete", "record", "accept"}

Status == {"PENDING", "AWAITING_APPROVAL", "PROVISIONING", "ACTIVE", "FAILED"}

Row == [sub: Subdomains, status: Status, isActive: BOOLEAN,
        parent: Tokens \cup {NoToken}, held: BOOLEAN]

ASSUME OnboardingAssumption ==
  /\ Worker \notin Requests
  /\ NoTenant \notin TenantIds
  /\ Subdomains # {} /\ NoSubdomain \notin Subdomains
  /\ NoRow \notin Row
  /\ NoToken \notin Tokens /\ Unsubscribed \notin Tokens \cup {NoToken}
  /\ SponsorTokens \subseteq Tokens
  /\ Asks \in [Requests -> SUBSET Subdomains]
  /\ Ops \subseteq AllOps
  /\ Faults \subseteq Provisioning
  /\ MaxCrashes \in Nat /\ MaxQueue \in Nat

VARIABLES
  rows,     \* public.tenants
  issued,   \* history: the subdomain each id was issued for
  schema,   \* how far each tenant schema has been built
  subs,     \* public.subscriptions: Unsubscribed, NoToken (own plan) or sponsor
  invites,  \* public.tenant_branch_invites
  gate,     \* the SELF_SERVE_REQUIRES_APPROVAL platform setting
  queue,    \* waiting jobs of the provisioning queue, in Redis
  run,      \* the step every process has reached, and its local variables
  edit,     \* the console edit in progress: a tenant entity read, not yet saved
  cleared,  \* history: subdomains someone was entitled to have provisioned
  crashes

vars == <<rows, issued, schema, subs, invites, gate, queue, run, edit,
          cleared, crashes>>

-----------------------------------------------------------------------------
Job == [tid: TenantIds \cup {NoTenant}, sub: Subdomains,
        token: Tokens \cup {NoToken}, sponsored: BOOLEAN,
        made: Nat, stalls: Nat]

Procs == {Worker} \cup Requests

Kinds == {"idle", "signup", "create", "cli", "job"}

Steps == {"idle", "resolved", "routing", "done"} \cup Provisioning

\* `ent` is the Tenant entity provision() holds in memory from its first read
\* to its saves.
Local == [kind: Kinds, pc: Steps, job: Job, tid: TenantIds \cup {NoTenant},
          ent: Row \cup {NoRow}]

Blank(s, k, sp) == [tid |-> NoTenant, sub |-> s, token |-> k, sponsored |-> sp,
                    made |-> 0, stalls |-> 0]

AnySub == CHOOSE s \in Subdomains : TRUE

At(pc) == [kind |-> "idle", pc |-> pc, job |-> Blank(AnySub, NoToken, FALSE),
           tid |-> NoTenant, ent |-> NoRow]

TypeOK ==
  /\ rows \in [TenantIds -> Row \cup {NoRow}]
  /\ issued \in [TenantIds -> Subdomains \cup {NoSubdomain}]
  /\ schema \in [Subdomains -> {"absent", "migrated", "seeded", "used"}]
  /\ subs \in [TenantIds -> Tokens \cup {NoToken, Unsubscribed}]
  /\ invites \in [Tokens -> {"pending", "expired", "revoked", "accepted"}]
  /\ gate \in BOOLEAN
  /\ queue \in Seq(Job)
  /\ run \in [Procs -> Local]
  /\ edit \in [tid: TenantIds \cup {NoTenant}, ent: Row \cup {NoRow}]
  /\ cleared \in SUBSET Subdomains
  /\ crashes \in 0..MaxCrashes

NoEdit == [tid |-> NoTenant, ent |-> NoRow]

Init ==
  /\ rows = [t \in TenantIds |-> NoRow]
  /\ issued = [t \in TenantIds |-> NoSubdomain]
  /\ schema = [s \in Subdomains |-> "absent"]
  /\ subs = [t \in TenantIds |-> Unsubscribed]
  /\ invites = [k \in Tokens |-> "pending"]
  /\ gate \in BOOLEAN
  /\ queue = <<>>
  /\ run = [x \in Procs |-> At("idle")]
  /\ edit = NoEdit
  /\ cleared = {}
  /\ crashes = 0

-----------------------------------------------------------------------------
Exists(t) == t \in TenantIds /\ rows[t] # NoRow

Holders(s) == {t \in TenantIds : rows[t] # NoRow /\ rows[t].sub = s}

Fresh == {t \in TenantIds : issued[t] = NoSubdomain}

\* An UPDATE of one column, which touches nothing when the row is gone.
SetStatus(t, st) ==
  IF Exists(t) THEN [rows EXCEPT ![t].status = st] ELSE rows

\* Seeded bug: the row starts as if the worker had taken it already.
NewRowBuilding(s, k) ==
  [sub |-> s, status |-> "PROVISIONING", isActive |-> FALSE, parent |-> k,
   held |-> FALSE]

NewRow(s, k) == [sub |-> s, status |-> "PENDING", isActive |-> FALSE,
                 parent |-> k, held |-> FALSE]

Goto(x, pc) == run' = [run EXCEPT ![x].pc = pc]

\* A worker that is free again, a request that was answered.
Finish(x) == run' = [run EXCEPT ![x] = At(IF x = Worker THEN "idle" ELSE "done")]

(***************************************************************************)
(* ensurePendingTenant: the row found, or inserted, for x's subdomain; the *)
(* caller goes on at pc.  The read and the insert are one step: the unique *)
(* index on subdomain turns a lost race into a request that did nothing.   *)
(* An active row is a ConflictException, which is Fail or SignupConflict.  *)
(***************************************************************************)
EnsureTenant(x, pc) ==
  LET s == run[x].job.sub IN
  \/ \E t \in Holders(s) :
       /\ ~rows[t].isActive
       /\ run' = [run EXCEPT ![x].pc = pc, ![x].tid = t, ![x].ent = rows[t]]
       /\ UNCHANGED <<rows, issued>>
  \/ /\ Holders(s) = {}
     /\ \E t \in Fresh :
          LET row == NewRow(s, run[x].job.token) IN
          /\ rows' = [rows EXCEPT ![t] = row]
          /\ issued' = [issued EXCEPT ![t] = s]
          /\ run' = [run EXCEPT ![x].pc = pc, ![x].tid = t, ![x].ent = row]

InUse(s) == \E t \in Holders(s) : rows[t].isActive

-----------------------------------------------------------------------------
(* SignupController.signup *)

SignupResolve(r, s, k) ==
  /\ run[r].pc = "idle"
  /\ s \in Asks[r]
  /\ k # NoToken => invites[k] = "pending"
  /\ \E sp \in IF k \in SponsorTokens THEN BOOLEAN ELSE {FALSE} :
       run' = [run EXCEPT ![r] = [At("resolved") EXCEPT !.kind = "signup",
                                                        !.job = Blank(s, k, sp)]]
  /\ UNCHANGED <<rows, issued, schema, subs, invites, gate, queue, edit,
                 cleared, crashes>>

SignupEnsure(r) ==
  /\ run[r].pc = "resolved"
  /\ EnsureTenant(r, "routing")
  /\ UNCHANGED <<schema, subs, invites, gate, queue, edit, cleared,
                 crashes>>

SignupConflict(r) ==
  /\ run[r].pc = "resolved"
  /\ InUse(run[r].job.sub)
  /\ Finish(r)
  /\ UNCHANGED <<rows, issued, schema, subs, invites, gate, queue, edit,
                 cleared, crashes>>

\* Seeded bug: only a row nobody has held yet is held.
MustHoldOnce(r) ==
  gate /\ run[r].job.token = NoToken /\ ~run[r].ent.held

\* Whom the gate holds: a cold signup, while the setting is on.
MustHold(r) == gate /\ run[r].job.token = NoToken

\* holdForApproval, an UPDATE by id that looks at nothing.
SignupHold(r) ==
  /\ run[r].pc = "routing"
  /\ MustHold(r)
  /\ LET t == run[r].tid IN
       rows' = IF Exists(t)
               THEN [rows EXCEPT ![t].status = "AWAITING_APPROVAL",
                                 ![t].held = TRUE]
               ELSE rows
  /\ Finish(r)
  /\ UNCHANGED <<issued, schema, subs, invites, gate, queue, edit, cleared,
                 crashes>>

\* What the queue is given; the entitlement is recorded apart from it.
SignupEnqueue(r) ==
  /\ run[r].pc = "routing"
  /\ ~MustHold(r)
  /\ Len(queue) < MaxQueue
  /\ queue' = Append(queue, [run[r].job EXCEPT !.tid = run[r].tid])
  /\ cleared' = IF gate /\ run[r].job.token = NoToken THEN cleared
                ELSE cleared \cup {run[r].job.sub}
  /\ Finish(r)
  /\ UNCHANGED <<rows, issued, schema, subs, invites, gate, edit,
                 crashes>>

Signup(r) ==
  \/ \E s \in Subdomains, k \in Tokens \cup {NoToken} : SignupResolve(r, s, k)
  \/ SignupEnsure(r)
  \/ SignupConflict(r)
  \/ SignupHold(r)
  \/ SignupEnqueue(r)

-----------------------------------------------------------------------------
(* The three callers of provision() *)

\* PlatformTenantService.createTenant, up to its call of provision().
CreateTenant(r, s) ==
  /\ "create" \in Ops
  /\ run[r].pc = "idle"
  /\ s \in Asks[r]
  /\ LET start == [At("ensure") EXCEPT !.kind = "create"] IN
     \/ \E t \in Holders(s) :
          /\ ~rows[t].isActive
          /\ run' = [run EXCEPT ![r] =
                [start EXCEPT !.job = [Blank(s, NoToken, FALSE) EXCEPT !.tid = t]]]
          /\ UNCHANGED <<rows, issued>>
     \/ /\ Holders(s) = {}
        /\ \E t \in Fresh :
             /\ rows' = [rows EXCEPT ![t] = NewRow(s, NoToken)]
             /\ issued' = [issued EXCEPT ![t] = s]
             /\ run' = [run EXCEPT ![r] =
                [start EXCEPT !.job = [Blank(s, NoToken, FALSE) EXCEPT !.tid = t]]]
  /\ cleared' = cleared \cup {s}
  /\ UNCHANGED <<schema, subs, invites, gate, queue, edit, crashes>>

\* provision-tenant.ts, which only calls provision().
CliProvision(r, s) ==
  /\ "cli" \in Ops
  /\ run[r].pc = "idle"
  /\ s \in Asks[r]
  /\ run' = [run EXCEPT ![r] = [At("ensure") EXCEPT !.kind = "cli",
                                  !.job = Blank(s, NoToken, FALSE)]]
  /\ cleared' = cleared \cup {s}
  /\ UNCHANGED <<rows, issued, schema, subs, invites, gate, queue, edit,
                 crashes>>

\* TenantProvisioningProcessor.handle, up to its call of provision().
TakeJob ==
  /\ run[Worker].pc = "idle"
  /\ queue # <<>>
  /\ LET job == Head(queue) IN
       /\ rows' = SetStatus(job.tid, "PROVISIONING")
       /\ run' = [run EXCEPT ![Worker] =
                    [At("ensure") EXCEPT !.kind = "job", !.job = job]]
  /\ queue' = Tail(queue)
  /\ UNCHANGED <<issued, schema, subs, invites, gate, edit, cleared,
                 crashes>>

-----------------------------------------------------------------------------
(* TenantProvisioningService.provision *)

EnsurePending(x) ==
  /\ run[x].pc = "ensure"
  /\ EnsureTenant(x, "schema")
  /\ UNCHANGED <<schema, subs, invites, gate, queue, edit, cleared,
                 crashes>>

\* Seeded bug: the seeding step is skipped.
MigrateOnly(x) ==
  /\ run[x].pc = "schema"
  /\ schema' = [schema EXCEPT ![run[x].job.sub] = "migrated"]
  /\ Goto(x, "subscribe")
  /\ UNCHANGED <<rows, issued, subs, invites, gate, queue, edit, cleared,
                 crashes>>

\* ensureSchemaExists and runTenantMigrations: both do nothing the second time.
MigrateSchema(x) ==
  /\ run[x].pc = "schema"
  /\ LET s == run[x].job.sub IN
       schema' = IF schema[s] = "absent" THEN [schema EXCEPT ![s] = "migrated"]
                 ELSE schema
  /\ Goto(x, "seed")
  /\ UNCHANGED <<rows, issued, subs, invites, gate, queue, edit, cleared,
                 crashes>>

\* seedTenantAdmin, one transaction that does nothing to a schema that has its
\* first admin.
SeedAdmin(x) ==
  /\ run[x].pc = "seed"
  /\ LET s == run[x].job.sub IN
       /\ schema[s] # "absent"
       /\ schema' = IF schema[s] = "migrated" THEN [schema EXCEPT ![s] = "seeded"]
                    ELSE schema
  /\ Goto(x, "subscribe")
  /\ UNCHANGED <<rows, issued, subs, invites, gate, queue, edit, cleared,
                 crashes>>

\* Seeded bug: a sponsored church is recorded as its own sponsor.
PaidByItself(x) == IF run[x].job.sponsored THEN run[x].tid ELSE NoToken

\* Who pays: the inviting church, when the invite said so and it can.
PaidBy(x) == IF run[x].job.sponsored THEN run[x].job.token ELSE NoToken

\* ensureSubscription; the row must still be there for the foreign key.
Subscribe(x) ==
  /\ run[x].pc = "subscribe"
  /\ LET t == run[x].tid IN
       /\ Exists(t)
       /\ subs' = IF subs[t] # Unsubscribed THEN subs
                  ELSE [subs EXCEPT ![t] = PaidBy(x)]
  /\ Goto(x, "activate")
  /\ UNCHANGED <<rows, issued, schema, invites, gate, queue, edit, cleared,
                 crashes>>

\* save(tenant): every column of the entity read at the start goes back, and a
\* row that was deleted meanwhile is inserted again.
Activate(x) ==
  /\ run[x].pc = "activate"
  /\ LET t == run[x].tid
         ent == [run[x].ent EXCEPT !.isActive = TRUE] IN
       /\ Holders(ent.sub) \subseteq {t}
       /\ rows' = [rows EXCEPT ![t] = ent]
       /\ IF run[x].kind = "cli" THEN Finish(x)
          ELSE run' = [run EXCEPT ![x].ent = ent, ![x].pc = "complete"]
  /\ UNCHANGED <<issued, schema, subs, invites, gate, queue, edit, cleared,
                 crashes>>

-----------------------------------------------------------------------------
(* What the two callers that report completion do next *)

\* handle(): an UPDATE by id.
CompleteJob ==
  /\ run[Worker].pc = "complete"
  /\ rows' = SetStatus(run[Worker].tid, "ACTIVE")
  /\ Goto(Worker, "record")
  /\ UNCHANGED <<issued, schema, subs, invites, gate, queue, edit, cleared,
                 crashes>>

\* PROVISIONING_COMPLETED: the event's foreign key needs the row.
RecordCompleted ==
  /\ run[Worker].pc = "record"
  /\ Exists(run[Worker].tid)
  /\ IF run[Worker].job.token # NoToken THEN Goto(Worker, "accept")
     ELSE Finish(Worker)
  /\ UNCHANGED <<rows, issued, schema, subs, invites, gate, queue, edit,
                 cleared, crashes>>

\* createTenant(): a save of the same entity.
CompleteCreate(r) ==
  /\ run[r].pc = "complete"
  /\ LET t == run[r].tid
         ent == [run[r].ent EXCEPT !.status = "ACTIVE"] IN
       /\ Holders(ent.sub) \subseteq {t}
       /\ rows' = [rows EXCEPT ![t] = ent]
  /\ Finish(r)
  /\ UNCHANGED <<issued, schema, subs, invites, gate, queue, edit, cleared,
                 crashes>>

\* Seeded bug: the invite is used up when the job starts.
AcceptAtStart ==
  /\ run[Worker].pc = "ensure"
  /\ run[Worker].job.token # NoToken
  /\ invites' = [invites EXCEPT ![run[Worker].job.token] = "accepted"]
  /\ UNCHANGED <<rows, issued, schema, subs, gate, queue, run, edit, cleared,
                 crashes>>

\* BranchInviteService.markAccepted: unconditional.
AcceptInvite ==
  /\ run[Worker].pc = "accept"
  /\ invites' = [invites EXCEPT ![run[Worker].job.token] = "accepted"]
  /\ Finish(Worker)
  /\ UNCHANGED <<rows, issued, schema, subs, gate, queue, edit, cleared,
                 crashes>>

\* The statements that cannot succeed in the state they meet: a conflict, a
\* missing schema, a broken foreign key, a broken unique index.
Rejected(x) ==
  LET l == run[x] IN
  \/ l.pc = "ensure" /\ InUse(l.job.sub)
  \/ l.pc = "seed" /\ schema[l.job.sub] = "absent"
  \/ l.pc \in {"subscribe", "record"} /\ ~Exists(l.tid)
  \/ /\ l.pc = "activate" \/ (l.pc = "complete" /\ l.kind = "create")
     /\ ~(Holders(l.ent.sub) \subseteq {l.tid})

Fails(x) == run[x].pc \in Faults \/ Rejected(x)

\* External: Bull's default for a job added with no options.
Attempts == 1

\* Seeded bug: the documented number of attempts, not the job's.
LastOfThree(job) == job.made >= 3

LastAttempt(job) == job.made >= Attempts

\* Any await of handle() may throw.  onFailed runs once per failed attempt and
\* marks the row only when none is left.
JobFails ==
  /\ Fails(Worker)
  /\ LET job == [run[Worker].job EXCEPT !.made = @ + 1] IN
       /\ queue' = IF job.made < Attempts THEN Append(queue, job) ELSE queue
       /\ rows' = IF LastAttempt(job) THEN SetStatus(job.tid, "FAILED") ELSE rows
  /\ Finish(Worker)
  /\ UNCHANGED <<issued, schema, subs, invites, gate, edit, cleared,
                 crashes>>

\* createTenant's catch covers provision() and nothing after it; the script
\* marks nothing.
RequestFails(r) ==
  /\ Fails(r)
  /\ rows' = IF run[r].kind = "create" /\ run[r].pc # "complete"
             THEN SetStatus(run[r].job.tid, "FAILED") ELSE rows
  /\ Finish(r)
  /\ UNCHANGED <<issued, schema, subs, invites, gate, queue, edit, cleared,
                 crashes>>

Provision(x) ==
  \/ EnsurePending(x)
  \/ MigrateSchema(x)
  \/ SeedAdmin(x)
  \/ Subscribe(x)
  \/ Activate(x)

WorkerStep ==
  \/ TakeJob
  \/ Provision(Worker)
  \/ CompleteJob
  \/ RecordCompleted
  \/ AcceptInvite
  \/ JobFails

RequestStep(r) ==
  \/ Signup(r)
  \/ \E s \in Subdomains : CreateTenant(r, s) \/ CliProvision(r, s)
  \/ Provision(r)
  \/ CompleteCreate(r)
  \/ RequestFails(r)

(***************************************************************************)
(* The process dies: requests are gone, the queue is in Redis.  Bull gives *)
(* the worker's job back once it looks stalled.  The second time it fails  *)
(* the job instead, without counting an attempt, so onFailed sees attempts *)
(* left and leaves the row alone.                                          *)
(***************************************************************************)
MaxStalledCount == 1   \* External: Bull's default, not set in app.module.ts

Crash ==
  /\ crashes < MaxCrashes
  /\ crashes' = crashes + 1
  /\ LET job == run[Worker].job IN
       queue' = IF run[Worker].pc \in Provisioning /\ job.stalls < MaxStalledCount
                THEN <<[job EXCEPT !.stalls = @ + 1]>> \o queue
                ELSE queue
  /\ run' = [x \in Procs |-> IF run[x].pc = "idle" \/ x = Worker THEN At("idle")
                             ELSE At("done")]
  /\ edit' = NoEdit
  /\ UNCHANGED <<rows, issued, schema, subs, invites, gate, cleared>>

-----------------------------------------------------------------------------
(* The platform console, a parent church's console, and live traffic *)

\* approveTenant: the row keeps its status until the job is taken, so the same
\* signup can be approved again; an instance may leave that out.
ApproveTenant(t) ==
  /\ Exists(t)
  /\ rows[t].status = "AWAITING_APPROVAL" /\ rows[t].held
  /\ "reapprove" \in Ops \/ \A i \in DOMAIN queue : queue[i].tid # t
  /\ Len(queue) < MaxQueue
  /\ queue' = Append(queue, [Blank(rows[t].sub, NoToken, FALSE) EXCEPT !.tid = t])
  /\ cleared' = cleared \cup {rows[t].sub}
  /\ UNCHANGED <<rows, issued, schema, subs, invites, gate, run, edit,
                 crashes>>

Deletable == {"PENDING", "AWAITING_APPROVAL", "FAILED"}

\* deleteTenant: DROP SCHEMA ... CASCADE, then the row, which takes the
\* subscription with it and blanks the references of invites.
DeleteTenant(t) ==
  /\ "delete" \in Ops
  /\ Exists(t)
  /\ rows[t].status \in Deletable
  /\ schema' = [schema EXCEPT ![rows[t].sub] = "absent"]
  /\ rows' = [rows EXCEPT ![t] = NoRow]
  /\ subs' = [subs EXCEPT ![t] = Unsubscribed]
  /\ UNCHANGED <<issued, invites, gate, queue, run, edit, cleared,
                 crashes>>

\* updateTenant and suspendTenant: read the entity, change a field, save it.
EditRead(t) ==
  /\ "edit" \in Ops
  /\ edit = NoEdit
  /\ Exists(t)
  /\ edit' = [tid |-> t, ent |-> rows[t]]
  /\ UNCHANGED <<rows, issued, schema, subs, invites, gate, queue, run,
                 cleared, crashes>>

EditSave(active) ==
  /\ edit # NoEdit
  /\ Holders(edit.ent.sub) \subseteq {edit.tid}
  /\ rows' = [rows EXCEPT ![edit.tid] = [edit.ent EXCEPT !.isActive = active]]
  /\ edit' = NoEdit
  /\ UNCHANGED <<issued, schema, subs, invites, gate, queue, run, cleared,
                 crashes>>

ToggleGate ==
  /\ "gate" \in Ops
  /\ gate' = ~gate
  /\ UNCHANGED <<rows, issued, schema, subs, invites, queue, run, edit,
                 cleared, crashes>>

\* revokeInvite, and the expiry date passing.
CloseInvite(k) ==
  /\ "revoke" \in Ops
  /\ invites[k] = "pending"
  /\ \E st \in {"revoked", "expired"} : invites' = [invites EXCEPT ![k] = st]
  /\ UNCHANGED <<rows, issued, schema, subs, gate, queue, run, edit, cleared,
                 crashes>>

\* TenantMiddleware lets a request through: the church writes its own records.
Admitted(t) == Exists(t) /\ rows[t].status = "ACTIVE" /\ rows[t].isActive

Serve(t) ==
  /\ Admitted(t)
  /\ schema[rows[t].sub] = "seeded"
  /\ schema' = [schema EXCEPT ![rows[t].sub] = "used"]
  /\ UNCHANGED <<rows, issued, subs, invites, gate, queue, run, edit, cleared,
                 crashes>>

Console ==
  \/ \E t \in TenantIds : ApproveTenant(t) \/ DeleteTenant(t) \/ EditRead(t)
  \/ \E active \in BOOLEAN : EditSave(active)
  \/ ToggleGate
  \/ \E k \in Tokens : CloseInvite(k)

\* Nothing under way and nothing waiting: the system may rest here, and here
\* only, so a deadlock is a process stuck in the middle of a handler.
Rest ==
  /\ \A x \in Procs : run[x].pc \in {"idle", "done"}
  /\ queue = <<>>
  /\ UNCHANGED vars

Next ==
  \/ WorkerStep
  \/ \E r \in Requests : RequestStep(r)
  \/ Console
  \/ \E t \in TenantIds : Serve(t)
  \/ Crash
  \/ Rest

Spec == Init /\ [][Next]_vars

\* The worker is a process of its own that is always restarted, and a handler
\* that has started runs on; nobody is obliged to sign up, approve or edit.
Fairness ==
  /\ WF_vars(WorkerStep)
  /\ \A r \in Requests : WF_vars(run[r].pc # "idle" /\ RequestStep(r))

FairSpec == Spec /\ Fairness

-----------------------------------------------------------------------------
(* What onboarding promises *)

\* A church that the middleware lets in has its whole workspace: a schema with
\* its first admin and a subscription to resolve features from.  provision()
\* builds them in that order under whoever runs it, two runs at a time
\* included, and resumes what an earlier run left.
ServedIsComplete ==
  \A t \in TenantIds : Admitted(t) =>
    /\ schema[rows[t].sub] \in {"seeded", "used"}
    /\ subs[t] # Unsubscribed

\* No workspace goes live that nobody was entitled to: a cold signup made
\* while the approval setting is on stays closed until a platform admin
\* approves it, or creates that church, whatever else is signed up, retried,
\* deleted or edited meanwhile.
ApprovalGate ==
  \A t \in TenantIds : Admitted(t) => rows[t].sub \in cleared

\* An invite is used up only by a job of its own whose workspace was built, so
\* a signup that failed can be tried again with the same code, whatever fails
\* or crashes on the way (signup.controller.ts, the processor's last step).
SpentBy(k) ==
  /\ run[Worker].job.token = k
  /\ \E t \in TenantIds :
       /\ t = run[Worker].tid
       /\ schema[issued[t]] \in {"seeded", "used"}
       /\ subs[t] # Unsubscribed

InviteSpentOnSuccess ==
  [][\A k \in Tokens :
       invites[k] # "accepted" /\ invites'[k] = "accepted" => SpentBy(k)]_vars

\* A caller polling GET /signup/:id/status once the job is queued gets an
\* answer: ACTIVE or FAILED, or the signup is deleted.
Building(t) ==
  /\ Exists(t) /\ rows[t].status \in {"PENDING", "PROVISIONING"}
  /\ \/ \E i \in DOMAIN queue : queue[i].tid = t
     \/ run[Worker].job.tid = t

SignupsSettle ==
  \A t \in TenantIds :
    Building(t) ~> (~Exists(t) \/ rows[t].status \in {"ACTIVE", "FAILED", "AWAITING_APPROVAL"})

\* The status of the one row a subdomain has, as the lifecycle's stage.
Stage(s) ==
  IF Holders(s) = {} THEN "none"
  ELSE LET t == CHOOSE t \in Holders(s) : TRUE IN
       CASE rows[t].status = "PENDING" -> "asked"
         [] rows[t].status = "AWAITING_APPROVAL" -> "held"
         [] rows[t].status = "PROVISIONING" -> "building"
         [] rows[t].status = "ACTIVE" -> "open"
         [] OTHER -> "failed"

Lifecycle == INSTANCE OnboardingLifecycle
  WITH Churches <- Subdomains, stage <- [s \in Subdomains |-> Stage(s)]

\* A church asked for once, by the queue or the console, goes through the
\* lifecycle and never back, as long as no write fails once it is open.
FollowsLifecycle == Lifecycle!Spec

=============================================================================
