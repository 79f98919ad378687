# xbow-perso: a verification development in TLA+

xbow-perso is a control plane for authorised security assessments. An API process and several kinds of worker process share a database, a job queue and an artifact directory, and talk to a few remote services (HackerOne, a Strix runner; PentAGI in preview). Every hard question about the system is about what happens between two of their transactions, or between a call and its answer. This directory holds TLA+ modules of those parts, the TLC runs that check them on small instances, and TLAPS proofs for every value of the constants.

Paths below are relative to `src/backend/app/` unless they start with `docs/`, `tests/` or name the README of the repository.

## 1. Inventory

| Part | State it keeps | Operations | Talks to | Modelled in |
|---|---|---|---|---|
| Job queue, SQLite (`jobqueue.py`) | table `jobs`: status, attempts, budget, owner, claim time, dedupe key | enqueue, claim (any, allowed, one kind), heartbeat, finish, cancel_owned, cancel_queued, lease recovery | API, planner, every worker | `JobQueue` |
| Job queue, Redis (`redis_jobqueue.py`) | one hash per job, sorted sets of queued and running jobs, dedupe keys | the same, each made of several WATCH/EXEC blocks | the same | `RedisJobQueue` |
| Campaign document (`storage_core.py`, `storage.py`, `postgres_storage.py`) | one JSON document per campaign with a version column | read, save with `expected_version` | API, workers, planner | `CampaignRecord` |
| Observation graph (`storage_core.py`, `observation_graph.py`) | observations, first write wins | put, list | planner, verdicts, workers | `CampaignRecord` (what the planner and a verdict ask of it) |
| Campaign API and outbox (`main.py`, `api_outbox.py`, `outbox_recovery.py`) | none of its own: request and completion events in the document | start, cancel, add a finding, give a verdict, ask for a report, repair the outbox | document, queue, graph, planner | `CampaignApi` |
| Campaign workers (`worker_service.py`, `scanner_worker.py`, `scanner_ingestion.py`) | the claim they hold | claim, run the job, save, plan, finish, log the outcome | all of the above | `CampaignWorker` |
| Planner (`orchestrator.py`, `autonomy_gate.py`, `adaptive_cycle.py`, `planner_budget.py`) | none of its own | choose jobs from document, graph and queue | queue, graph | `CampaignRecord`, used by API and workers |
| Incident observer (`observer_*.py`, `incident_*.py`, `domain_incident_lifecycle.py`) | lease row, incident document with a version, health circuit | elect, observe, write fenced, heartbeat, release; acknowledge | its operators | `IncidentObserver`, `IncidentHistory` |
| Strix inert sessions (`strix_runner_rpc.py`, `strix_broker_inert_transfer.py`) | prepared sessions, one-use tickets (memory and journal), file chunks, release receipts | prepare, plan, chunk, release, three status queries | broker and runner | `StrixRunner`, `StrixTransfer` |
| Report approval and submission (`report_approval*.py`, `submission_*.py`, `hackerone_api.py`) | events in the campaign document | approve, revoke, mark as submitted, submit to HackerOne | document, artifacts, HackerOne | `ReportSubmission` |
| Report synchronisation (`hackerone_report_sync_worker.py`, `hackerone_report_tracker.py`) | status events in the campaign document | fetch, append | HackerOne | `ReportSubmission` |
| HackerOne batches (`hackerone_batch.py`) | a versioned batch document | reconcile, retry, cancel | campaign start, HackerOne | `BatchCoordinator` |
| Planner lock, decisions, circuit breaker (`planner_lock.py`, `orchestrator.py`, `decision_audit.py`, `circuit_breaker.py`, `campaign_control.py`) | a Redis key with an expiry; observations: decisions in a chain, openings and resets; events about resets | lock, plan, record, unlock; open, reset | queue, graph, document, operator | `PlannerControl` |
| PentAGI workers (`pentagi_*.py`) | jobs, bindings of remote flows, receipts, status snapshots | dispatch, submit, bind, follow | PentAGI | no: preview-only, every dispatch is refused (section 6) |
| Event audit chain and provenance | hashes inside documents | seal, verify | | no: pure functions |
| Planning heuristics, intelligence | none | score | planner | no: the planner's choice is nondeterministic |
| Watchdogs, objectives, alerts | aggregates | compute | | no, but the critical conditions of `queue_recovery.py` are an invariant of `JobQueue` |
| Strix broker, contracts and execution tickets | a rate limit | check, answer | | no: pure checks; execution is switched off |
| What jobs do to a target (browser, recon, lab) | none here | run | the target | no: only their outcomes |
| Rate limit, vault, migration, disaster recovery, front end, deployment | local files or none | operator commands | | no |

### How they interact, and what is hard about it

* **Read, think, write.** Handlers and workers read a document, act elsewhere (queue, graph, remote service) and save the copy they read under the version they read. A save that conflicts is refused or retried a bounded number of times; what was done in between stays done.
* **Two stores, no common transaction.** A request is recorded as an event in the document, the job is put in the queue, and a completion event is recorded: the process may die between any two, and an outbox repair, a repeated request and a late handler may all try to finish it.
* **Calls whose answer is lost.** A report sent to HackerOne and a chunk handed to the Strix runner may have arrived although the caller saw a timeout. Some may be asked about afterwards (Strix), some may not (HackerOne), and none may be done twice.
* **Leases.** A worker keeps a job by a heartbeat thread. A paused or dead worker loses it, the job runs again, and the first worker may still come back with its result. The incident observers elect a leader by a lease with a generation (a fencing token). The planner's lease in Redis has no fence, and some planners do not take it.
* **Stale lists.** Redis operations read a list (stale leases, candidates, members of a campaign) and visit its entries later.
* **Budgets and caps.** Retry budgets, the planner's caps, one-use tickets, full tables, the length of the incident history.

What makes each part correct:

* queue: one owner per job, a spent attempt per grant, at most `max_attempts` grants, terminal is final, one job per dedupe key, every job settles, whatever the workers do;
* campaign: no save loses another; the audit repeats nothing but verdicts and what goes with them; a cancelled campaign does no more work and drains; verdicts are final and rest on evidence; no finding is forgotten;
* observer: no stale leader overwrites; an acknowledgement and an observation do not undo each other; one active incident per domain; an operator acknowledges what the operator was shown;
* Strix: a ticket makes one session while it is valid, across restarts; a broker's success means that the runner verified every byte and let the session go; every transfer ends;
* submission: what is sent was approved in the revision that is sent, and sent once; the remote status arrives, in order;
* batch: the document is consistent, a settled member stays settled, a cancel says what it did, a batch ends;
* planner: one worker plans at a time, decisions form one chain, scans keep their cap, nothing is enqueued while the breaker is open, the audit of resets is true.

`PROJECT.json` lists the hazards these properties are aimed at, each at the line where it bites, and the four that no property covers, with the reason.

## 2. Modules

```
JobLedger                          what a queue promises (abstract)
  ^ implemented by   JobQueue          --- JobQueueProofs
  ^ implemented by   RedisJobQueue     --- RedisJobQueueProofs
CampaignRecord                     document, queue rows, graph, planner
  ^ extended by      CampaignApi, CampaignWorker
      ^ composed in  Campaign          --- CampaignProofs
IncidentHistory
  ^ extended by      IncidentObserver  --- IncidentObserverProofs
StrixRunner                        the runner's tables and operations
  ^ composed in      StrixTransfer     --- StrixTransferProofs
ReportSubmission                       --- ReportSubmissionProofs
BatchCoordinator                       --- BatchCoordinatorProofs
PlannerControl                         --- PlannerControlProofs
MC<module>                         the instances for TLC
```

Mutated forms of an operator (`X_Something`, or `Something_Suffix`, just before `Something`, commented "Mutant") are the plausible bugs that each property is shown to catch.

Where an instance would need several small configurations, the module has a constant set of them (`Scenarios`, `Deployments`, `Bounds`, `Budgets`) and a variable that picks one in `Init` and never changes: one run then covers all of them, and the proofs hold for every set.

### JobLedger

The abstract specification: one row per job, and the legal edges (submitted, granted, returned, settled). One transaction may move several jobs, each along one edge (a lease recovery does). Both queues implement it.

### JobQueue (`jobqueue.py`)

State: `jobs` is the table, `held[w]` the claim worker `w` believes in, `call[c]` where a caller is inside `enqueue`. Every public operation is one transaction under `BEGIN IMMEDIATE`, hence one action; only a deduplicated enqueue is three (`EnqueueLookup`, `EnqueueInsert`, `EnqueueReread`), because the lookup, the insert and the second lookup after an `IntegrityError` are separate transactions. `ClaimAny`, `ClaimAllowed` and `ClaimKind` include the lease recovery that each of them does first. Time is the age of a claim, kept up to one tick past the lease.

`held` is not in the table: it is what the worker process remembers. Without it "the worker lost its job" cannot be said. `Crash` forgets it.

### RedisJobQueue (`redis_jobqueue.py`)

State: the hashes, the sorted sets `queued`, `queued_kind`, `running`, the dedupe index, and inside `worker`, `caller` and `sweep` the lists that an operation has read and not finished. Each WATCH ... EXEC block is one action: it commits only when nothing it watched changed. A claim is `BeginClaim` (take the list of stale leases), `RecoverOne` per entry, `RecoverDone`, then `Head` (role-less) or `Choose` and `Try` per candidate; a cancellation is `CancelBegin` and `CancelOne` per member. A deployment says which workers and callers there are and what they ask for.

### CampaignRecord, CampaignApi, CampaignWorker, Campaign

`CampaignRecord` holds the shared state: `doc` (state, finding statuses, event list) with `version`; `jobs`, one row per dedupe key (validation of a finding, a report for a request, a scan, a recon task or a browser flow planned from a graph fingerprint); `graph`; `rules`, the policy (may it be scanned, at which stages the graph is rich enough, how many jobs at a time); `proc[p]`, where each process is and the copy it holds. The queue itself is the ledger's row: the queue modules justify that.

`CampaignApi` has one operator per step of a handler: a read, a save, an enqueue, a reconciliation are separate actions, because other processes run between them. `HandlerDies` stops a handler anywhere. `CampaignWorker` has claim, load, the body of each kind of job (`Explore`, `ReconTask`, `BrowserFlow`, `WriteReport`, validation), save, the planning that follows, finish, the outcome event, `LeaseExpires` and `WorkerDies`. `Campaign` composes them.

Abstracted: which queued job is claimed (any); what the planner picks among admissible jobs (any set it could enqueue, with its guards and caps); how the graph grows (three successive fingerprints, `Stages`); what a scan finds (any subset of `Findings`). Each client makes one request. The evidence and validation observations of a verdict are one put, the provenance check is part of `Load`, and a verdict reads graph and document in one step.

### IncidentHistory, IncidentObserver

`IncidentHistory` holds the pure document functions: `apply_domain_incidents` domain by domain, with the cap, and `acknowledge_incident`. Timestamps are document versions (`opened_at`), and an incident's severity is a function of its fingerprint.

`IncidentObserver` has the lease row, the document and its version, the pass of each observer, the heartbeat threads of each process, health, and the operators. A pass is `Elect`, `Observe` or `LoseLead`, `Read`, then `Commit` or `Conflict`, then `Judge`, `Raise` or `Overrun`, and `Leave`. `Commit` is the fenced, versioned transaction of `incident_store.py`. An operator looks (`Look`), then acknowledges in two transactions (`AckRead`, `AckWrite`). A `Crash` loses threads and health, and leaves the lease to expire. A heartbeat already past its stop check may still renew (`StopHeartbeat` is an action of its own).

Time is what is left of the lease and of a cooldown. The length of the lease does not matter to the properties, since `Tick` may happen at any time relative to the other steps.

### StrixRunner, StrixTransfer (`strix_runner_rpc.py`, `strix_broker_inert_transfer.py`)

`StrixRunner` holds the runner's tables. Sessions, the tickets in memory and the release receipts die with the process; the journal of consumed tickets survives it, with the expiry of each ticket. A call is a record with the operation, the session, the file and offset it carries and the time in its signature; the runner refuses it outside the window of that time. File contents are chunks that are the manifest's or something else, and a digest is the sequence of them.

`StrixTransfer` adds the broker. It sends one call at a time; `calls` are those on their way. `GiveUp` is the five-second timeout: the call stays in `calls` and is served later or never. What follows a lost answer is the broker's reconciliation: it asks for the preparation status, the plan or chunk proof, the release status, and goes on only with what the runner proves. Another caller that holds the transport key may call as well; `RestartRunner` forgets the memory; `TimePasses` expires tickets, sessions and signatures.

### ReportSubmission (`submission_api.py`, `report_approval_api.py`, `hackerone_api.py`, `hackerone_report_sync_worker.py`)

State: the events of one report, the current `basis` (what `report_basis_digest` covers), the submitters inside a direct submission, the reports HackerOne holds, and what the sync worker fetched. A read and its versioned save are one step, since a handler whose version moved answers 409 and changes nothing (`NothingLost` of the campaign is about the check itself); what lies between two saves of one handler, or outside the document, is a step of its own. A direct submission is `Attempt` (the attempt event is saved first), the post, which is accepted, refused or has an unknown outcome, then `RecordAccepted` or `RecordRefused`, or `Abandon`. The worker is `Fetch`, then `Sync` or `SyncLost`.

### BatchCoordinator (`hackerone_batch.py`, batch handlers of `hackerone_api.py`)

State: the batch document with its version, the campaigns as far as a coordinator sees them (state, start requests, job counts), and each coordinator's copy. A reconciliation is `Read`, the settling of running members, `Revalidate` (HackerOne is asked whether the program still stands), the start of the campaign (`Ask`, `Plan`, then `Confirm`, `Refused`, `Conflict`, `Forbidden` or `Broken`), and `Save`. Campaigns are started before the save, so a refused save or a death (`Dies`) leaves campaigns behind that the document calls ready. A cancellation reads, cancels the members' campaigns one by one and saves. The campaigns go on by themselves: their jobs (`Claimed`, `Scanned`, `FollowedUp`, `Finished`, `Requeued`; a scan run again reopens a completed campaign, since only a cancelled one is left alone), the handler of a last verdict in its four steps (`Judged`, `Overrules`, `Reported`, `Recorded`), of which the second completes the campaign whatever its state, a cancelled one included (`main.py:1806`), `CampaignCancelled`, and the planner's reasons to stop: `RuntimeSpent`, a job that failed, and `Stopped`, an open breaker or a used-up budget, until `Resumed`. `PlannerRefuses` collects these reasons; a start it refuses is answered 409 like a conflict.

### PlannerControl (`planner_lock.py`, `orchestrator.py`, `decision_audit.py`, `decision_timeline.py`, `circuit_breaker.py`, `campaign_control.py`)

`CampaignRecord` has the planner as one step that enqueues; this module has what happens inside it. State: the lease (`lock`), the part of the graph that planning reads and writes (the decisions with their sequence numbers and links, the breaker's openings and resets, how far the rest has grown), the jobs planners have put, each planner inside `advance_campaign`, each operator inside the reset handler, the campaign's events about resets, and a clock of which every `utcnow()` takes the next value.

A planning is `Acquire` (a worker, with Redis) or `BeginUnlocked` (`POST /start`, or a SQLite queue), `Load`, the checks for an open breaker, an unstable history and a spent runtime (`CheckStops`, `CheckPasses`), a second read of the graph, `Seed` and `Reload` for an empty one, the plan (`PlanStops`, `PlanGoes`), one `Enqueue` per job, `Record`, and `Unlock`. A stop opens the breaker in three steps: the time is taken (`Stamp`), the graph read (`TripSkips`, `TripReads`), the event put (`TripPut`). A reset is read, look, request, stamp, second read, put and completion (`ResetRead` to `ResetComplete`). Between any two steps others go on, a planner or handler may die (`Dies`, `ResetFails`) or the lease expire (`Expire`).

Abstracted: which admissible job a plan contains and why it stops are choices; a job is its kind and the fingerprint of the graph it was planned from, which is its dedupe key; a decision is its action, reason and fingerprint, which is its id, and its link names the decision before it in place of the hash. `overlapped` and `lost` are history: have two plannings run at once, and whose lease has run out.

## 3. Runs

All runs use two TLC workers. Numbers are distinct states.

| Run | Instance | States | What it shows |
|---|---|---|---|
| `queue` | 2 workers, 2 jobs, 2 callers, one dedupe key with 2 payloads, budget 2, lease 1; fairness | 79 k | the queue never holds a row that `queue_recovery.py` calls critical (`NoCriticalIssue`); one job per key (`DedupeExact`); a worker that lost its claim writes nothing (`StaleClaimHarmless`); `ImplementsLedger`; `EveryJobSettles` |
| `redis` | two deployments: a role-less and a scanner worker; a dedicated worker with 2 callers racing for one key | 811 k | sorted sets, dedupe index and hashes agree after every EXEC, though recoveries and sweeps walk old lists (`IndexesAgree`); `LeaseNotStolen`; `ImplementsLedger` |
| `campaign_control` | 2 clients that start, cancel, ask for a report or repair the outbox, 1 worker, 1 fault; fairness | 437 k | racing starts share one pending request (`OnePendingStart`); a completion has its request and its job (`CompletionsBacked`); no save loses another (`NothingLost`); after a cancel nothing that was idle is done (`NoWorkAfterCancel`), the cancel sticks while there are no findings (`CancelledIsFinal`), and the campaign drains (`CancelledDrains`) |
| `campaign_evidence` | 2 clients that start, add and judge a finding or repair the outbox, 1 worker, 1 fault, a scan that may run twice | 1.8 M | a verdict rests on an observation (`VerdictHasEvidence`) and is final (`VerdictIsFinal`); a finding has its validation job or a request for it (`NoForgottenFinding`); the audit says nothing twice but verdicts, refused starts and, directly behind a verdict, the request for the completion's report (`AuditSaysOnce`) |
| `observer` | 2 observers, 1 operator, history 3, version 4, generation 2 | 487 k | a leader whose fence holds has read every observation (`LeaderSeesAllObservations`); `OneActivePerDomain`; a live lease ends only by its holder's pass (`LeaseEndsOnlyByHolder`); incidents only move on (`HistoryKept`); an acknowledgement hits what was shown (`AckedWasShown`) |
| `strix_transfer` | one transfer of two files with a restart and two calls of others; two transfers of one manifest without files; fairness | 313 k | `TicketUsedOnce`; a broker's success was verified and released by the runner (`SuccessMeansVerified`); `SessionsNotShared`; `EveryTransferEnds` |
| `report_submission` | 2 reviewers, 2 submitters, the sync worker, 3 bases; fairness | 247 k | `OnePostPerApproval`; `PostedWasApproved`; statuses are appended in their order, no older answer over a newer one (`SyncedInOrder`); a change at HackerOne reaches the campaign (`RemoteChangeArrives`) |
| `batch` | 2 campaigns, a worker and a GET handler, both modes, cancels, verdicts, planners that stop; fairness | 305 k | `DocumentConsistent`; a cancelled batch names exactly what it cancelled, but for a campaign that a verdict completed after its cancel (`CancelIsHonest`); `SettledStays`; it ends, unless the planner refuses a member about to start again and again (`BatchEnds`) |
| `planner` | six deployments: 2 workers under the lease; a worker and a start; 2 workers without a lease; a worker with 1 or 2 operators; 1 to 3 plannings, up to 1 fault | 2.5 M | two workers plan at once only after a lease ran out (`LeaseExcludes`); the audit of resets is true (`ResetAuditTrue`); and as long as no two plannings have overlapped, decisions form one chain (`DecisionsChain`), scans keep their cap (`ScansCapped`), nothing new is enqueued while the breaker is open (`NothingWhileOpen`) |

Three runs end in a counterexample, since they state what the repository says and the code does not do (section 5): `campaign_uncancelled` (`CancelledIsFinal`), `submission_resend` (`SubmittedIsWhatWasSent`), `batch_waits` (`NextIsStarted`).

### Bounds, and why they are enough

* Queues: `MaxBudget = 2`: a job that is granted, lost, granted again and lost for good; a third attempt repeats the second. `Lease = 1`, `MaxTime = 1`: a lease may be alive or expired at every step; longer leases add no order of events. Two jobs: one that competes for the head of the queue, or for a key, with another. `MaxTries = 2` rounds of `claim_allowed` (32 in the code).
* Campaign: two clients and one worker; the shortest counterexamples of the mutants need two processes. Where a third matters (a re-run scan, a cancel and a verdict) the violation run has three clients. One fault (death, lost lease or failed work) suffices for a retry that races with its first run; the expiry of an abandoned lease is free. `MaxTries = 2` (3 in the code): a compare-and-save loop that conflicts once and then succeeds or gives up. `MaxScans = 1`, and one or three jobs in flight: the caps bind. Three graph fingerprints, so a scan can be planned from two of them.
* Observer: `MaxVersion = 4`, `MaxGeneration = 2`: a fail-over with writes before and after it, and a rotation, a recovery and an acknowledgement in one history. `MaxHistory = 3` is smaller than the number of incidents four writes can open, so the cap bites. Snapshots: all healthy, two of the three domains unhealthy, one of them rotated with the other recovered; the third domain is symmetric to the second in the code. `Ttl`, `Cooldown`, `Threshold` 1, two tries.
* Strix: a ticket lives one tick, a session two, a signature one, and the clock goes to 3, so each may end before, between or after the others. Two sessions, two tickets, one receipt: a second release evicts the first receipt. One-chunk files: order and repetition within a transfer show with two of them.
* Submission: an approval, an attempt, its outcome, a revocation and a second approval are five events; the second cycle with its own report, recorded while the worker may still hold what it fetched of the first, needs eight. Two activities at HackerOne so that they can be synchronised out of order.
* Batch: two members, two rounds of the compare-and-save loop (3 in the code), two attempts of a member (8 in the code): each limit is reached.
* Campaign audit: a repeated verdict needs a finding and two reviewers, a third client that the run does not have. There `AuditSaysOnce` is the theorem's (`AuditIsOnce`), not the run's.
* Planner: three plannings, so that a lease is lost, taken and released late; three scans as the cap, with two engines, so that the second planning finds room for one; two operators that cross each other and an opening. The graph grows at most once beyond the seed (`MaxFacts`): two fingerprints, hence two keys for each kind of job. Expiry of a lease whose holder has finished or died is free; expiry under a planning holder, deaths and failed saves share the one fault.

Deadlock is checked in `queue`, `redis` and `observer`. It is off elsewhere, where the system really stops: every client has made its request and no job, call, batch member or planning is left.

Symmetry is used only in the observer run, which has safety properties only, and permutes the observers.

### Fairness

* `JobQueue!LiveSpec`: weak fairness of a worker's claims, of the end of its job, and of time. Workers poll for ever (`worker_service.py:652`) and the container is restarted unless stopped (`docker-compose.yml`); a job body is bounded by its own time limits. A crash needs no fairness: it may happen or not.
* `Campaign!FairSpec`: a handler that started goes on, a worker that works goes on and claims while something can be claimed, and an abandoned lease runs out. No fairness of requests, faults, or of expiry while the worker still beats.
* `StrixTransfer!FairSpec`: weak fairness of `GiveUp` alone, the socket timeout. The runner need never answer.
* `ReportSubmission!FairSpec`: the worker's loop goes on (weak fairness of `Fetch`), and not every round of it is lost (strong fairness of `Sync`): a round fails on a conflict or on an unreachable service, and is repeated at the next interval.
* `BatchCoordinator!LiveSpec`: weak fairness of a coordinator's steps and of the campaigns' jobs; strong fairness of `Revalidate` and `Save`, which may fail (the service is down, the version moved) but not for ever. No fairness of verdicts, cancels, resumptions or faults. `BatchEnds` is about behaviours in which the planner does not for ever come back to refusing a ready member whose campaign could be started (`Stuck`): a spent runtime, a failed job, an open breaker and an exhausted plan all refuse, are answered 409, and are retried without limit, so that such a batch really never ends (section 5).
* `PlannerControl` has no fairness and no liveness property: a planning may be abandoned anywhere, and nobody is obliged to reset a breaker.

`EveryJobSettles`, `CancelledDrains`, `EveryTransferEnds`, `RemoteChangeArrives` and `BatchEnds` are the liveness properties and hold under exactly these.

## 4. Proofs

Eight proof modules; tlapm checks every leaf. All theorems hold for sets of any size of workers, clients, observers, jobs and so on, and any bounds, under the named assumptions of the modules. In each module one lemma per action shows that the step keeps an inductive invariant `IInv` and does whatever the action properties ask of a step; the theorems follow from those.

### JobQueueProofs

Assumption `QueueAssumption`: bounds are naturals, plans stay within the budget, `NoWorker` is no worker.

`IInv` is the type of table, claims and callers, plus two relations that neither the type nor the properties give alone: a row's attempts stay below its budget while it is queued (`NoCriticalIssue`, inside `TableOK`), and a claim `held[w]` whose attempt number equals the row's is the row's owner, with the converse (`LatestClaimOwns`, `OwnerHoldsLatest`). The first is needed since a claim adds one attempt: from the type alone that could pass the budget. The second pair must be carried together: a lease recovery preserves the first only because it clears the owner, and a claim preserves the second only because it raises the attempt above what any worker holds.

* `TypeCorrect`, `QueueConsistent`, `OwnershipSound` follow from `IInv`.
* `StaleWorkersHarmless`: a worker whose claim is not the latest is not the owner, so `Settle` finds no row and changes none.
* `QueueImplementsLedger`: each action moves each row along a legal edge or leaves it (`StepEdges`); the edges of a recovery and of the grant in the same claim compose.
* `DedupeCorrect`: only the insert adds a row, and it does so when no row bears the key; every other action keeps every plan (`WorkKeepsPlans`).

### RedisJobQueueProofs

Assumption `RedisAssumption`: bounds are naturals, plans stay within the budget, a deployment serves known kinds.

`IInv` is `TypeOK`, the exact dedupe index, per job that the sorted sets agree with the hash (`RowsOK`), and per worker that a recovery's cutoff is at most `now - Lease` (`WorkersOK`). Beyond `IndexesAgree`, `RowsOK` says that a queued job has budget left and that only a running job names a worker. Nothing is said about the lists that workers and sweeps hold: each block checks the entry again, and that is enough. In particular the repairs inside `claim` never find anything to repair.

* `IndexesCorrect` follows from `IInv`; the dedupe part rests on the lookup and the insert being one block.
* `LeasesKept`: a recovery takes a job only when its score, read again, is not above a cutoff that time has only made older.
* `RedisImplementsLedger`: every block moves one hash along one edge (`HashEdge`), and every such edge is an edge of the ledger (`AbsEdge`).

### CampaignProofs

Assumption `RecordAssumption`: clients and workers are distinct, tries and caps are positive, there are finitely many findings and clients.

`IInv` says of the shared state (`SharedOK`) that the document, the graph and the job rows have their types, and that verdicts have observations and findings their job or request (`Backed`); and of every process (`ProcOK`) that it holds a document (`IsLocal`), that its version is at most the current one and if it is equal the copy is the document (`CopyOK`), and what it has already done elsewhere at the place it is at (`LocalOK`: a scan that is about to save has enqueued the validations of what it found, a verdict about to be saved has its observation). `CopyOK` turns the comparison of numbers in `save_campaign` into "what is overwritten is what was read"; `LocalOK` carries facts across the steps between the act and the save.

* `NothingIsLost`, `VerdictsStand`: every save extends the document it replaces.
* `VerdictsRest`, `FindingsKept` follow from `Backed`.

A second layer, `AInv`, is about the audit. It says of the document (`EventsOK`) that a completion follows its request and names a known job, that one start is pending at most, that an announced finding is present, that what is said once in every scenario is there once (`Once`; not the cancel and not the completion's request), and that the completion's request is repeated only behind a verdict (`Repeats`); of a handler (`ClientOK`), place by place, which request the document has had since it was recorded and which event its own copy lacks; of a worker about to log (`WorkerOK`), that its copy lacks the outcome. `NewsOK` is what makes an event appendable to a copy, and with `CopyOK` what is news to a copy that may be saved is news to the document. It is inductive only together with `IInv`.

* `CompletionsAreBacked`: the request is in the document before the handler enqueues, and the enqueue precedes the reconciliation; a repair completes only what it found known.
* `OneStartPends`: the version check makes of two starts that saw no pending request one that conflicts, reads again and joins.

A third layer is about the cancel. `FromOpen` (in `AInv`) says that whoever is about to save anything but an outcome or the completion that follows a verdict read a campaign that was not cancelled; a save that is not refused then replaces a campaign that is not cancelled either.

* `CancelHoldsButForReviews`: a cancelled campaign stays as it is, but for the outcomes of its jobs, in every step other than a review's completion (`Ensure`), for all scenarios. It has no hypothesis, and it names the one step that breaks the promise: section 5.
* `CancelIsFinal` and `CancelStopsWork` are for sets of scenarios in which nobody reviews (`NoReview`); `campaign_uncancelled` shows the first false without that. `CInv` holds then: a document that is not cancelled has no idle jobs and no cancel in its audit (`DocOK`), and no job that was idle at the cancel is completed, or held by a worker past the look at the campaign (`IdleOK`). A worker that claims such a job later reads the cancel first.
* `AuditIsOnce` is for scenarios in which nobody reviews or at most one client cancels (`OneCancel`): once a cancel is overwritten, cancelling again logs it again. `KInv` carries the case of the single cancel. The property and the theorem name one exception: the request for the completion's report, which `validate_finding` (`main.py:1790-1801`) appends without `has_event` behind every verdict that leaves no finding open. A second validator who repeats the last verdict hence asks for the report again; `Repeats` in `AInv` shows that nothing else does. Verdicts and starts that the policy blocks (`finding_validated`, `campaign_blocked`) are told each time and are outside the property.

### IncidentObserverProofs

The first part is about the pure functions of `IncidentHistory`: a transition of one domain settles its last active incident, opens at most one and touches no other domain (`ApplyDomainKeeps`); the cap only drops the oldest; `ApplyKeeps` and `AcknowledgeKeeps` compose them.

Assumption `ObserverAssumption`: positive lease length, threshold, retries; snapshots are well typed; `NoOwner` is no observer.

`IInv` is `TypeOK`, the document is a capped history with at most one active incident per domain (`DocOK`), every writer's copy is an earlier document (`CopyOK`, as above), and `LeaderSeesAllObservations`. The version check of `IncidentStore.write` compares numbers, and only with `CopyOK` does an equal number mean that what is overwritten is what was read.

* `TypeCorrect`, `OneActiveCorrect`, `LeaderSeesCorrect` follow from `IInv`.
* `HistoryCorrect`: a commit or acknowledgement whose version holds is computed from the current document, and the functions only move incidents on.
* `LeaseEndsCorrect`: only `Leave` releases, and it releases the generation it acquired.
* `AckedShownCorrect` needs more, `NInv`: a domain and the version at which it was opened name one incident, older than the current version (`Named`; a commit opens one incident at most in each of the three domains, which is why the name includes the domain), and a request whose expected version is still current was shown every incident open for its fingerprint (`ShownOK`). A commit of an observer acknowledges nothing (`AckedBefore`), and an acknowledgement only what was open in the document it replaces (`AcksOpen`).

### StrixTransferProofs

Assumptions `RunnerAssumption` and `TransferAssumption`: positive lifetimes and capacities, finitely many session identifiers, well-typed manifests.

`IInv` is `TypeOK`; what waits for the runner's lock is a prepare call (`AdmittedGood`); a transfer that has not started has left no trace (`Unstarted`); a valid ticket that made a session is in the journal (`Journalled`); a transfer and the calls in its name work on the session made for it (`OwnSessions`); a live session holds the identity of its ticket, and what it calls verified is genuine (`SessionsGood`); releases and receipts are of sessions made for that transfer (`ReleasesGood`); and a transfer that is about to release without a fault has a session whose files are all verified (`ProgressGood`). `Journalled` is what survives a restart: the tickets in memory do not.

* `TypeCorrect`, `OneSessionPerTicket`, `NoSharing`, `SuccessIsProven`.

### ReportSubmissionProofs

Assumption `SubmissionAssumption`: well-typed bases, activities and bounds.

`IInv` describes the event list: its form (`LogOK`), at most one request under way, with the latest attempt (`OneActive`), one report at most for an attempt and none for a rejected one (`OneReport`), rejections after their attempt (`RejectedAfter`), an acceptance recorded together with the submission (`AcceptedIsSubmission`), an approval between a report and the next attempt (`Separated`), and before every attempt an approval of what it sends, not revoked since (`Backed`).

* `PostedCorrect`, from `Backed`: every report accepted at HackerOne had been approved in the revision that was sent.
* `OnePostCorrect`, from `OneReport` and `Separated`: two accepted posts have an approval between them.

The sync worker has an invariant on top, `SyncInv`: the report it follows is the latest recorded, and a report accepted but not recorded yet is later than that (`SubmissionOK`, which needs `OneActive`); what it fetched is of a report recorded by now and had happened to it (`FetchOK`); so had every recorded event when the worker last fetched its report (`EntryOK`); the recorded events of each kind ascend by report and then by activity (`Sorted`); and no comment is recorded before an earlier one of its report (`NoGap`: without it a comment recorded late would stand after a later one).

* `SyncedCorrect`, from `Sorted`. `FollowedAdvances`: the followed report never goes back.

### BatchCoordinatorProofs

Assumption `BatchAssumption`: a batch has a member, a member has an attempt, the scenarios are well typed.

The document is only ever replaced by a copy, so `IInv` says what the document and every copy satisfy alike (`MembersOK`: a retry is pending only for a ready or cancelled member, one member of a sequential batch runs at a time, a cancelled member has a cancelled campaign unless its reason says why not or a verdict overruled the cancel), and what a copy knows in addition: a coordinator settles members that run and starts members that are ready, alone in a sequential batch, and a copy whose version is still current has touched nothing the document calls settled (`LeavesSettled`); a cancellation's copy differs from a current document only in what it cancelled. The state of a batch that is not cancelled is the one its members imply.

* `TypeCorrect`, `DocumentCorrect`, `CancelHonestCorrect` follow from `IInv`; the last also from that a campaign comes back from cancelled in one step only, the completion that follows a last verdict, which marks it `overruled` (`Overrules`, `Held`).
* `SettledStaysCorrect`: from `LeavesSettled` at `Save`, the only step that replaces the document besides the cancel.

### PlannerControlProofs

Assumption `PlannerAssumption`: workers and handlers are disjoint, `Nobody` plans nothing, finitely many engines, a positive cap.

`TypeCorrect` comes first and carries the clock: no stamp is ahead of it. Three invariants, each inductive together with the types:

* `HolderPlans`: with Redis, a worker that plans holds the lease or has lost it in this planning. A late release compares tokens, so it cannot end another holder's. `LeaseCorrect` follows.
* `AloneInv`: until two plannings overlap, one planner at most is between its first read and its decision (`OnePlans`); its copy then is the graph but for growth, so the link it puts is to the last decision, and the decisions so far form a chain (`Chain`); the scans put plus those it still plans stay within the cap (`Capped`); and no opening of the breaker was put since it looked, unless by itself on its way to a stop (`Undisturbed`: operators only put resets). `ChainCorrect`, `ScansCorrect` and `BreakerCorrect` follow. A planner that dies leaves jobs without a decision, which neither breaks the chain nor the cap, since the cap counts jobs.
* `ResetInv`: `ResetAuditTrue` and what an operator's handler knows at each of its places (`Knows`): the request it completes is in the audit, a reset it is about to stamp will be later than the opening it names, and a completion comes after a reset no earlier than that opening. `ResetCorrect` follows.

### Model-checked only

Every safety invariant, action property and refinement of a passing run is a theorem above; for the campaign, `CancelledIsFinal`, `NoWorkAfterCancel` and `AuditSaysOnce` under the hypotheses named there. What stays with TLC is liveness: `EveryJobSettles`, `CancelledDrains`, `EveryTransferEnds`, `RemoteChangeArrives`, `BatchEnds`. The prover has no rule for fairness or `ENABLED`.

The three violated properties of section 5 are counterexamples of TLC; nothing is proved about them but what remains true (`CancelHoldsButForReviews`).

## 5. Disagreements between the code and what the repository says

* **`campaign_uncancelled`** (`main.py:1806`). `tests/test_campaign_cancel.py:134` says a cancelled campaign rejects new mutations. After the last verdict is saved, `validate_finding` reads the campaign again without asking for cancelled and completes it. A re-run scan that moved the campaign out of completed, then a cancel, both between the two reads, are overwritten by completed. `CancelledIsFinal` does hold where nobody reviews (`campaign_control`, `CancelIsFinal`), and `CancelHoldsButForReviews` shows that this is the only step that overwrites a cancel.
* **`submission_resend`** (`hackerone_api.py:2155`). After the post the campaign is read again and `report_submitted` appended without another look at the approval. When the findings were edited and the report approved again meanwhile, `submission_status` finds the submission after the latest approval and answers submitted for a basis that was never sent; `tests/test_submission_state.py:93` asserts that a submission made before a re-approval leaves the report approved.
* **`batch_waits`** (`hackerone_batch.py:154`). The runtime limit of a campaign counts from the launch of the batch. A sequential member that waited longer is refused by the planner with its campaign still ready, which `_start_member` takes for a conflict to retry: it stays ready for ever, the batch never ends, and no new batch may be launched. The repository's `README.md:353` says that the next campaign is started when the one before has drained.

Seen while modelling, without a run of their own:

* the cap of the incident history drops the oldest entries whatever their status (`domain_incident_lifecycle.py:65`), so a domain that comes and goes long enough evicts the active incident of a quiet one; `docs/DOMAIN_INCIDENT_LIFECYCLE.md:11` says incidents of other domains remain active;
* `POST /start` plans without the lease, and a SQLite queue has none (`main.py:1305`, `planner_lock.py:32`). Two plannings that overlap link their decisions to the same predecessor under one sequence number, and `verify_decision_audit_chain` fails from then on; `planner_lock.py:25` says that SQLite needs no lease. They also count the same jobs and enqueue under different keys when they saw different graphs, so the cap on scans is passed (`orchestrator.py:805`). When both record one decision, the store refuses the second, whose time differs (`orchestrator.py:628`), after its jobs were enqueued. This is why three properties of `planner` are stated for plannings that have not overlapped;
* a stop that is followed by any other decision counts as unstable for good (`decision_timeline.py:131`): the next planning after a reset of the breaker opens it again, and so does the one after that;
* openings and resets are ordered by time stamps that are taken before the graph is read (`circuit_breaker.py:17`): an opening stamped before a concurrent reset is put but does not count, and neither does an opening that a second operator's late reset follows;
* a reset whose completion is lost leaves its request pending, and the reset of the next opening is recorded under the request of the old one (`campaign_control.py:205`);
* a second validator who repeats the last verdict has the completion's report requested twice in the audit (`main.py:1792`);
* a scan without findings that completes the campaign before its start is recorded leaves the start's request pending as long as the campaign stays completed (`main.py:1241`): neither another start nor a repair of the outbox is admitted;
* `batch_waits` has more causes than the runtime: the planner also refuses after a failed job (`orchestrator.py:837`), with an open breaker (`orchestrator.py:721`), a used-up budget, or nothing to plan. Each is answered 409 and retried without limit by `_start_member`; `BatchEnds` is hence stated for batches in which that does not go on for ever.

## 6. Not modelled, and why

* PentAGI flows (`pentagi_worker_service.py`, `pentagi_status_tracker.py`, the dispatch handler). At this commit they are a preview: `build_pentagi_flow_plan` sets `dry_run` and clears `execution_supported` (`pentagi_adapter.py:164`), `evaluate_pentagi_admission` refuses such a plan (`pentagi_admission.py:107`), and the dispatch handler answers 409 before it records or enqueues anything (`main.py:882`), whatever the configuration; the repository's `README.md:445` and `tests/test_pentagi_control_api.py:56` say the same. No process enqueues a `pentagi_flow` job, so the workers never have one, and a model of them would be about states the program cannot reach. What does exist of them is the queues' `claim_kind` and the exclusion of dedicated kinds, in `JobQueue` and `RedisJobQueue`.
* In the parts that are modelled: the legacy `api:start` job and the refusal of a finding reported again with other content; policy edits, review metadata and text artifacts; the dispatch of a browser flow by an operator; the planner's reports (they require a human and are never enqueued); repeat validation. In the observer, `run_incident_observation` and `apply_incident_snapshot`, which nothing under `app/` calls, and the 2 MiB limit of the document. Of batches, admission, the rollback of a launch that fails and the lock that admits one batch at a time: a behaviour begins with the batch saved. Of the planner, the refusal of a reset for a closed campaign and the snapshots of hypotheses and memory that a planning writes beside its decision.
* Program snapshots, scope import and intelligence from HackerOne, which read a service and keep nothing that another step changes. Strix contracts, command admission and execution tickets: pure checks of what the code then refuses to run.
* No process assigns the campaign state `failed`; a start from it is therefore never enabled.
* SQL, files and PostgreSQL: the compare-and-swap is one step. Hashes, signatures, policies and digests are inputs of guards; the campaign's event chain seals events that the models keep as they are.
* Claim order within the campaign model is arbitrary, hence nothing is said about starvation between jobs.
* What jobs do to a target (browser, recon, lab, normalisation of scanner output), planning scores, watchdog aggregates, rate limits, vault, migration, disaster recovery and the front end are the larger part of the repository's lines and have no state that a later step of another process reads; a model of them would restate a function.

## 7. Plan

Written: the ledger and both queues, the campaign, the observer, Strix transfers, report submission, batches and the planner, each with a proof module, and a theorem for every safety property of a passing run.

Next, most important first:

1. `BatchLaunch`: admission, creation of the campaigns and rollback of a launch that fails, with the lock, in front of `BatchCoordinator`.
2. The campaign's queue as an instance of the ledger: that its rows follow the ledger's edges, so that the composition of `Campaign` with either queue is a theorem and not an argument.
3. PentAGI flows, once the dispatch admits any.
