------------------------------ MODULE Campaign ------------------------------
(***************************************************************************)
(* One campaign with its control plane and its workers: what the handlers  *)
(* of CampaignApi and the workers of CampaignWorker guarantee together.    *)
(***************************************************************************)
EXTENDS CampaignApi, CampaignWorker

Next ==
    \/ \E c \in Clients : Handler(c) \/ HandlerDies(c)
    \/ \E w \in Workers : Work(w) \/ WorkerDies(w)
    \/ \E w \in Workers, k \in JobKeys : Claim(w, k)
    \/ \E k \in JobKeys : LeaseExpires(k)

Spec == RecordInit /\ [][Next]_vars

\* Handlers run to their end, workers poll for ever, and a lease nobody keeps
\* alive runs out.
Fairness ==
    /\ \A c \in Clients : WF_vars(proc[c].pc # "ready" /\ Handler(c))
    /\ \A w \in Workers : WF_vars(Work(w)) /\ WF_vars(\E k \in JobKeys : Claim(w, k))
    /\ \A k \in JobKeys : WF_vars(Abandoned(k) /\ LeaseExpires(k))

FairSpec == Spec /\ Fairness

-----------------------------------------------------------------------------
(* Types.                                                                  *)

Requests == JobKeys \cup StartKeys

Events ==
    [type : {"requested", "reconciled", "received", "validated", "processed",
             "dry_run", "blocked", "cancelled"},
     kind : {"start", "validation", "report", "scan", "recon", "browser", "none"},
     of   : Findings \cup Clients \cup Stages \cup {"completed", "none"}]
    \cup
    [type : {"worker_outcome"},
     kind : {"validation", "report", "scan", "recon", "browser"},
     of   : Findings \cup Clients \cup Stages \cup {"completed"},
     status : {"queued", "completed", "failed", "cancelled"}]

IsDocument(d) ==
    /\ DOMAIN d = {"state", "findings", "events", "idle"}
    /\ d.state \in States
    /\ d.findings \in [Findings -> Statuses]
    /\ d.events \in Seq(Events)
    /\ d.idle \subseteq JobKeys

\* The document, the queue, the graph and the processes have their types.
TypeOK ==
    /\ IsDocument(doc)
    /\ version \in Nat
    /\ jobs \in [JobKeys -> [status : {"absent", "queued", "running", "completed",
                                       "failed", "cancelled"},
                             attempts : 0..MaxAttempts,
                             owner : Workers \cup {NoWorker}]]
    /\ graph.found \subseteq Findings /\ graph.attempted \subseteq Findings
    /\ graph.observed \subseteq Findings /\ graph.scanned \in BOOLEAN
    /\ graph.stage \in Stages
    /\ rules \in {s.rules : s \in Scenarios}
    /\ \A p \in Processes :
         /\ proc[p].req \in Requests \cup {Key(kind, "none") : kind \in RequestKinds}
         /\ IsDocument(proc[p].doc)
         /\ proc[p].ver \in Nat
         /\ proc[p].plan \subseteq JobKeys
         /\ proc[p].seen \subseteq Findings
         /\ proc[p].tries < MaxTries

-----------------------------------------------------------------------------
(* Properties.                                                             *)

IsPrefixOf(s, t) == Len(s) <= Len(t) /\ SubSeq(t, 1, Len(s)) = s

\* No save loses another one: the event list, which is the campaign's audit
\* chain, is only ever extended, and no finding is ever dropped, though every
\* process saves the copy it read some steps ago (save_campaign with
\* expected_version, in storage_core.py and behind every handler and worker).
NothingLost ==
    [][ /\ IsPrefixOf(doc.events, doc'.events)
        /\ Present(doc) \subseteq Present(doc') ]_doc

\* Cancelled is final: no handler, worker or retry that read the campaign
\* before the cancel moves it, its findings or its audit afterwards; only the
\* outcomes of jobs that were running are still logged.
CancelledIsFinal ==
    [][ doc.state = "cancelled" =>
          /\ doc'.state = "cancelled"
          /\ doc'.findings = doc.findings
          /\ \A i \in DOMAIN doc'.events \ DOMAIN doc.events :
               doc'.events[i].type = "worker_outcome" ]_doc

\* A verdict is final, and was given on evidence: a confirmed or rejected
\* finding is never reopened by a scan or a validation that read it before,
\* and the graph holds an independent observation of it.
VerdictIsFinal ==
    [][ \A f \in Findings :
          doc.findings[f] \in Resolved => doc'.findings[f] = doc.findings[f] ]_doc

VerdictHasEvidence ==
    \A f \in Findings : doc.findings[f] \in Resolved => f \in graph.observed

\* What the audit says once it says once: a request, its completion, a
\* finding's arrival, a job's result and the cancel appear at most one time,
\* whatever was retried, repeated or repaired.  Three things are told again by
\* design: every verdict, every refused start, and the request for the completion's
\* report, which validate_finding appends without has_event behind every verdict
\* that leaves no finding open, so that a second validator of the last finding asks
\* for it again.  It is asked for again in no other place.
SaidOnce(e) ==
    e.type \in {"requested", "reconciled", "received", "processed", "dry_run",
                "cancelled", "worker_outcome"}

WithAVerdict(i) ==
    /\ doc.events[i] = Requested(Completion)
    /\ i > 1 /\ doc.events[i - 1].type = "validated"

AuditSaysOnce ==
    \A i \in DOMAIN doc.events :
      SaidOnce(doc.events[i]) /\ ~WithAVerdict(i) =>
        \A j \in 1..(i - 1) : doc.events[j] # doc.events[i]

\* The outbox is sound: a completion event follows its request and, unless it
\* is a start's, names a job that is in the queue.
CompletionsBacked ==
    \A i \in DOMAIN doc.events :
      LET e == doc.events[i]  k == Key(e.kind, e.of) IN
      e.type = "reconciled" =>
        /\ \E j \in 1..(i - 1) : doc.events[j] = Requested(k)
        /\ k \in StartKeys \/ Known(k)

\* No finding is forgotten: what the document holds has its validation job in
\* the queue, or the request the outbox will show, because a scan enqueues
\* before it saves and a handler saves before it enqueues.
NoForgottenFinding ==
    \A f \in Present(doc) : Known(Validation(f)) \/ Has(doc, Requested(Validation(f)))

\* Starts that race or are repeated share one request: there is never more
\* than one start the audit still waits for.
OnePendingStart == Cardinality(PendingKeys(doc, StartKeys)) <= 1

\* A job that is still in the queue, or not even there, when the campaign is
\* cancelled is never completed: whoever claims it sees the cancel first.
NoWorkAfterCancel == \A k \in doc.idle : ~Completed(k)

\* A cancelled campaign drains: every job, also the ones enqueued by a handler
\* that had checked before the cancel, leaves the queue for good.
CancelledDrains ==
    <>[](doc.state = "cancelled") => <>[](\A k \in JobKeys : ~Live(k))
=============================================================================
