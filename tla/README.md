# Verification of the contract intelligence platform

TLA+ models of the platform's backend (`src/backend/app`), the TLC
configurations that check them on small instances, and theorems about them that
TLAPS checks for every value of the constants.  `PROJECT.json` is the index:
components, runs, mutants, the lines each definition stands for, hazards,
findings and theorems.

To parse, check or prove one module:

    tlasany AnalysisTasks.tla
    tlc -workers 2 -config tasks_core.cfg MCAnalysisTasks
    tlapm AnalysisTasks_proofs.tla

## 1. The system

A FastAPI service and a set of Celery workers share a PostgreSQL database; Redis
is the broker, an S3-compatible store holds files, Qdrant (or a local store)
holds vectors, Clerk owns identities and organizations, Stripe owns
subscriptions.  Every HTTP request runs in one transaction (`core/database.py`:
`get_db`, commit after the handler, rollback if it raises); Celery runs with
`acks_late`, so a message is acknowledged after its task has returned and is
delivered again if the worker dies or the visibility timeout passes.  It is not
delivered again if only the pool process that runs the task is killed (out of
memory, SIGKILL): `task_reject_on_worker_lost` is not set (`celery_app.py:26`), so
the parent process acknowledges it.

| part | state | operations | talks to |
| --- | --- | --- | --- |
| analysis pipeline: `endpoints/tasks.py`, `workers/agent_tasks.py`, `services/task_service.py` | `analysis_tasks`, `clause_flags`, `task_results`, Celery queue "agents" | trigger (purges earlier runs of the type, creates, dispatches), run, retry, mark failed | quota, usage records, agents |
| documents: `endpoints/documents.py`, `document_service.py`, `parse_tasks.py`, `embed_tasks.py`, `embedding_service.py` | object store, `project_files`, `parsed_clauses`, `clause_embeddings`, vector points, queue "parsing" | upload (inline or Celery), parse, embed, delete | parsers, embedding provider, findings |
| projects: `project_service.py`, `endpoints/projects.py` | `projects` | create under a monthly limit, delete with everything in it | all of the above |
| trial emails: `beat_tasks.py` | `subscriptions.trial_emails_sent` | hourly run | email queue |
| accounts: `endpoints/webhooks.py`, `billing_service.py` | `organizations`, `subscriptions`, `usage_records` | Clerk and Stripe webhooks, usage increments, quota check | Clerk, Stripe |
| search: `ai/chunking.py`, `retrieval_service.py` | none (pure) | chunk a document, fuse two rankings | vector store, full-text search |
| review and clause library: `endpoints/tasks.py`, `library_service.py` | `clause_flags.reviewer_status`, `clause_library_entries`, vector points | review a finding (approval adds an entry), create, update, delete | Voyage, Qdrant |
| agents: `agents/*.py` | none (pure, rule based) | template comparison, vendor diff, law and checklist validation, extraction of values | called by the pipeline |
| parsers: `parsers/*.py` | none (pure) | paragraphs of a DOCX file or lines of a PDF file to clauses | called by documents |
| users: `endpoints/users.py` | `users`, `memberships` | invite, change role, remove | email queue |
| the rest | rows written once or read only | checklist rules, workspaces, audit log, export, transparency, billing pages, middleware, frontend | |

What makes each part correct, and hard:

- **Analysis pipeline.**  A re-run replaces results; a task, its findings and
  its result change together; no task is forgotten; a retry or a redelivery does
  not multiply or hide results; the organization is not billed too much.  Hard
  because the message leaves before the row is committed, the purge is three
  statements against workers that commit in between, rows are locked for as long
  as an agent runs, and the broker may deliver a message twice.
- **Documents.**  Five stores and no transaction around them: rows, clauses and
  chunks agree, nothing refers to what is gone, nobody is served another
  document's bytes.  Hard because of uploads that race for a slot, deletes that
  race with embedding, and failures between two stores.
- **Trial emails.**  Each milestone email goes out, and not twice.  Hard because
  all bits are committed once at the end and runs may overlap.
- **Accounts.**  Every Clerk organization arrives, deleted ones are inactive,
  service follows the subscription.  Hard because events are repeated, reordered
  and handled concurrently.
- **Search.**  No text is lost between clauses and chunks, chunks fit the
  embedding budget, fusion ranks as documented.  Hard at the boundaries.
- **Comparing agents.**  A clause that is gone and a number that has changed are
  reported, and nothing else is; a worse value is not rated milder.  Hard because
  every clause competes with every other for its counterpart.
- **Reading agents.**  Law, checklist and clause analyzer read the same terms,
  each with its own patterns; they must not disagree about what is written, and
  what one finds must not depend on what comes later.  Hard because values are
  taken from whatever stands near a hint, in a fixed order of units and notations.
- **Parsers.**  Nothing of a file is lost on the way to its clauses.  Hard
  because a clause is read over many paragraphs, and lines are dropped by looks.
- **Review and library.**  An approval and its entry go together, and the vector
  store knows the entries that are there.  Hard because two stores change one
  after the other, and because of concurrent reviews and re-runs.
- **Members and quota.**  Nobody is invited twice or comes back after a removal;
  the month's limit holds.  Hard because everything is checked before it is
  inserted, by requests that run concurrently.

## 2. The modules

### AnalysisTasks (and TaskBoard)

One project's pipeline.  A *request* is either `POST .../tasks` or the project's
`DELETE`; its program counter walks through the statements of the handler
(`TriggerBegin`/`DeleteBegin`, `PurgeFindings`, `PurgeTasks`, `CreateTask` per
type, `CommitTrigger`/`CommitDelete`, `Abort`).  A *worker* takes a message
(`Deliver`), flushes RUNNING and so takes the row lock (`Claim`), runs the agent
and commits (`Publish`) or fails (`RunFails`), increments usage in a second
session (`ReadUsage`, `WriteUsage`, `UsageFails`), records failure in a third
(`MarkFailed`, `MarkFails`), retries (`Retry`) and acknowledges (`Ack`).
`Crash` is the death of the whole worker, whose message comes back; `ChildKilled`
that of a pool process, whose message is gone (history: `lost`, the tasks of
attempts that had no outcome yet); `Redeliver` the visibility timeout.  Variables `row`, `flags`, `result`, `usage`,
`project` are committed tables; what a transaction has written but not committed
is in its actor's variables, and `lock` says who holds a task row.  PostgreSQL
is READ COMMITTED: statements see what is committed when they start; UPDATE and
DELETE wait for locks; the foreign keys of `clause_flags` and `task_results`
make `PurgeTasks` fail on rows its own earlier DELETEs did not see (`Dangling`).
`flags` counts agent runs whose findings are stored, which is what duplicates
are about; what a finding says does not matter here.  `Modes` says how triggered
agents run: by Celery (`Dispatch` sends a message), or, as in testing mode, within
the request (`Ran`: findings, result and COMPLETED are the request's own and are
committed by `CommitTrigger`; an agent that raises is an `Abort`).

`TaskBoard` is the abstract specification: tasks are submitted, finished,
failed or cleared in single steps in which status, findings and result change
together; tasks may be submitted with their outcome.  `AnalysisTasks` implements it with `status <- row`,
`findings <- flags`.

### Documents

Uploads, deletes (of one document or of the project) and parsing workers against
object store, rows, clauses, findings, chunks and vector points.  `Inline` is
testing mode: parsed in the request, committed before embedding.  Otherwise a
Celery chain parses and embeds.  `ParseReturns` is the whole of
`_parse_document_async` (`Crash` and `ChildKilled` are as in AnalysisTasks): it leaves through `return` inside `async for session in
get_db(...)`, which closes the generator at its `yield`, so nothing of it is
committed.  `Flag`/`Unflag` stand for what AnalysisTasks does to findings on a
document's clauses.  The history variable `saw` remembers what was committed
when an upload checked its slot.

### TrialEmails

The hourly beat run: it selects subscriptions and masks (`Start`), dispatches
what is due and not in the mask it read (`Dispatch`), and commits all masks once
(`Commit`) or not at all (`Fail`).  Runs may overlap.  `settled` counts only
emails of runs that neither failed nor overlapped another.

### Accounts

Clerk and Stripe are external (`ClerkChange`, `Happen`): what happens there puts
an event into `pending`, from which it is delivered until it is answered,
possibly twice, in any order, to requests that run concurrently.  `Take` is a
request's arrival and its SELECT; one action per handler then decides from what
was read, writes and answers: `AlreadyExists`, `CommitCreated`, `Welcome`,
`RaceLost` for `_handle_org_created`, `Rename`, `Remove`, and `Upsert`,
`Cancel`, `MarkPastDue`, `ClearPastDue` for the four branches of the Stripe
handler.  All organizations have the same name, so each creation wants the same
slug.  An UPDATE writes only columns that differ from what was read
(SQLAlchemy's unit of work), which `SetStatus` keeps.  `stripe` is a subscription's
status at Stripe and what its invoices have come to since (`Standing`); invoices go
on after a cancellation.  `Tagged` are the organizations that Stripe's events
name: the webhook looks for the tenant on the subscription, where the checkout of
`stripe_client.py:37`, which tags the session only, does not put it, so a customer
who has only gone through that checkout is not `Tagged`.  `scope` is a bound: what
may happen in one behaviour.  History: `unsure` marks an organization whose Stripe events came out of their
order, were repeated after a later one or were handled at the same time, until a subscription event that
is the newest and alone has set things right; `ignored` those whose deletion
overtook their creation.  Left out: plan and period columns, the cancellation
and failed-payment notices (pure dispatches), creations without an admin
address (they send no welcome).

### Chunking, Retrieval, Comparison, ValueDiff, Algorithms

`Chunking` is `chunk_clauses`: merge fragments below the minimum forward, cut
clauses above the maximum with overlap.  Words are opaque values; tokens are
counted as the code does without tiktoken (not a dependency): `round(1.3 * n)`,
halves to even.  The code's running word lists are folds (`FoldLeft`), so no
RECURSIVE operator is needed.  `Retrieval` is `reciprocal_rank_fusion` and
`HybridRetriever.retrieve`; scores are fractions compared exactly.  Python adds
and compares floats: two different scores of this form with K = 60 and ranks up
to 150 are further apart than rounding reaches, equal ones may come out in
either order.

`Comparison` is what two agents do with two versions of a contract.  The template
comparison looks for the template clause most like each draft clause (likeness of
the texts, plus a bonus for like headings) and reports new, altered and missing
clauses and changed numbers; the vendor diff aligns by equal heading, like
heading, like text, then position, skips pairs over 95% alike, and reports
redlines, changed numbers and removed clauses.  What difflib says of two texts is
data: a text is a wording and a number, and three constant functions give the
likeness of headings and wordings (not symmetric, as in the code).  Documents are
sequences, the position standing for the paragraph index; the worker reads the
clauses without ORDER BY, so nothing is assumed of their order.  `ValueDiff` is
the rating of a changed number: relative bands, absolute triggers, removal and
addition.

### Text, LawRules, Checklist, Concepts, Extraction

The agents that read.  `Text` is what their regular expressions see: a clause is a
sequence of phrases, a phrase has *marks* (the patterns that match in it) and at
most one number, with unit, digits and words.  Where a pattern matches is data;
which match counts, in which order notations are tried and what is made of it is
modelled.  `LawRules` are the bundled rules of Indian law (found in a clause, missing
in the contract, missing in a clause) and which of them fire when; `Checklist` the seven
fields read from a whole contract and the built-in and tenant rules;
`Concepts` the scan of the template comparison for legal concepts (deviations,
insertions, silences); `Extraction` the classification of a clause, its values
(window after a hint, digits before words, fixed order of units) and the changes
between two versions.  A hint reaches `Reach` phrases, where the code counts
characters.

### Grouping

Paragraphs or lines to clauses, for both parsers: each heading begins a clause, a
file without headings is cut into pieces, offsets count the text.  A paragraph or
line is its length, its marks (heading style, numbering, capitals, bold, position on
the page) and its tracked changes; `IsHeading`, `IsRepeated` (running headers),
`IsText` and `IsSubstantial` (short clauses are dropped) decide.

### Algorithms

The harness of these modules: from empty inputs every step adds a clause, a hit, a
clause to either version, a phrase to a contract, a paragraph or line to a file, or
takes one reading of a field, so that each reachable state is one input of one
algorithm.

### Library

Review of findings, and the clause library.  A *review* loads the finding and
decides (`Load`, `Flush`), updates the columns that changed and
so takes the row lock, adds an entry for an approval, indexes it in Qdrant
(a failure is swallowed) and commits or fails; *creates* add an entry and its
vector, *updates* change an entry, *deletes* remove the vector, then the row.
`flag`, `entry`, `point` are the stores, `lock` the row locks; a re-run of the
pipeline deletes the finding in between.  History: `failed` are entries for which a
request failed after a step in Qdrant, `edited` those changed since, `crowded`
findings that two requests had open at once.

### Tenancy

Members and projects of one organization, served by a few request slots: an invitation
looks for the user and the membership, inserts both (unique keys make a
concurrent one wait, then fail), queues its email and commits; a change of role
writes what it changed of the row it loaded; a removal deactivates.  A project is
counted against the plan's monthly limit and then inserted, without a lock; plans
change, projects are deleted, the month ends.  History: `mails`, `lost` (emails of
invitations that then failed), `best` (the highest limit of the month).

## 3. What is checked

| run | instance | what it shows |
| --- | --- | --- |
| `tasks_core` | either mode, 2 requests, 2 workers, 1 type, 1 retry, 1 redelivery per task, limit 2 | `FindingsHaveTask`, `RunsAreWhole`, `FindingsOncePerDelivery`, `FailureHidesNoSuccess`, `NobodyForgotten`, `NeverOverbilled`; `BoardSpec`: the tables implement TaskBoard |
| `tasks_live` | either mode, 2 requests, 1 worker | `QueuedSettles`, `Drains` |
| `tasks_rerun` | Celery, same without retries | violation: `OneTaskPerType` |
| `docs` | either mode of upload, 2 uploads (one slot, one name), 1 delete, 1 worker, 1 retry, 1 redelivery | `ClausesFollowStatus`, `ReferencesHold`, `ChunksSearchable`, `BytesMatch`, `Drains` |
| `docs_parse` | Celery, 2 uploads, 1 delete, 1 worker | violation: `ParsedIsPersisted` |
| `emails_trial` | 1 organization, 2 milestones, 2 overlapping runs, 1 failure | `RecordedWasSent`, `SettledOnce`, `DueIsSent` |
| `accounts` | 2 concurrent requests; 2 organizations of one name with 1 failure or lost answer, or 1 tagged one with 4 Stripe events, or with 2 and a failure, or 1 untagged one with 2 | `WelcomedOnce`, `DeletedIsInactive`, `Onboarded`, `ServiceMirrors` |
| `algorithms` | up to 3 clauses of up to 14 words, budget 6, overlap 6, minimum 4; up to 4 hits in each list, K = 1, limit 1, multiplier 2; versions of up to 3 and 2 clauses out of 8; 19 values for each of 22 fields; contracts of up to 5 headings and phrases out of 2 and 12; files of up to 4 paragraphs or lines out of 7 each | `ChunksHoldDocument`, `BothBeatOne`, `CutoffKeepsResults`; `DeletionsReported`, `VendorDeletionsReported`, `NoClauseVanishes`, `ValuesReported`; `TriggersFire`, `WorseIsNoMilder`; `TermsRead`, `ChangedTermsReported`, `FindingsStable`; `FileKept` |
| `vendor_values` | versions of up to 3 and 2 clauses | violation: `VendorValuesReported` |
| `library` | 2 reviews, 2 findings (one on a clause without text), 1 create, 1 update, 1 delete | `IndexFollowsTable`, `ApprovalAddsEntry`, `ReviewIsWhole` |
| `library_skip` | the same | violation: `SkippedWithoutIndex` |
| `tenancy` | 2 slots, 1 person, 2 roles, 4 projects, limits 1, 2 and none | `InvitedOnce`, `QuotaHolds`, `RemovalSticks` |

Every property of a passing run has a mutant in `PROJECT.json`: an operator of
the same module, next to the definition it replaces, with a plausible slip (a
dropped foreign key, a failure that is swallowed, an uncounted retry), under
which the run fails.

**Bounds and why they suffice.**  The races are between two actors over one
object, so two requests, two workers, two uploads, two webhook handlers and two
overlapping runs meet in every way.  One task type in `tasks_core` makes every
trigger compete with every other; with two types the requests mostly pass each
other by (the safety theorems cover any number of types).  One retry and one
redelivery give each attempt a predecessor of both kinds; a usage limit of two
lets the quota be left, reached and passed.  Four Stripe events suffice to begin
a subscription, end it and have a payment fail and succeed; with fewer there are
still one before, one after and one in between.  What races in Accounts is within
Clerk's events or within Stripe's, so a behaviour has the one or the other
(`MCScopes`).  `Reported` has a status that the map turns into another and one that
it does not know; active comes of payments.  In `algorithms` a 14-word
clause is cut into several pieces with several overlaps at a budget of 6 tokens,
three clauses let a fragment travel twice or past the end, and K = 1 with lists
of 4 puts hits on both sides of rank K.  The overlap is set above the cap so that
the cap is what matters.  The eight clauses to compare have equal, like, unlike and
no headings, texts that differ in a number only (in a long text and in a short
one), texts a little alike, unlike texts, noise and a tracked change; three against
two suffices to leave one out, to move one and to have two compete for one.  The
19 values are on, next to and between the limits of all triggers, with zero.
The phrases are one or two of each term, with numbers on both sides of a rule's
limit; five headings and phrases put two terms into one clause and into two, before and
after each other.  Four paragraphs or lines are something before the first heading,
a heading, its text and the next, or a line that occurs twice, on one page or two.
In `library` two reviews may meet at one finding, and with the edit and the
deletion at one entry; in `tenancy` two requests meet in every way, and four
projects pass a limit of two by one and are deleted again.

**Fairness.**  Weak fairness of each request's and worker's steps: the server
finishes what it has accepted and Celery's workers run; a step waiting for a row
lock is not enabled, and PostgreSQL grants locks once they are free.  Nothing
forces a client to send a request, an agent to report, a worker or pool process to
die or the broker to redeliver.  TrialEmails assumes that beat keeps scheduling runs (weak
fairness of `Run`).  Accounts adds strong fairness of the delivery of
`organization.created`: Clerk goes on delivering an unanswered event, and between
attempts the event is merely waiting for a free handler.  Deaths of
workers, redeliveries and retries are bounded, so liveness is claimed for when they
stop; the death of a pool process needs no bound, as it uses up a message.

**Findings** (the violated runs):

- `OneTaskPerType`: `tasks.py:90` says re-runs replace results; two concurrent
  triggers of one type both purge what was there before and both insert.
- `ParsedIsPersisted`: the Celery parse task returns success and commits
  nothing.
- `VendorValuesReported`: `vendor_diff.py:11` and `clause_analyzer.py:873` say
  that numbers are compared however alike the texts are; a pair over 95% alike is
  skipped first (`vendor_diff.py:283`), and 60 days for 30 in a sentence of ninety
  characters is 98.9% alike.
- `SkippedWithoutIndex`: `tasks.py:564` says that an approval without Voyage keys
  skips the clause library, and logs `clause_library_skip`; the entry was flushed
  before the embedding failed and is committed without a vector, so that it is
  listed and never found by similarity.

**What properties except.**  Some properties hold of the code only with a named
exception, and the hazard behind the exception is then covered by none.
`NobodyForgotten` and `QueuedSettles` except tasks that were looked up before they
were committed, whose failure could not be recorded, or whose pool process was
killed: these stay QUEUED.  `SettledOnce` counts runs that neither fail nor
overlap; `WelcomedOnce` does not say that the email is sent; `DeletedIsInactive`
excepts a deletion that overtook its creation; `IndexFollowsTable` entries whose
request failed between the two stores; `ReviewIsWhole` findings that two requests
had open at once; `NeverOverbilled` is an upper bound.  `ServiceMirrors` excepts
organizations whose Stripe events came muddled; of the others it says what the code
makes of each status, also where that is hardly meant: `incomplete` is served, a
canceled subscription is served again once a failed payment was followed by a
successful one, and an organization that Stripe's events do not name stays on its
trial.  Deadlocks of row locks are broken by PostgreSQL, in the model by `Abort` and
`RunFails`; no property depends on one.

**Seen while modelling, without a run of their own** (the most important are
hazards in `PROJECT.json`):

- *Pipeline.*  Two first increments of a month leave two usage records, after
  which every quota check of the month raises (`billing_service.py:166`); the same
  agent run is published twice after a redelivery, because the status of the task
  is not looked at; the inline run of testing mode sets FAILED and then raises, so
  that the status is rolled back.
- *Documents.*  A document that agents have reported on cannot be deleted, although
  `document_service.py:107` tells the user to delete a file before replacing it:
  the foreign key of `clause_flags` refuses (`documents.py:190`).  The slot check
  of an upload is not protected, two uploads for one slot can both commit; deletes
  remove objects before the commit, against the comment at
  `project_service.py:124`; vector points are never deleted with their document;
  the chain is sent before the commit.
- *Emails.*  An overlapping or failed beat run sends an email again, although
  `celery_app.py:42` guarantees that each fires exactly once.
- *Accounts.*  An unknown Stripe status counts as active; a failed and a successful
  payment revive a canceled subscription; an organization whose deletion arrives
  before its creation stays active; the welcome email is lost if the process dies
  after the commit; checkout puts the tenant id on the Checkout session only, while
  the webhook looks for it on the subscription; `trial_end` is not set when a trial
  begins, so the trial-ended email waits for Stripe to report one.
- *Comparing agents.*  The triggers of `clause_analyzer.py:783`, which "always
  fire", do not for a value that is new; of two draft clauses with one heading the
  vendor diff aligns the first only, so that the loss of the second is not
  reported; a clause new in the reply is compared with whatever stands at its
  paragraph index; renaming the heading from which a clause's type is read hides
  its changed numbers.
- *Reading agents.*  Concepts "inserted (not in template)"
  (`template_comparison.py:830`) are reported without a look at the template, and
  those of silence (349) for any single clause that does not mention their topic,
  so that a template compared with itself has findings.  `TERM_no_notice_period` is
  commented as firing only where termination is mentioned
  (`law_validator.py:676`), and looks at every clause.  The law rules read digits only; for the common numbers
  the checklist takes the word over differing digits in parentheses, the clause
  analyzer the digits; it does not read "net 60".  The agreement date is always the
  earliest date (built-in rule B allows today, `date_future` does not).  In the clause
  analyzer digits anywhere in a window beat earlier words, months are looked for
  before years, a heading "Termination" makes the first days of the clause its notice,
  "shall not exceed" of a liability is read as the contract's value, and
  "thirty-three days" as 3.
- *Parsers.*  A line is taken for a running header if its words occur twice in a file
  of two to five pages, be it on one page (`pdf_parser.py:83`: "appearing on > 50% of
  pages"); a PDF clause of less than ten characters goes with its heading
  ("Governing law: India"); a heading such as "(Optional) Services" counts as a
  sub-clause; paragraphs in tables are not read; a paragraph that consists of a
  tracked insertion or deletion only has no text for python-docx, so that no clause
  shows it; `has_comment` is never set, because comments never get a paragraph
  (`comment_extractor.py:51`).
- *Library.*  Suggestions return rejected, inactive and edited entries
  (`endpoints/library.py:36` says "approved clauses"); editing an entry leaves its
  vector as it was; concurrent reviews mix note, status and reviewer; a rejection
  after an approval leaves the entry and a second approval adds another; requests
  that fail leave points nobody owns.
- *Members and quota.*  A removed member can never be invited again
  (`users.py:87`); the invitation's email is queued before the commit
  (`users.py:100`); deleting a project frees its place in the month.  The quota
  middleware lets requests pass when its own check fails and in testing mode; for
  plans without a limit, an exception of the handler is caught by the check's own
  `try` and the handler runs a second time (`quota.py:63`).

## 4. What is proved

TLAPS checks the following for every value of the constants, under the modules'
named assumptions only (bounds are natural numbers, kinds of actors are
disjoint, the "nobody" values are not actors; what is assumed of difflib is said at
Algorithms_proofs).

**AnalysisTasks_proofs**: `TypeCorrect`, `FindingsHaveTaskAlways`,
`RunsAreWholeAlways`, for any number of requests, workers, types, retries and
redeliveries.  The inductive invariant `IInv` adds to these three:

- `Working`: a worker that is not idle holds a message;
- `ClaimedRow`: a worker between `Claim` and `Publish` holds the lock of its
  task and the row is there.  Without it `Publish` could store findings of a
  task a purge has just removed;
- `PurgedRow`: a request holds row locks only after its purge, and a row it has
  locked has no findings and no result its DELETEs have not seen.  Without it
  `CommitTrigger` and `CommitDelete` could leave findings of a deleted task;
- `LockedRow`, `RowOfEnded`: only rows are locked, and rows are of requests that
  have ended.  So what a request has itself run (`Ran`) nobody else has locked, and
  its commit does not write under another transaction (`LockedNotRun`).

The purge and the worker exclude each other through the lock; the foreign keys
exclude the order in which the worker commits between the purge's statements.
There is one lemma per conjunct, one step per action in each.

**Delivery_proofs** goes on from there, again for any number of requests, workers,
types, retries and redeliveries.

- `ImplementsTaskBoard`: AnalysisTasks implements TaskBoard (`BoardSpec`).  Every
  step maps to a step of the board or a stutter (`StepIsBoardStep`): a commit of a
  trigger clears what was purged and submits the tasks in one step, because a purge
  that commits leaves nothing behind (`NothingLeft`, from `PurgedRow`) and none of
  the created tasks is in the table (`CreatedIsNew`, with `RequestShape`).
- `NobodyForgottenAlways`, for any number of deaths of workers; a task whose pool
  process was killed before its attempt had an outcome is excepted, as the code
  abandons it.  The property alone is not inductive: a commit makes
  tasks queued whose messages were sent before.  `NoneLost` therefore speaks of
  *open* tasks, queued ones and those that a request still at work has sent;
  `TakenIsEnded` says that a worker beyond `Claim` has a task whose request has
  ended.
- `FindingsOncePerDeliveryAlways`: what can still add findings to a task are its
  messages and the workers that try it.  `Budget` counts them: these attempts and
  the stored runs are together at most one more than the redeliveries.  A retry
  trades a worker for a message and an acknowledgement drops one.  `QueuedIsSent`,
  `HeldIsSent` and `MadeIsSent` exclude that a message appears twice.  Counting is
  on finite sets of tokens (`Tokens`), one per message and worker.
- `FailureHidesNoSuccessAlways`: from the same budget; a worker that may still
  write FAILED is an attempt, and a task with a result has no attempt without a
  redelivery.
- `NeverOverbilledAlways`: `Billed` says that the records, what they sum to and the
  increments that workers still owe are at most what was published, also if a
  worker writes what it has read before.  `SumIs` shows, without induction, that
  the library's recursive sum is what its recursion says (the definition chooses
  *some* solution; two solutions differ on no smallest set).

**TrialEmails_proofs**: `TypeCorrect`, `RecordedWasSentAlways`,
`SettledOnceAlways`.  The strengthening: what is recorded, read or set was sent
(`MasksAreSent`); a run that nobody overlapped is alone (`CalmIsAlone`); a run
sends nothing that the mask it read records (`MineIsNew`); what a calm run sent
stays in every mask, committed or read (`SettledIsKept`).  The last is what makes
`SettledOnce` inductive: without it a later run might have read an older mask.

**Algorithms_proofs**: `BothBeatOneAlways`: a hit that both lists have up to rank K
is scored above every hit of one list, for every K, all ids and lists of any
length.  `ListsAlways` types the lists, `RankIsNatural` gives the least index
(well-foundedness of <), `TwoShares` is the arithmetic: 1/(k+p+1) + 1/(k+q+1)
exceeds 1/(k+r+1) when p, q <= k.  `TriggersFireAlways` and
`WorseIsNoMilderAlways` are about the rating of every value of every field:
`HighestIs` (a set of severities has a highest), `ExceededGrows` and `FiredGrows`
(a value further off exceeds the same bands and fires the same triggers).
`CutoffKeepsResultsAlways`: among the candidates a hit's rank is its rank, and the
score of a hit that both backends still have is its score, while others can only
lose a share (`BeforeAmongCandidates`, `MoreShares`); so no more hits come before
it than among all hits.

The comparing agents, for versions of any length and any likenesses:
`NoClauseVanishesAlways` (the best match is the first of the likest, `FirstBestIs`),
`DeletionsReportedAlways` (a clause is likest to itself, `ItselfIsBest`),
`VendorDeletionsReportedAlways` (equal texts find each other, `FindsItself`) and
`ValuesReportedAlways`.  What they assume of difflib is in
`ComparisonAssumption`: ratios are percents, equal headings are 100% alike, and
only a text itself is entirely like itself (a text with another number is
another text; the code's scores are rounded down here).  `ValuesReportedAlways`
has a hypothesis more, `LikestItself`: with the number changed, a text is still
likest to its own wording, and 10% like it.  It is not true of every pair of texts
(in a short one the number may be most of it), and the theorem does not hold
without it: the counterpart would be another clause.  The instance of TLC
satisfies it (`WordingsApart` in MCAlgorithms).

`FindingsStableAlways` is an action property, about the agents that read a contract
clause by clause, for contracts of any length: a step only reads the contract on
(`ReadOn`: `StartReadsOn`, `PhraseReadsOn`), the first clause in which something
is found stays the first unless it is the one that is being read
(`ForemostStays`), and a pattern matches in the joined text if and only if it does in
a clause (`MatchesJoined`).  The joined text is a recursive function; `JoinedIs`
and `MatchesJoined` go by the shortest beginning of a contract of which they would
not hold.

`ChunksHoldDocumentAlways`, for documents of any number of units, any lengths of
them and any `MaxTokens` from 1 on.  A chunker is a fold over the units; the
library's fold is a recursive function, and that it has a value which follows the
step is shown once for each step operator, because no lemma can be instantiated
with an operator.  The induction is over the units read so far: the pieces are
stretches of the document that fit into a chunk, each further on than the one
before and without a gap (`Covers`); where short clauses are merged, what is put out
and then what is carried lie one behind the other up to the word read
(`Carried`).

`FileKeptAlways`, for files of any number of paragraphs, pages and lines.  What is to
be shown of the file is carried through the parsers' stages: what a parser takes
out of the file is the file's rows in their order (`ExtractKeeps`, `Takes`); the
grouping of headings with the paragraphs under them keeps `GroupedSoFar`,
whose three parts are that the clauses made are numbered and placed one behind the
other, before the one being read (`RankedSoFar`), that together with that one they have
the paragraphs read, in turn, with their changes (`Sourced`), and that the bodies
read are in order and none is missing (`Bodied`); the separation of what stands in one paragraph keeps
`SeparatedSoFar`.  For the PDF parser, the numbers of the pieces only grow
(`PiecesAre`), and a line found once is no header or footer (`OnceIsNotRepeated`,
`LongIsSubstantial`, `UnsiftedKeeps`).  `ParametersAssumption` types the kinds of paragraphs
and lines.  The rows taken by a test are written with `Among` of Grouping, as the
prover has no definition of the standard module's `SelectSeq`.

That the prover needs one value where Python takes the first of several branches
shows in the model: the branches of `Changes` and `Custom` exclude each other.

**Accounts_proofs**: `TypeCorrect`, `WelcomedOnceAlways`,
`DeletedIsInactiveAlways`, for any organizations, requests and retries.  The
inductive invariant adds:

- `CommittedIsNew`, `CommittedApart`: a request between its commit and the
  welcome email created an organization that nobody has welcomed, and by the
  unique keys it is the only one that did; with `WelcomedIsThere` no later
  request can get that far.  Without them `Welcome` could count to two;
- `MissedIsIgnored`, `DeletedIsThere`: an answered deletion that was not ignored
  found its row, so the row is there and inactive, and a late or repeated
  creation meets `already exists`.  `DeletedIsInactive` alone is not inductive:
  it would allow the row to be missing, and then to be created as active.

`ServiceMirrorsAlways` is about every tagged organization whose events did not come
muddled, canceled and incomplete subscriptions included, and about every untagged
one (`OnTrial`).  It has an invariant of its own, as the property speaks of the
end only, when all events are answered:

- `Known`, `Numbered`: Stripe's unanswered events are of known organizations and
  carry different numbers; the last one, if it is of the subscription, says what
  Stripe says;
- `InOrder`, of each organization whose events did not come muddled: one request
  at most handles an event of it, the latest one taken, and what it has read is
  still true (`Alone`); and there is a history of its subscription
  (`Trace`) that explains the state (`Explains`): it ends with Stripe's status,
  each outstanding event leads from one status to the next, all later events are
  outstanding, and the row agrees with the status after the last event taken, or
  perhaps before it as long as that event is outstanding.

The history is quantified in the invariant and not a variable: one that the
invariant lets exist is enough.  An event that happens makes it one longer
(`FineHappen`), taking the next one moves along it (`FineTake`), handling an event
makes the row agree with the status after it, even a second time (`Settles`), and a
subscription event that comes in last and alone explains the state anew
(`FineAgain`).

**Tenancy_proofs**: `TypeCorrect`, `InvitedOnceAlways`, `RemovalSticksAlways`,
`QuotaHoldsAlways`, for any people, plans, limits and number of slots.  The
inductive invariant adds:

- `Targets`: what a slot is about belongs to what it is doing;
- `OneAdds`: at most one slot has an uncommitted membership of a person, and none
  if the table has one.  This is the unique key, and what makes `InvitedOnce`
  inductive: the email follows the INSERT;
- `PlanWithin`, `ReadWithin`: the plan in force, and every limit a slot has read
  this month, are at most `best`;
- `Room`: projects of the month plus those counted and not yet committed stay below
  `best` plus the number of slots.  `QuotaHolds` alone says nothing of the
  projects under way.

**Library_proofs**: `TypeCorrect`, `IndexFollowsTableAlways`,
`ApprovalAddsEntryAlways`, `ReviewIsWholeAlways`, for any numbers of findings,
reviews, creations, edits and deletions.  The inductive invariant adds who holds a
finding's lock (`Locks`), what an open request has loaded (`Finding`, `Reviewers`),
where an entry's point is at each step of its maker and of those who delete it
(`Points`), and that an approval has its entry from its flush on (`Approving`).
Without `Locks` two reviews could both believe that the row is theirs, without
`Points` a deletion could leave a point behind.

**Documents_proofs**: `TypeCorrect`, `ClausesFollowStatusAlways`,
`ReferencesHoldAlways`, `ChunksSearchableAlways`, `BytesMatchAlways`, for any
number of uploads, deletes and workers, any slots, names, retries and
redeliveries.  The inductive invariant adds:

- `Holding`, `Uncommitted`: a worker at work holds a message; an upload has no row
  before its commit, and what it has parsed is something.  This makes
  `ClausesFollowStatus` inductive;
- `Owned`: bytes are only ever those of an upload with the same storage key, in the
  store, in what was parsed and in the clauses.  `BytesMatch` follows, as uploads
  of one key are the only ones that overwrite each other;
- `SawOthers`: the documents that an upload saw at its slot check are in other
  slots;
- `LockHeld`: a locked row belongs to a delete between its DELETEs and its end, and
  what the delete of a single document has locked has no finding.  Without it
  `CommitDelete` could remove clauses that a finding refers to;
- `Indexed`: who is about to commit chunks has put the points into the vector
  store, where nobody removes them.

Only model-checked: all liveness properties (fairness and ENABLED are beyond the
prover), and in Algorithms `TermsRead` and `ChangedTermsReported`, which are claims
about the phrases of the instance and not about any phrases: patterns that match
together in other ways than the code's authors had in mind are read wrongly, see
section 3.

## 5. What is not modelled

See the components with status `not_modelled` in `PROJECT.json`.  In short:
single-row CRUD in one transaction (checklist rules, workspaces, audit rows),
readers (export, transparency, search endpoint), per-request checks
(authentication, rate limits), clients of external services, the frontend,
migrations and scripts have no behaviour over several steps.  The quota
middleware reads and decides per request.  The texts, regular expressions and file formats of agents
and parsers are data to these models, as are what difflib, PyMuPDF and python-docx
say of them; confidence, risk scores, suggestions and wording decide nothing.
Row-level security is taken as not binding, as for the compose file's database
role, a superuser; under a bound role `SET LOCAL` would end with the first
commit of a session (`database.py:44`).

## 6. Plan

Done, in this order: AnalysisTasks with TaskBoard (the product's core and its
hardest concurrency), Documents, TrialEmails, Accounts, Chunking/Retrieval,
Comparison/ValueDiff, LawRules/Checklist/Concepts/Extraction, Library, Tenancy,
Grouping.

All safety properties that passing runs check are proved, except the two of Algorithms
named at the end of section 4.  Next in the model: plan and period columns of
subscriptions in Accounts.
