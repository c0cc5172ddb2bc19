# suitsflow verification

TLA+ models of the suitsflow backend and of its document library in the
browser, the TLC runs that check them and TLAPS proofs of all of their safety
properties. Everything below refers to the sources by path;
`scan_jobs.py` is short for `src/suitsflow/services/scan_jobs.py`, and so on
where the name is unique.

Read the project in this order: `RevisionLifecycle` (one page, what a document
version is promised), `ScanJobs` (how the scan queue keeps that promise),
`ScanJobsProofs` (why it always does), then `Uploads` and `UploadsProofs`,
`Extractions` with `ExtractionLifecycle` and `ExtractionsProofs`,
`TextExtraction` (what one of its steps is made of) and its proofs, `Reviews`
and `ReviewsProofs`, `Registry` and `RegistryProofs`,
and `Library` and `LibraryProofs`.

## 1. The system

suitsflow is a multi-tenant document store. A tenant administrator registers a
document and a version of it, uploads the version's content, has it scanned for
malware, and then has its text extracted, saved and reviewed. State lives in
PostgreSQL and in one private S3 bucket. HTTP requests (FastAPI, one session per
request) and worker processes (`python -m suitsflow.worker`) change it
concurrently; they meet only in row locks, in conditional writes and in what
they read again after a lock.

| Component | State | Operations | Talks to |
|---|---|---|---|
| scan queue (`scan_jobs.py`) | `document_scan_jobs`: status, attempts, claim token, lease, requester | `enqueue`, `run_one`, `get` | version row, scanner, store, audit log |
| synchronous scan (`scans.py`) | none of its own | `scan` | version row, scanner, store, audit log |
| worker (`worker.py`) | loop counter, clock | `drain` over either queue | both queues |
| uploads (`uploads.py`) | `content_status`, storage key of `document_versions` | `upload` | store, version row, audit log |
| object storage (`storage.py`) | bucket | `put` (If-None-Match, retries), `download` | S3 |
| extraction queue (`extraction_jobs.py`) | `document_extraction_jobs` | `enqueue`, `run_one`, `get` | saved extractions |
| saved extractions (`saved_extractions.py`, `extraction.py`) | `document_extractions`, artifact objects | `save`, `get`, `read` | parsers, store, version row, audit log |
| document registry (`documents.py`) | `documents`, version numbers | `create`, `add_version`, reads | document row, audit log |
| tenant administration (`tenants.py`) | tenant name | `update_name` | tenant row, audit log |
| memberships and access (`memberships.py`, `security.py`, `dependencies.py`) | active roles | read at admission and again under locks | every service |
| audit log (`repositories/audit.py`) | `audit_logs`, append-only by a trigger | append in the transaction it explains | every service |
| downloads (`downloads.py`, `download_response.py`) | one temporary file per download | `download`, the streaming of the file | store |
| scanner client (`scanner.py`) | none | scan | clamd |
| parsers (`pdf_text.py`, `pdf_worker.py`, `docx_text.py`) | PDF: a semaphore of two slots per process, one child per slot | extract | a child process |
| review graph (`agents/review.py`, `reviews.py`) | graph state of one call | load, analyze (at most two calls), validate, authorize_result | saved extractions, memberships, a model |
| document library UI (`frontend/src`) | selection, counters used as keys, one state per read, form and button | connect, select, page, refresh, register, queue | HTTP |

What is hard about it:

- **Interleavings on one version.** A synchronous scan, several queue workers,
  uploads and enqueues compete for one row; a scan takes minutes and is done
  with no transaction open, so everything read before it is stale after it.
- **Leases on skewed clocks.** A claim is a token and a lease. Workers compare
  the lease with their own clocks, `<` at the claim and `<=` at the fence.
- **Crashes.** A worker may die between any two statements: its locks go, its
  claim stays until the lease is over.
- **The store is not transactional.** An object is written before the row that
  names it; PUTs are lost, repeated and late; a commit's answer may be lost.
- **Authority changes.** Roles are revoked (and granted again) while requests
  and jobs that rely on them are under way.
- **Lock order.** Scans and extractions lock two rows (version, then job).
- **What a process shares.** Threads take PDF slots without waiting and give
  them back on every path, while children crash, hang or are killed; every
  download holds an open temporary file until its last byte or its failure.
- **A model that thinks.** A review waits up to 30 s for an answer, twice;
  access and what is sent or shown afterwards must still fit together.
- **Late answers in the browser.** Reads are answered after the user has gone
  on; a POST fails although it was carried out, or will be.

Correctness per component: scan queue and synchronous scan: exclusive claims,
true and final verdicts, an audit trail that explains the status, jobs that end.
Uploads: content is set once, named objects exist and are intact. Extractions:
one artifact per version, saved together with the completion and its events.
Registry: dense version numbers. Tenant: no lost rename. Text extraction: slots
and files come back, nothing unverified is parsed or sent, a text fits into its
row. Reviews: findings quote the text, access is fresh, every review ends.
Library: the screen shows what is selected, nothing is sent twice. All: nothing is
written for somebody without the role, and nobody waits for a lock for ever.
The hazards behind these, line by line, are in `PROJECT.json`.

## 2. Plan

| Order | Module | Composes / implements | State |
|---|---|---|---|
| 1 | `ScanJobs` | implements `RevisionLifecycle` | modelled, checked, proved |
| 2 | `Uploads` | implements `RevisionLifecycle` without a job | modelled, checked, proved |
| 3 | `Extractions` (queue, save, worker) | implements `ExtractionLifecycle` | modelled, checked, proved |
| 4 | `Registry` (documents, tenants) | | modelled, checked, proved |
| 5 | `TextExtraction`: downloads, parsers, PDF children and their slots | details a step of `Extractions` | modelled, checked, proved |
| 6 | `Reviews`: the review graph | after `Extractions` | modelled, checked, proved |
| 7 | `Library`: the UI's reads and mutations | the queues' and registry's answers | modelled, checked, proved |

Abstract specifications: `RevisionLifecycle` and `ExtractionLifecycle`; both are
stated so that an action is one line of the promise, with the audit event in
the same step as the change it explains.

How the parts fit together. Each pipeline is modelled with the others as its
environment, in as few steps as its locks allow, and what it takes for granted
is shown where it is provided. `ScanJobs` takes the upload to be one step:
`UploadIsAtomic` of `Uploads`. `Extractions` takes a verdict to be one step
that happens once, and never while a saving holds the row lock: theorem
`JudgedUnderLock` about `ScanJobs`. `Uploads` takes content to leave
`pending_scan` by verdicts only, which `FinalVerdicts` and `Refinement` give.
`Reviews` takes a version to be judged once, its text to be saved after that and
never to be replaced: theorem `StagesAdvance` about `Extractions`, whose action
formula is `Advance` of `Reviews`. `Extractions` takes `Extract` to be a text or a refusal:
`ServedIntact`, `TextFits` and `ResourcesReturn` of `TextExtraction`.

What is left: one instance with all pipelines on one version, instead of the
argument above; the detail that sections 3 and 7 name as left out.

## 3. How the models correspond to the code

**One action is one observable statement:** a locked read (`FOR UPDATE`), an
unlocked read whose answer is used later, a call to the store or the scanner, a
commit, a rollback. The labels of `pc` name the statement a process stands
before. Under READ COMMITTED a transaction's writes are visible to nobody until
it commits, so the writes belong to the commit action, and what keeps others
from interfering until then is the lock variables. A rollback, an exception and
the death of a process release all locks of the process at once, as PostgreSQL
does when the connection ends.

**History variables.** `answers` (what the scanner said) and `vouched` (whose
user had the role at some instant since the locks were taken) record what the
properties speak of; no guard reads them. Definitions whose
comment begins "Faulty:" are not used by any specification: they are the
plausible mistakes against which the properties were tried (section 5).

### ScanJobs

| Module | Code |
|---|---|
| `content`, `audit`, `job` | `document_versions.content_status`, `audit_logs`, `document_scan_jobs` |
| `vlock`, `jlock` | `FOR UPDATE` on the version row and on the job row |
| `Claim`, `NoWork` | the claim query of `run_one` with SKIP LOCKED, and its commit |
| `ReadPrincipal`, `ReadVersion`, `Inspect` | the unlocked reads, download and scan |
| `LockVersion`, `Fenced`/`Confirm`, `Recheck`, `Publish` | the second transaction: locks, fence, membership again, verdict, event and job outcome in one commit |
| `NextRound` | the drain loop of `worker.py` with `--max-jobs` |
| `EnqueueLockVersion`, `EnqueueReadJob`, `EnqueueCommit` | `enqueue` |
| `ScanLockVersion`, `ScanInspect`, `ScanCommit` | `ScanService.scan`, which keeps the row locked across the scan |
| `Upload`, `Revoke`, `Grant`, `Tick`, `Crash`, `Abort` | everything that happens around it |

Choices: `created_at, id` order is a fixed order of the versions; a uuid4 token
is any token not in use; a worker's clock is off by any amount up to `Skew`,
chosen anew at every comparison, which allows more than one constant offset per
worker would; a lease is kept as the time left of it, down to a floor below
which it is over on every clock. Membership is read where the code reads it: at
admission, twice by a worker, not again by `enqueue` or by a synchronous scan.
The upload is one step here; `UploadIsAtomic` of `Uploads` is the reason it may be.

### Uploads

`Admit`, `Receive`, `LockVersion`, `Recheck`, `PutAnswered` / `PutUnanswered`,
`Commit`, `Fail` follow `UploadService.upload` from the unlocked read to the
commit. The body is abstracted to its outcome (what was registered, or
refused), since size, checksum and type of a version never change. A PUT may be
answered, lost, effective without an answer, or effective later (`LateWrite`);
the client repeats it up to `PutAttempts` times under the same key with
If-None-Match. `store` counts how often the object under a key was written. A
cancellation during the PUT does not reach the thread that sends it, so it ends
as one of the outcomes above. `Commit` may succeed without the request learning
of it. Bound: a failed scan that fails again changes nothing here and is left out.

### Extractions

`run_one` is `Claim`, `StartJob`, then the shared `SavedExtractions.save` (`Get`,
`ReadBack`, `Extract`, `Put`, `LockVersion`, `Recheck`, `Commit`, `Reread`) with
`LockJob`/`ClaimLost` as the check that the job hands into the saving
transaction, and `FailLockVersion`, `FailLockJob`, `FailCommit` as the failure
path. A request that saves takes the same actions without a job. `Commit` is the
artifact row, the completion and both events; `Reread` is the read of the saved
text after the commit, whose failure sends a worker down the failure path with
its job completed. A job whose artifact was there from the start (`found`) has
read it before the locks and ends with the commit. A lease is `held` (on every clock), `disputed` (clocks
disagree) or `over`. A version has one extractor because its MIME type never
changes, so the parser mismatch of the code cannot occur. PUT retries are the
subject of `Uploads` and are one outcome here.

### Registry

`create` is one transaction without locks; `add_version` locks the document,
reads the highest number and writes the next, unless that number is taken
(`uq_document_versions_number`), which fails the request; `update_name` locks the tenant,
reads the old name, writes the new one and appends the event unless they are
equal. Requests may fail at any statement; the tenant may be suspended, after
which nobody is admitted (and a rename that waits for the lock finds it gone).

### TextExtraction

One API process (on Linux, where the child has its kernel limits) with threads
that serve one download, plain text or PDF after another. `Begin` to
`LoseBody` are `DownloadService.download`: GetObject, the chunks, the check of
size and digest, the deadline; a chunk is the registered one or another.
`Send` and `Disconnect` are `download_response.py`; `Parse` is the parsing of
plain text and DOCX, whose text, of any length, or refusal is one outcome.
`Acquire` to `Release` are `pdf_text.py`: the slot taken without waiting, the
child, its end or its timeout, the slot given back. `ReadPage` and `Finish` are
the loop of `pdf_worker.py` with the child's own count (`characters`, which `Counted`
goes on with page by page) and the `"\n".join` of the pages at its end
(`JoinedLength`, from where each page `Ends`). Limits on streams and
pages, and those the kernel sets, are `Break`: the child ends without a text. A
worker process drains its jobs one after another and never meets full slots.

### Reviews

`Load` and `ReadSource` are the node `load`: membership, document type, status
and the saved text. `Reauthorize` and `Recheck` are the two transactions of
`reauthorize()`, which precedes each call (`analyze`) and the result
(`authorize_result`). `Call` is the text leaving the process; `Answer` and
`Unanswered` are what comes of it: a draft that `validate` keeps, anything else
that was answered, a transient failure or the 30 s. `Fail` is any other
exception. A finding is two offsets and its evidence; category, severity, description and confidence decide
nothing and are left out, and parsing JSON is one outcome. Nothing is
persisted, so a crash is the end of the review. `vouched` is kept since the
review last received something, be it a text, a draft or a timeout.

### Library

The state is what the components of `main.tsx` and `actions.tsx` keep. What
decides is React's rule that a component whose key changes, or whose parent's
key does, is mounted anew with a fresh state; the model therefore has the keys
as sets of the fields they are made of (`OwnKey`), a counter in a key standing
for the event that counts it up, and `Render` applies the rule to every part of
the screen after each event. A read is sent at the mount and carries what it
asked for; an answer to a part that is gone changes nothing, so such reads are
dropped at once. A POST is carried out by the server or not, whatever answer
arrives, and also after the form is gone. Left out: the search field, the
connection form's text, messages, StrictMode's double mount (development only).
The content status of a revision is fixed (`Clean`, `Scannable`); a read that
failed shows nothing and is not told apart from one that is still loading.
`Awaited(c)` is the component to which an answer still matters.

## 4. What the runs check

| Run | Question | Instance |
|---|---|---|
| `scan_claims` | Does a claim have one owner, does the publisher hold it until the commit, are verdicts true and final? | 1 version, 2 workers, 2 requests, 3 claims, drains of 2 rounds, skew 1, symmetry |
| `scan_requesters` | Does the trail match the status, does the job act for whoever queued it last, with the role? | 1 version, 2 users, 2 workers, 2 requests, 2 claims, drains of 2 rounds, symmetry |
| `scan_lifecycle` | Is all of it an implementation of `RevisionLifecycle`? | 1 version, 2 users, 2 workers, 2 requests, 3 claims, symmetry, view without history variables |
| `scan_progress` | Is every request answered that waits for a row? | 1 version, 2 workers, 2 requests, fairness |
| `scan_settle` | Does every queued job end? | 1 version, timely scans, 3 claims, drains of 2 rounds, lease 2 |
| `uploads` | Is the named object there, intact and the first, is the upload atomic, is everyone answered? | 3 requests, 2 PUT attempts |
| `extractions` | Do artifact, completion, events and authority agree when two workers and two requests race? | 2 workers, 2 requests, 2 users, 2 claims, symmetry |
| `extraction_progress` | Is every request answered that waits for the row? | 1 worker, 2 requests, 2 users, fairness |
| `text_extraction` | Are slots, files and children accounted for, is what is served whole, does a text fit? | 3 threads, 2 slots, objects of 2 chunks, 2 pages, texts of 1 character, fairness |
| `reviews` | Does a result quote the text, is access fresh, does every review end? | 2 reviews of 1 user, texts of up to 3 characters, 2 findings, 2 calls, fairness |
| `library` | Does the screen show the selection, is nothing sent twice? | 2 documents, 3 revisions on 2 pages of 2, 2 kinds of jobs |
| `registry` | Are versions numbered 1, 2, 3 ... without tripping their unique constraint, and do renames form a chain? | 2 documents, 4 requests, 3 names |

Why these bounds are enough to be interesting. Two workers are the smallest
number for which a claim can be contested, and a reclaim needs two claims; with
three a worker can be superseded twice, or come back to a job that was reclaimed
and then failed. `scan_lifecycle` has three claims and two users, so that it meets
superseded workers that come back late, workers that take over from a crashed
one, and jobs that another user queues again after a failure while a worker of
the first user is still at its scan. To afford that it checks states without
`answers` and `vouched` (`View`), which no guard reads and the abstraction does not
mention, and its clocks agree; skewed clocks are the subject of `scan_claims`. The
instances of the scan queue have one version: every lock and every query but the
claim concerns one version, and no property relates two. What no run shows, that
nothing goes wrong when the claim picks among several versions, or when the next
round of a drain goes on to another one, the theorems show for any number of
versions and rounds. A drain of two rounds may claim its job again after it was
fenced or its job failed and was queued anew. Two requests let a synchronous scan meet an enqueue, or
two of either. Skew 1 with lease 1 lets a lease be over on one clock and not on
the other, the only way skew can matter; it is 0 where a run asks about
something else. Three uploads let one fail with an orphan while another wins and
a third finds the content. Two PUT attempts are the client's
`total_max_attempts`. Four registry requests include a creation and three
competing for its numbers.

Three threads and two slots are the smallest numbers with which a thread finds
the slots taken. With pages of 0 and 1 characters and texts of at most 1, a page
of one character and an empty one fit only if the newline between them is not
counted, so the off-by-one that matters is within the bounds; a page may be
empty, so a text may have newlines and no substance. Texts of up to three
characters with a limit of two let a text be too long, a finding begin at 0, end
at the end or beyond it, and its evidence occur twice in the text or be blank.
Two calls are the code's limit. A full page of revisions, with one that may be
scanned and a clean one, and a partial page with a clean one make every
component of the screen appear, change its key and go; three revisions are the
fewest for which the first row of page two differs from that of page one and a
selection can be on the other page.

`MaxAttempts` bounds how often a job is claimed. The code has no such limit:
`attempts` is counted and never read. The bound removes behaviours, so `Spec`
says nothing about a job claimed more often; the proofs hold for every value of
it. `Tokens`, `Keys` and `Ids` are large enough that no step is ever disabled
for want of a fresh one. Symmetry is used in runs of safety only.
`CHECK_DEADLOCK FALSE` appears only in `registry`, which stops when every
request is done and the tenant suspended.

**Fairness.** `FairSpec` is weak fairness of each process: a process that can
take its next step does so eventually, including the step with which it learns
that a call failed (every call to the store, the scanner and the database has a
timeout). Nothing is assumed of the environment: roles, time, crashes,
cancellations and lost messages come or do not. Under it `RequestsFinish` (of scans and of extractions) and
`UploadsFinish` hold: no cycle of waiting, no lock that is not given back.
In `TextExtraction` it covers the threads, behind which stand the deadline of
the copy and the 15 s of `subprocess.run`; nothing is assumed of the child, nor
of the client, so `ResourcesReturn` says nothing of a download to a client that
reads no further: that file stays open as long as the connection does. In
`Reviews` it covers the event loop, and the timeout of 30 s stands for an answer
that never comes. `Library` has no liveness property: the browser's requests
have no timeout, and the code promises none.

`JobsSettle` needs more, stated in `TimelySpec`: drains are started again (left
to the deployment by `worker.py:1`), a worker finishes before its lease runs
out, and a worker dies only on a job's first claim. The last two cannot be
dropped. A job whose scan always outlasts its lease, or kills its worker, is
claimed again without end, and since its `created_at` does not change it stays
at the head of the queue. The code does not claim otherwise; whoever runs it
should know. Without progress of time nobody takes over from a dead worker,
hence `WF_vars(TimelyTick)`.

## 5. Why a passing run says something

For every property of every run `PROJECT.json` names a mutation of one mapped
definition - a guard dropped, a lock not taken, a re-read skipped, a fence
removed, an object cleaned up, an event omitted or repeated - under which the
same run reports that property violated. The mutated forms stand in the modules
next to what they replace, marked "Faulty:". They are also the best
documentation of what each guard in the code is for: without SKIP LOCKED, say,
`PublisherOwns` breaks; an upload that deleted its object when it fails would
break `NamesStoredObject`, because a commit may succeed without an answer.

## 6. What is proved

Every theorem holds for any number of versions, workers, requests, users,
tokens, slots, characters and so on, from `ConstantsAssumption` of the module
alone, which TLC evaluates in every run. The assumptions are that processes of
different kinds are different, that `None` is none of them, that bounds are
numbers, that there are finitely many threads (`TextExtraction`), and the like;
no theorem assumes anything of the environment that is not an action of the model.

None of the properties is inductive alone. Each module of proofs states the
invariant first, proves that every action preserves each conjunct, in a lemma of
its own with one step per action, and derives the theorems from it.

**`ScanJobsProofs`**

| Theorem | Property |
|---|---|
| `TypeCorrect` | `TypeOK`, including the check constraint `valid_claim` |
| `ExclusiveClaims`, `KeptClaims` | `SingleOwner`, `PublisherOwns` |
| `TrueVerdicts`, `CompletedVerdicts` | `VerdictWasAnswered`, `CompletedMeansVerdict` |
| `FinalVerdicts` | `VerdictFinal` |
| `AuthorizedVerdicts` | `PublishesForAdministrators` |
| `JudgedUnderLock` | what `Extractions` assumes of verdicts (`Judge`) |
| `NoLockCycle` | `HoldersGoOn`: see "Locks" below |
| `ToldTrail`, `NamedRequester` | `AuditTrail`, `RequesterAudited` |
| `Refinement` | `ImplementsLifecycle`: initial states map to initial states, every step to a step of `RevisionLifecycle` or to a stutter |

    Inv == TypeOK /\ Memory /\ Locking /\ Rows /\ Claims /\ Contents /\ Vouching

- `Memory`: a process that is under way knows its version, user and token.
- `Locking`: the label of a process says which row locks it holds. As a lock has
  one holder, two processes are never both in the critical labels of a version.
- `Rows`: what was read under the version lock is still so at the commit: a
  synchronous scan that has the lock still finds no final verdict, an enqueue
  still finds no active job. It rests on `Locking`: every writer of the status
  holds the version lock at that moment.
- `Claims`: tokens are fresh at the claim, so two workers with one token on one
  job are one worker (`SingleOwner`); the job row is locked from the fence to
  the commit, so no claim comes between (`PublisherOwns`). Neither mentions
  time: the lease, the clocks and their skew decide who gets to publish, never
  whether two do. The owner acts for the row's requester (`Acting`).
- `Contents`: a verdict in a process's memory was the scanner's answer on the
  version it will be written to (`Known`), hence so is the published one.
- `Vouching`: a worker that may still publish has seen the role under its locks.

`FinalVerdicts` follows from `Rows` and the guard of `Publish`; the refinement
maps `Publish` to `Decide`, `Agree` or `Refuse` with `PublisherOwns` (the job is
running) and `Acting` (the event carries the requester's name), and every other
worker step except the first claim to a stutter. The two properties of the audit
trail are proved of the abstract steps, as the invariant `Trail`, and carried
down by the refinement: seven abstract actions instead of some twenty-five.

**`UploadsProofs`** proves every safety property of the run: `TypeCorrect`
(`TypeOK`), `NamedIsStored` (`NamesStoredObject`), `NamedIsIntact`
(`WrittenOnce`), `SuccessIsStored` (`OrphansWereRefused`), `FixedContent`
(`ContentFixed`), `AuthorizedContent` (`StoredForAdministrators`), `AtomicUpload`
(`UploadIsAtomic`, the refinement of `RevisionLifecycle`); and `RowsUnlocked`.

    Inv == TypeOK /\ Known /\ Locking /\ Objects /\ OrphansWereRefused /\ Vouching

`Locking` says that a request past its check of the row holds the lock and still
finds no content. `Objects` is why nothing is written twice: keys are fresh, so
no two requests write under one; the conditional PUT writes under a key only if
nothing is there, hence its repetition or its late effect changes nothing; and a
request commits only after one of its PUTs was effective.

**`ExtractionsProofs`** proves every safety property of the run: `TypeCorrect`
(`TypeOK`), `SavedIsStored` (`ArtifactStored`), `SavedIsCleared`
(`SavedTextWasCleared`), `CompletedIsSaved` (`CompletedNamesArtifact`),
`FinalCompletion` (`CompletionFinal`), `AuthorizedSaving`
(`SavedForAdministrators`), `AddedEvents` (`EventsAddUp`), `Refinement`
(`ImplementsLifecycle`); and `NoLockCycle` and `StagesAdvance`.

    Inv == TypeOK /\ Known /\ Locking /\ Publishing /\ Artifacts /\ Claims /\ Vouching

`Publishing`: from the PUT to the commit the object is in the bucket; past the
second check, under the lock, the text is cleared and the version has no other
artifact than the one that is about to be named. `Locking` keeps a worker's
claim its own from `locked_claim` to the commit, on the saving and on the failure
path. `Claims`: a worker whose token the job carries works for its requester,
so the events of the refinement carry the right name. `AddedEvents` is again an
invariant of the abstract steps.

**`TextExtractionProofs`**: `BoundedChildren` (`ChildrenBounded`), `IntactService`
(`ServedIntact`), `FittingTexts` (`TextFits`), `NoFileLeft`.

    Inv == TypeInv /\ Named /\ Accounted /\ FilesOpen /\ ServedIntact
             /\ PagesCounted /\ ParsedPlain /\ TextFits

`Accounted`: the free slots and the threads between acquire and release make up
all slots, and every child has one thread waiting for it. The bound follows from
cardinalities, for it is a subset of the holders. `PagesCounted`: the number the
child counts, page by page and newline by newline, is at every moment the length
of the text it would join (`JoinedLength`), and within the limit; so it is when
the child joins. `JoinedLength` is a recursive function over the pages. That it
satisfies its equation, and that appending a page adds the page and a newline,
are lemmas here (`EndsDefined`, `JoinedPage`). The induction they need is not
taken from the library, whose induction theorems have operators as parameters,
which the backends cannot instantiate: it is stated with a set (`Induction`) and
derived from the pigeonhole theorem. `NoFileLeft` says that the open files are
those of the threads under way, no more and no fewer.

**`ReviewsProofs`**: `EvidenceHolds` (`EvidenceQuoted`), `FreshAccess`
(`AccessRechecked`), from `Inv == TypeInv /\ Access /\ Quoting`. `Quoting`: from the
reading of the source to the delivery the review's text is the saved text of a
cleared contract, which nobody changes, and a draft that was kept quotes it;
`Access`: the membership that is about to be read, or was read, was there since
the review last received something. `BoundedCalls`: no more than `Attempts` calls,
and none after an answer that was kept; the invariant is that a review which may
still call has a call left. Its hypothesis, that `None` is no set of findings,
is about the encoding of "no draft" only; TLC cannot evaluate it, so it stands
with the theorem and not among the assumptions of the module.

**`RegistryProofs`**: `OrderedNumbers` (`NumbersInOrder`), `ChainedRenames`
(`RenamesChain`), from `Inv == TypeInv /\ Memory /\ Numbering /\ RenamesChain`.
`Memory`: who is about to register or to rename holds the lock, and the old name
in its memory is still the name; `Numbering`: the number in its memory is still
the next.

**`LibraryProofs`**: `SelectionShown` (`ShowsSelection`), `SentOnce`
(`NoResubmission`).

    Inv == TypeInv /\ ShowsSelection /\ SoundForm(form) /\ \A k \in Kinds : SoundQueue(queue[k])

The argument is about keys. A read asks for some fields of the selection; every
one of them is in the key of its component or in that of a parent (`KeysCover`).
So a component that `Render` keeps after an event has the fields it asked for
unchanged, and what it got still answers what is selected (`RenderShows`); one
that is mounted anew has got nothing yet. A selected revision is one that the
present page shows (`ShownRevisions`). Forms and buttons: `SoundForm` and
`SoundQueue` say that whatever was sent once is either still awaited or ended in
a state from which the component does not send; only a remount starts afresh.
Beyond the constants' being distinct the assumption is that `None`, for nothing
submitted or answered, is not `"active"`, the state of a queued or running job.

**Locks.** `NoLockCycle` of `ScanJobsProofs` and of `ExtractionsProofs` is the
safety half of "nobody waits for ever": a process that holds the lock of a
version or of a job is not waiting for another (`HoldersGoOn`), so there is no
cycle of waiting, whatever their number; and a process that is done, idle or
dead holds none. The invariant added for it is `Held`, the converse of `Locking`:
a locked version has a process at one of the labels that imply the lock, and a
locked job is locked by the holder of its version's lock, at a label before a
commit. In `Extractions` the statement also says that no lock is held while the
store is read or written or a document parsed; a synchronous scan and an upload
do hold their version through a transfer, and `RowsUnlocked` of `UploadsProofs`
says that a row is locked just from the check to the commit.

**Only model-checked.** All liveness (`RequestsFinish` twice, `JobsSettle`,
`UploadsFinish`, `ResourcesReturn`, `ReviewsFinish`): fairness and ENABLED are
beyond the prover. Nothing proved here depends on any of these. Every invariant
and every action property of the runs is a theorem.

## 7. What is not modelled

- Bytes: the clamd protocol, digests, body parsing, the structure of PDF and
  DOCX. They enter as outcomes. The DOCX parser is one sequential pass over one
  XML stream within one thread: it shares nothing and keeps nothing.
- Pure reads (`get`, `list`, `versions`): they change nothing. What a read
  can show when it is late is the subject of `Library`.
- HTTP routes: they map exceptions to status codes and keep no state. Where a
  route decides about a resource (streaming, queueing, creating) it is part of
  the module that models it.
- Configuration and start-up: settings are read and checked once, and no state
  changes afterwards. Migrations are the history of a schema and run by an
  operator; the schema they end in is in the models. The trigger that makes
  `audit_logs` append-only is the reason that the models only append.
- `sample.ts`: constant data for a preview without a server. That preview
  reads are keyed like those of a server is in `Library`.
- Token verification: the code has one configured development identity.
- Cross-tenant lookups: one tenant is modelled. Every query carries the tenant
  of the principal; that is a property of each query by itself and not of their
  interleaving.
- Isolation anomalies other than those of READ COMMITTED with row locks, and a
  database or bucket that loses committed data.

No disagreement between the code and its documentation was met in the parts
modelled so far.
