# Verification of the Smart Knowledge Hub backend

TLA+ models of the parts of this NestJS backend whose correctness depends on the order in which
things happen: request handlers that await between reading and writing, BullMQ workers that retry,
stall and race with edits, caches that outlive what they cache. TLC checks the models on small
instances; TLAPS proves the main theorems for every value of the constants. The reference is the
code under `src/`; `PROJECT.json` maps every definition to the lines it stands for.

## 1. The system

| Component | State | Operations | Talks to |
|---|---|---|---|
| Document service (`modules/document`) | `document`, `document_storage_key`, `document_permission` rows | create, update, retry ingestion, delete, restore, list, view | ingestion queue, object store, caches, sockets |
| Ingestion worker (`modules/rag`) | `document_chunk` rows, BullMQ jobs | `process`, `onFailed`, `addChunks` | document table, parsers, embedding service, caches, sockets |
| Trash cleanup worker | purge jobs | hourly `scan`, `purge` | document table, object store, caches |
| Retrieval and answers (`modules/chat`) | question-embedding and similar-chunk caches | `generateAnswer`, `searchSimilarChunks`, `validateSimilarChunks` | chunk table, permissions, language model |
| Chat messages and sessions | messages, answer sources, sessions, titles | `chatAsync`, session CRUD, title worker | retrieval, demo quota, unanswered questions |
| Unanswered questions, FAQ | `unanswered_question` rows, one FAQ document per space | resolve | document repository, ingestion queue |
| Knowledge spaces, members, types, categories | spaces, memberships with roles, versioned list caches | CRUD, invite, kick, leave, change role | e-mail queue, caches |
| Authentication | users, refresh tokens, one-time codes | login, refresh, logout, recover password | cache, e-mail |
| Demo access | demo sessions, hourly and daily counters | create, reserve a question, revoke, clean up | chat |
| Realtime status | sockets joined to a room per user | audience query, emit | document table, memberships |
| Infrastructure | Redis, BullMQ, S3-compatible store, PostgreSQL | | |

How they interact. A handler commits a row and *then* puts a job on a queue; the worker reads the
row *later*, works outside any transaction, and commits in a transaction of its own. Nothing but
`updated_at`, used as a version, ties the two together. After a commit the handler or the worker
bumps two cache version keys (errors are logged) and may emit a socket event, in separate awaits.
The object store is outside every transaction; what keeps a file alive is a query on the document
table made one await before the deletion.

What is hard:

* an edit, a retry, a deletion or a restore in the middle of an ingestion; several jobs for one
  document; a job delivered although `queue.add` rejected; jobs that carry no version;
* a commit whose enqueue fails, a server or a worker that dies between two awaits;
* two clocks: rows are stamped by PostgreSQL or by whichever application server built the entity;
* the deadline of the trash, where a restore and a purge meet, with one file shared by several
  imported documents;
* caches written from a read that is older than the invalidation they should respect;
* unlocked read-modify-write elsewhere: the FAQ document, the last-owner guard, refresh-token
  rotation, one-time codes.

What makes each component correct, and the properties that say so:

| Component | Correct when | Properties |
|---|---|---|
| Documents and ingestion | Ready means current; Processing is being worked on; versions advance; outcomes stand; ingestion ends | `ReadyMeansCurrent`, `ProcessingIsPursued`, `VersionsAdvance`, `OutcomeStands`, `IngestionSettles`, `ImplementsContract` |
| Trash and storage keys | files of recoverable documents exist; the trash columns agree; a key has one owner; a purge is final and happens | `RecoverableKeepsFile`, `TrashState`, `KeysExclusive`, `PurgeIsFinal`, `TrashIsEmptied` |
| Chunking and embedding | no passage is lost at a seam; a vector belongs to its text | `PassagesStayWhole`, `VectorsMatchChunks` |
| Realtime status | only readers of a version hear of its outcome, once; those who wait for it do hear | `EventsWereEntitled`, `ToldOnce`, `OutcomesAreTold` |
| Reading documents | lists and searches show what their reader could see; details and downloads too, unless overtaken | `ListsAreCurrent`, `ReadsAreEntitled` |
| Retrieval | sources were readable all at one moment; the cache costs no answer | `SourcesWereReadable`, `CacheIsTransparent` |
| Chat sessions | an answer's turn sees to the title; later turns leave it alone | `TitledUnlessFailed`, `TitleSettles` |
| FAQ | the linked document is active and gets indexed; a question is answered once; nothing is lost without a race | `FaqIsActive`, `FaqIsQueued`, `ResolvedOnce`, `UndisturbedLosesNothing` |
| Members | roles change on purpose; the last owner goes only by a race | `RolesMoveOnPurpose`, `OwnerLostOnlyByRace` |
| Types and categories | a cached list that can be found is the table's | `StoredListIsFresh` |
| Lists, page by page | a row is missed or read twice only for a cause | `MissedOrRepeatedForCause` |
| Refresh tokens | nobody is signed out without a reuse; a reuse ends all sessions but one in exchange; a token is exchanged twice only by a race | `NoFalseAlarm`, `CutEndsSessions`, `ExchangedTwiceOnlyByRace` |
| Accounts | a password is set only by who got the mail; codes are spent twice only by a race | `RecoveredByMailedCode`, `SpentTwiceOnlyByRace` |
| Demo access | budgets are exact; limits of an address hold; only an active session asks | `BudgetIsExact`, `AddressLimitHolds`, `AskedWhileActive` |

## 2. Modules

| Module | Models | State in the model and in the code |
|---|---|---|
| `DocumentRow` | what each transaction of the repositories writes into a row of `document` | pure operators |
| `DocumentLifecycle` | document handlers, ingestion and purge jobs | `rows`, `chunks`, `registered` are tables, `objects` the store, `calls` handlers, `jobs` and `purges` BullMQ |
| `DocumentContract` | the abstract specification: submit, publish, give up, retry, discard, recover, doom, erase, each atomic | the status a client sees |
| `Chunking` | `chunkText`, the worker's and the client's batches, the pairing by index | the locals of `process` and `generateEmbeddings` |
| `StatusNotification` | commits, audience query and emit, sockets that join their room | `row`, `members`, `grants` are rows; `rooms` socket.io's; `calls` whoever notifies |
| `DocumentAccess` | cached list, search, detail, download, grants, visibility | `docs`, `grants` tables; `version`, `pages` cache keys |
| `ListCache` | the cached lists of space types and categories | `table` rows; `version`, `stored` cache keys |
| `Paging` | skip/take and count of all lists | `rows` a table, `reader` a client with its page |
| `ChatRetrieval` | search, similar-chunk cache, validation, generation | `docs` with their chunks; `version`, `cache` cache keys |
| `ChatTurn` | sessions, turns, titles and their worker | `sessions`, `messages`, `sources`, `unanswered` tables; `jobs` the title queue |
| `FaqResolution` | resolving questions into the FAQ document | `open`, `docs`, `faq`, `category` rows; `lock` row locks; `jobs` ingestion; `patches` edits committed and not queued yet |
| `Membership` | members, roles, settings, invitation mails | `role`, `settings` rows; `mails` the e-mail queue |
| `SignIn` | refresh tokens: login, refresh, logout, reuse detection | `tokens` the table |
| `Accounts` | registration, changes of password, recovery | `users`, `password` columns; `otp`, `reset` cache keys |
| `DemoQuota` | sessions per address, budgets, revocation, cleanup | `session`, `usage` tables; `ipLock` advisory, `dayLock` row locks |
| `MCDocumentLifecycle`, `MCSignIn`, `MCMembership`, `MCFaqResolution`, `MCStatusNotification` | instances for TLC | |
| `DocumentLifecycle_proofs`, `DocumentFiles_proofs` | theorems about `DocumentLifecycle` and its refinement of `DocumentContract` | |
| `StatusNotification_proofs`, `FaqResolution_proofs`, `Users_proofs`, `Spaces_proofs` | theorems about the parts of `MCStatusNotification`, `MCFaqResolution`, `MCSignIn` (but `SignIn`) and `MCMembership` (but `Membership`) | |
| `SignIn_proofs`, `Membership_proofs` | theorems about these two | |

Everywhere a handler in flight is a record in `calls` (a job in a variable of its own) whose `pc`
names the await it has reached. Requests are numbered or drawn from a set and issued once; that is
the only bound on them. Variables marked *history* record what properties need to say of the past
(what a caller could see while his request was handled, who was overtaken) and steer nothing.

How the modules fit together. `DocumentLifecycle` has the transactions of a document in full. The
other modules see as much of it as matters to them: `StatusNotification`, `DocumentAccess`,
`ChatRetrieval` and `FaqResolution` each have a reduced row whose changes (edit, outcome, deletion,
restore, sharing) are those transactions as seen from there, and `ChatTurn` takes retrieval and
the quota, which are `ChatRetrieval` and `DemoQuota`, as one step each. That a document appears to
the others as the reduced row does is what `DocumentContract` and its refinement are for.

### The lifecycle

State. `rows` is the document table, `chunks` the text each document's chunks were cut from,
`registered` the table of storage keys, `objects` the keys with an object in the store. `clock` is
the database's clock; handlers that stamp with `new Date()` use `clock` or `clock + Skew`.
`updated_at` and times are naturals, 0 is NULL.

Granularity. A database transaction (or a single statement) is one step, because rows are locked
`FOR UPDATE` or compared in the `WHERE` clause. Everything between two awaits belongs to the step
before it. `UpdateRead`/`UpdateCommit`, `RetryRead`/`RetryClaim`, `Enqueue` or
`EnqueueError`/`EnqueueRollback`, `CheckReplaced`/`UnlinkReplaced`, `JobRead`/`JobCommit`/`JobAck`
and `PurgeClaim`/`PurgeCheck`/`PurgeUnlink`/`PurgeFinalize` are the handlers cut at their awaits.
Deleting and restoring are one transaction each. The scan of one document and the `queue.add` that
follows are one step: a document it lists can no longer be restored, and a purge job that finds its
document purged does nothing.

BullMQ, as the options in `src/` configure it: a job has `Attempts` attempts; a failed attempt runs
again, the last one calls `onFailed`; a job whose worker dies is handed out again at most `MaxStalls`
times (`maxStalledCount`, default 1) without counting an attempt, and then fails with unspent
attempts, for which `onFailed` returns early; a `jobId` that is still queued drops a second `add`;
`queue.add` may reject although the job reached Redis.

Initial states. No documents, or imported ones: rows written before the key registry existed, which
may share a file (the migration's integration test has two), whose key the backfill may or may not
have registered, and whose jobs may carry no `expectedUpdatedAt`. Every key is an upload that has
finished. The development script `prisma/seed.ts` writes Ready rows without chunks; such rows are
outside the initial states.

Abstractions. A text or a storage key stands for what is cut from it (chunks and vectors are a
function of the text, the bytes under a key do not change). Title, category, visibility, permissions
and file size steer none of these transactions. The version keys of the caches and the socket event
touch no state of this module. Authorisation and validation failures end a handler before it changes
anything and are not separate steps.

### The other modules

Each statement outside a transaction is a step. A transaction is one step where it locks or compares
what it relies on, and is cut at its locking statements where others can come in between: an
advisory lock and then a count (`DemoQuota`), `SELECT ... FOR UPDATE` and then a check
(`FaqResolution`). Reads that the code makes one after the other are separate steps even when they
look like one question: role, count of owners and write (`Membership`), visibility, permission and
content (`DocumentAccess`), token and revocation (`SignIn`), code, comparison and deletion
(`Accounts`), rows and count (`Paging`), every await of a turn (`ChatTurn`).

Failures. Every cache call may fail and is then only logged; a failed read of a version means that
nothing is cached (`NoVersion`, `Unknown`). A failed invalidation sets `lost` or `stale`, so that
properties can say what holds even then. Every statement may fail and end its handler half-way;
a transaction rolls back and gives up its locks. Jobs that the code adds without `attempts` (titles,
invitations) run once.

Data. Texts are identities; similarity is a number per document; a vector is named by the window it
was made for; the version of a cache, in the code a random UUID, by the change or request that sets it, so
that no two are alike; passwords, codes and tokens are identities, their hashes are not modelled; a text of
an FAQ document is the set of answers it holds; the texts of mails and messages are left out. Time
in `SignIn` and `DemoQuota` is a clock of few ticks, in whose units lifetimes are given.
A refused request (validation, authorisation) that changes nothing is not a step.

## 3. What is checked

Bounds are constants in the action guards (`Requests` issued once each, `MaxFaults`, `MaxClock`).
`CHECK_DEADLOCK FALSE` everywhere: when every request is spent, no job is left and the clock has
reached its bound, the system rightly rests.

| Run | Instance | Shows |
|---|---|---|
| `Ingestion` | 1 new document, any 3 requests, 2 attempts | `ReadyMeansCurrent`, `ProcessingIsPursued`, `VersionsAdvance`, `OutcomeStands`, `TypeOK` |
| `IngestionFaults` | 1 import with an unversioned job, 2 requests, 2 crashes, 1 stall, skewed clocks | `ProcessingIsPursued`: only what a crash took is forgotten |
| `Trash` | 2 imports sharing a file, a free upload, any 3 requests, deadlines | `RecoverableKeepsFile`, `TrashState`, `KeysExclusive`, `PurgeIsFinal` |
| `Contract` | 1 import, 2 requests, ingestion and purge | `ImplementsContract` |
| `Liveness` | 1 new document, 2 requests, 2 attempts, 1 crash, under `FairSpec` | `IngestionSettles`, `TrashIsEmptied` |
| `Documents` | texts of up to 30 tokens (10 windows), batches of 3 in calls of 2; 5 versions and 2 changes around one user | `PassagesStayWhole`, `VectorsMatchChunks`; `EventsWereEntitled`, `ToldOnce`, `OutcomesAreTold` |
| `Questions` | 3 requests that resolve 2 questions or delete, 1 edit in its two awaits; 3 turns of a member and a demo account that may stop after any write | `FaqIsActive`, `FaqIsQueued`, `ResolvedOnce`, `UndisturbedLosesNothing`; `TitledUnlessFailed`, `TitleSettles` |
| `Spaces` | 4 requests on a space of 2 accounts; 3 on a document with a viewer and an editor; 3 on two cached lists; pages of 1 or 2 of 3 rows with 3 timestamps, 2 changes; 4 requests of a demo address over 3 days | `OwnerLostOnlyByRace`, `RolesMoveOnPurpose`; `ListsAreCurrent`, `ReadsAreEntitled`; `StoredListIsFresh`; `MissedOrRepeatedForCause`; `BudgetIsExact`, `AddressLimitHolds`, `AskedWhileActive` |
| `Users` | 4 requests, 3 tokens, 2 users; 5 requests on 2 addresses; 2 questions on 2 documents, 1 change | `NoFalseAlarm`, `CutEndsSessions`, `ExchangedTwiceOnlyByRace`; `RecoveredByMailedCode`, `SpentTwiceOnlyByRace`; `SourcesWereReadable`, `CacheIsTransparent` |
| `Runs` | 1 import, 3 attempts, 1 crash; expected violation | `RunsBounded` fails |
| `LastOwner` | 4 requests on a space of 2 accounts; expected violation | `HasOwner` fails |
| `FaqAnswers` | 2 resolutions, no edits; expected violation | `AnswerIsInFaq` fails |

Four runs check several modules side by side: a variable `part`, fixed at the start, says whose
steps a behaviour consists of, while the variables of the others keep their first value. The modules
in such a run share no variable, so every interleaving of their steps is, for each module, one of
its own behaviours with stuttering, and safety properties that speak of one module each lose
nothing. The liveness property `OutcomesAreTold` speaks of `StatusNotification`, and its fairness
condition is on that part only; an action of another part would not disable it.

Why these bounds are enough to be interesting. The races of one document need one request that
starts an ingestion, one that interferes and one that reacts (create, edit, retry; create, delete,
restore): three requests, two jobs alive at once, one clock value so that every commit collides with
the previous one in time. A shared file needs two documents and three requests (delete one, restore
it or edit the other, replace a file), a deadline one tick away and a clock that passes it. Two
attempts separate "runs again" from "gives up". `Liveness` uses no symmetry, which would be unsound
for it, and so does `Documents`; the other runs permute request identities, users, accounts or
questions, which no property tells apart.

In the other modules a race needs two handlers and something they both read: two owners, two
editors, two holders of a token or a code; a third request comes before them (an invitation, a
login, a first resolution) or reacts to what they left (another reader of the cache). `Membership`
has three users of whom two have accounts, so that lists of targets with an unknown user occur.
`MaxTokens` is a login and two exchanges of its token. `Documents` allows two outcomes with an edit,
a deletion or a restore between them. A list of three rows has full and partial pages of two, and
rows of one timestamp; with two changes one row may come ahead of a reader and another go.
A text of ten windows takes four batches of three, each sent as two and one.
`Short`, `Long`, `Timeout`, `Day` and the like are the smallest numbers that keep the order of what
they stand for and let the clock pass each of them; a demo session of one tick is shorter than the
hour its address is counted over. With a limit of one, a demo session or day is at its
limit after one question and past it after two.

What each property says:

* `ReadyMeansCurrent`: the chunks of a Ready document were cut from the text it has now. It rests on
  the snapshot check of `addChunks`, and breaks if that check looks at the status only.
* `ProcessingIsPursued`: a Processing document has a handler about to enqueue or roll back exactly
  its version, or a live job for it. It breaks if an edit of the title does not re-enqueue.
  `orphaned` records the versions whose actor a crash took: the code has no sweeper for them.
* `VersionsAdvance`, `OutcomeStands`: what all compare-and-sets rest on, and what they buy.
* `RecoverableKeepsFile`: both cleanups check and then delete in two awaits; it holds because the
  registry never hands out a used key again and because a purge starts only at a deadline that no
  restore can pass.
* `TrashState`: the CHECK constraint of the migration, and that a claim implies a passed deadline.
* `KeysExclusive`: only imports ever share a key.
* `PurgeIsFinal`: nothing touches a purged document, and no text is left behind.
* `ImplementsContract`: to its clients a document behaves as if indexing were atomic.
* `PassagesStayWhole`, `VectorsMatchChunks`: windows overlap by what they should at both ends of a
  text, and a reply that is one vector short fails the attempt before positions shift.
* `EventsWereEntitled`: the audience is queried under the version that was settled; it would break if
  the query looked at the document only. `ToldOnce`: a worker and a handler whose enqueue was refused
  may both try to settle one version. `OutcomesAreTold`: who was there and may still read is told,
  unless the version was overtaken or a call failed.
* `ListsAreCurrent`: a list is what its reader was entitled to at *some* moment of the request. A page
  from the cache is validated against the database, so lost invalidations do no harm.
* `ReadsAreEntitled`: a detail and a download are put together from statements none of which locks
  anything. Both go only to who could see the document during the request, and show a version he
  could see with two exceptions that the property names: a detail reads the row again after it was
  checked, and shows what has been taken from its reader in between; a download signs a path that was
  replaced before the permission was asked for.
* `SourcesWereReadable`, `CacheIsTransparent`: the same for the sources of an answer, and that, with
  nothing changing, a cached search finds what a fresh one would: the public and the restricted
  chunks, the threshold and the limit.
* `StoredListIsFresh`: these two lists are served *without* validation, so what keeps them right is
  the order of insert, new version and deletion; either part of an invalidation is enough alone,
  except while a reader is about to store what it had queried.
* `MissedOrRepeatedForCause`: what skip and take promise while rows come, go and move between two
  pages, and between a page and its count, where `hasNext` is already about another table. Only a row
  that left from ahead hides one, only one that came ahead repeats one. The lists without an id in
  their order (`byId`) promise it of rows whose timestamp is no other's; of the rest nothing can be
  promised, because each statement may put them in another order.
* `TitledUnlessFailed`, `TitleSettles`: turns read the title at their start and act on it at their end.
  The first is said of each answer's turn: while there is no title it is under way, or its job is, or
  its own try has failed, be it that the process died after the reply. What was written before stays.
* `FaqIsActive`: linking and deleting lock the same row. `FaqIsQueued`: the job that is queued is for
  the version that was written; an edit in between commits and queues in two awaits of its own, and
  takes its version back if the queue refuses. It excuses only the very version that was lost.
  `ResolvedOnce`: `updateMany ... resolved_at IS NULL` decides.
  `UndisturbedLosesNothing`: what read and write without a lock do achieve.
* `OwnerLostOnlyByRace`: what `guardLastOwner` achieves, next to `HasOwner`, which it does not.
  `RolesMoveOnPurpose`: an invitation in flight does not promote or degrade who is a member already,
  nor does a change of role bring back who was kicked.
* `NoFalseAlarm`: a token expired or logged out is not mistaken for a reused one. `CutEndsSessions`:
  of the sessions a user had when reuse was detected (each a login and all that was exchanged for
  its token, one after the other) none has a valid token afterwards, *but* one whose token a handler
  had read and was about to exchange: its successor is issued after the revocation and lives on. The
  message "All sessions have been revoked for security" (`auth.service.ts:395`) is right up to this
  race. `ExchangedTwiceOnlyByRace`, `SpentTwiceOnlyByRace`:
  a token, a code or a reset token is honoured twice only by a handler that had read it before the
  other one revoked it. These say exactly how far the code goes without a lock.
* `RecoveredByMailedCode`: over the two exchanges of a recovery (code for token, token for password),
  with several addresses, repeated requests and failing mails.
* `BudgetIsExact`: the day and the session are counted in one transaction, so a question that either
  refuses costs neither, and no day grants more than its budget. `AddressLimitHolds`: the advisory
  lock makes count and insert one. `AskedWhileActive`: the session is read without a lock first and
  compared again in the statement that counts. Revocation is compared as of that statement; the
  expiry with a clock read before it, so a statement that waits for the row may count a question of
  a session that has expired for at most `Timeout`, the 15 s a transaction lasts.
* `RunsBounded` (violated): the realtime guide promises at most three runs of a job; a worker that
  dies gives it a fourth, because BullMQ does not count a stalled run as an attempt.
* `HasOwner` (violated): the comment of `guardLastOwner` says that it blocks removing every owner.
  Two owners who leave at the same time both count two.
* `AnswerIsInFaq` (violated): the controller's documentation says that the answer is folded into the
  FAQ document. Two resolutions at the same time overwrite each other, or create a document each.

Types. `TypeOK` of `DocumentLifecycle` is checked by `Ingestion`. The type invariants of the other
modules are left to the proofs (section 4), which state them as theorems or carry what they need of
them in their inductive invariants.

Fairness. Handlers that have started run on (the Node event loop), time passes, BullMQ keeps handing
out jobs, the hourly scheduler keeps scanning: weak fairness of `Tick`, of some call step, of some job
step and of each document's `Scan`. A purge attempt may fail and start over, so its steps need
strong fairness: an attempt that is made again and again does not fail for ever. Nothing is assumed
of ingestion attempts, which may all fail, nor of crashes; a purge is retried without bound because
each scan adds the job anew. `IngestionSettles` excludes orphaned versions: a document whose worker
stalled too often stays Processing in the code until somebody edits it.

In `Documents` the steps of whoever notifies (`NotifyStep`: query and emit) are weakly fair: they
are consecutive awaits of one handler, which the event loop runs on. That a version gets settled at
all is not assumed here; that is `IngestionSettles`. A query or an emit that fails, or whose process
dies, is a step of its own (`DropEvent`) and excuses the notification, because the code has no replay.

## 4. What is proved

Every safety property that a passing run checks is also a theorem: for every value of the constants,
not only for those of the run.

Assumptions. They are the named `...Assumption`s, and TLC evaluates each of them in some run.

* Lifecycle: `RetentionAssumption` (the retention is positive, as the repository's constructor
  demands), `ValuesAssumption` (the markers for "no text", "keep" and "no key" are not texts or keys),
  `SeedsAssumption`, `BoundsAssumption`. The sets of documents, keys, texts and requests and the bounds
  are arbitrary, none of the sets is assumed finite.
* `SignInAssumption`, `StatusAssumption`, `FaqAssumption`: bounds are naturals, markers are no members
  of what they mark. `MembershipAssumption`: also that there are finitely many users, because owners
  are counted.
* `PartsAssumption` of an MC module: the assumptions of the modules it instantiates. Beyond bounds and
  markers they say: `Chunking`, that the overlap is less than the window and batches are not empty
  (`chunkText` and the constants it is called with); `Accounts`, that a password made up by a
  request is none that somebody chose; `ChatRetrieval`, that there are finitely many documents and
  that similarities are naturals (they are only compared); `DemoQuota`, that limits and the
  lifetime of a session are positive, as the configuration is validated, and that an hour and the time
  of a transaction (15 s, `demo.repo.ts:81`) together are no longer than a day; `ListCache`, that
  neither "never set" nor "could not be read" is a version some request makes up; `Paging`, that a page
  has at least one row, as the request DTO demands.

`PartsSpec` is the specification of the MC module, whose constants are arbitrary here: each behaviour is
one of one part, while the others keep their first value (section 3).

| Module | Theorem | Statement |
|---|---|---|
| `DocumentLifecycle_proofs` | `TypeCorrect` | `Spec => []TypeOK` |
| | `ReadyIsCurrent` | `Spec => []ReadyMeansCurrent` |
| | `TrashIsConsistent` | `Spec => []TrashState` |
| | `VersionsMonotone` | `Spec => VersionsAdvance` |
| | `OutcomesStand` | `Spec => OutcomeStands` |
| | `PurgesAreFinal` | `Spec => PurgeIsFinal` |
| | `Implementation` | `Spec => ImplementsContract` |
| `DocumentFiles_proofs` | `FilesAreKept` | `Spec => []RecoverableKeepsFile` |
| | `KeysAreExclusive` | `Spec => []KeysExclusive` |
| | `ProcessingPursued` | `Spec => []ProcessingIsPursued` |
| `StatusNotification_proofs` | `TypeCorrect` | `Spec => []TypeOK` |
| | `OnlyReadersAreTold` | `Spec => []EventsWereEntitled` |
| | `NobodyIsToldTwice` | `Spec => []ToldOnce` |
| | `NoPassageIsCut` | `PartsSpec => []PassagesStayWhole` |
| | `VectorsAreOfTheirText` | `PartsSpec => []VectorsMatchChunks` |
| `FaqResolution_proofs` | `TypeCorrect` | `Spec => []TypeOK` |
| | `LinkIsNeverDeleted` | `Spec => []FaqIsActive` |
| | `AnsweredByOne` | `Spec => []ResolvedOnce` |
| | `LinkedIsQueued` | `Spec => []FaqIsQueued` |
| | `UndisturbedAddsItsAnswer` | `Spec => UndisturbedLosesNothing` |
| | `AnsweredAreTitled` | `PartsSpec => []TitledUnlessFailed` |
| | `LaterTurnsKeepTheTitle` | `PartsSpec => TitleSettles` |
| `SignIn_proofs` | `TypeCorrect` | `Spec => []TypeOK` |
| | `FalseAlarmNever` | `Spec => []NoFalseAlarm` |
| | `CutSessionsEnd` | `Spec => []CutEndsSessions` |
| | `ExchangedOnceWithoutRace` | `Spec => ExchangedTwiceOnlyByRace` |
| `Users_proofs` | `RecoveredByOwner` | `PartsSpec => []RecoveredByMailedCode` |
| | `SpentOnceWithoutRace` | `PartsSpec => SpentTwiceOnlyByRace` |
| | `SourcesAreReadable` | `PartsSpec => []SourcesWereReadable` |
| | `CacheCostsNoAnswer` | `PartsSpec => []CacheIsTransparent` |
| `Membership_proofs` | `TypeCorrect` | `Spec => []TypeOK` |
| | `LastOwnerLostByRace` | `Spec => OwnerLostOnlyByRace` |
| | `RolesOnPurpose` | `Spec => RolesMoveOnPurpose` |
| `Spaces_proofs` | `ListsWereEntitled` | `PartsSpec => []ListsAreCurrent` |
| | `ReadersWereEntitled` | `PartsSpec => []ReadsAreEntitled` |
| | `BudgetsAreExact` | `PartsSpec => []BudgetIsExact` |
| | `NobodyAsksUncounted` | `PartsSpec => AskedWhileActive` |
| | `AddressesAreLimited` | `PartsSpec => []AddressLimitHolds` |
| | `StoredListsAreFresh` | `PartsSpec => []StoredListIsFresh` |
| | `RowsAreMissedOrRepeatedForCause` | `PartsSpec => []MissedOrRepeatedForCause` |

### The lifecycle

The argument. `ReadyMeansCurrent` is not inductive: a worker carries a text it read long ago. The
invariant `IInv` adds `SnapshotsHold` (a job that is indexing for the version the row still has
carries the row's present text) and `VersionsKnown` (no handler and no job knows a version the row
has not reached, so a new version cannot suddenly match an old text), `AbsentIsBlank` (a document
that does not exist is a blank row, hence the first version is an advance), `TrashState` and
`PurgedIsBlank`.

1. Every step leaves rows and chunks alone or is one of nine transactions on one row
   (`EveryStep`); here `JobCommit` needs `SnapshotsHold`.
2. A transaction advances the version of its row (`Advance`) and keeps the per-row part of the
   invariant (`RowInvTransaction`). Only `Tick` moves the clock, which only weakens what has to
   hold of a deadline (`ClockStep`).
3. Because versions advance, a version that still matches means an unchanged row, so what was known
   stays known (`KnowledgeStays`); each action adds only records it has just read or written
   (`RequestKnows`, `CallKnows`, `JobKnows`).
4. Each transaction is a step of `DocumentContract` or invisible to it (`ContractTransaction`).

Files. `RecoverableKeepsFile` depends on what several actors found out awaits ago. `FilesInv` adds to
`IInv` and to the two properties that an object is missing only under a key that has been taken
(`GoneIsTaken`), that a handler's replaced key is registered or still in its row (`OldIsTaken`), that
whoever is about to unlink a key still could (`CanDelete`, which no step undoes: `FreeStays`, because
what has been taken stays taken, `TakenStays`), and that a purge in progress is of a row whose deadline
has passed (`IsDoomed`). Only imports start with a shared key, and a row only ever gets a key nobody has
had (`Rekeyed`), so `KeysExclusive` is kept.

Pursuit. `PursuitInv` needs two facts beside `IInv`, since the model writes 0 for the version an old job does
not carry: a row that exists has a version other than 0 (`VersionsCount`), and so has a job that is
indexing, as it has read its row (`IndexersKnow`). `PursuitStays` shows once that
a step which leaves a document alone leaves its pursuer or hands it on; each action then accounts only
for the document it touches, and crashes put theirs into `orphaned`.

### The other modules

* `Chunking`. `PassagesStayWhole` says nothing until the cutting is done. `WholeSoFar` says it of what
  lies before the start of the next window; a window keeps it because it reaches the overlap further
  than the start of its successor. `EmbedInv` says that the vectors so far are those of the first
  `done` windows and the reply under way that of the next `sent`; that a reply has the length that was
  asked for (`CountsMatch`) is what lets both grow by the same number.
* `StatusNotification`. The event is emitted awaits after it was decided. `StatusInv` says of every
  notification under way that its outcome has been written and that its audience could read that
  version while it was current (`Justified`, from the history `entitled`, which `Recorded` ties to the
  row), and that no two notifications under way, and none of them and an event received, are of one
  version (`Apart`): settling writes a version nobody has.
* `FaqResolution`. `FaqIsActive` needs the locks: `Holding` says that a handler between lock and link
  holds the lock of an active row, and one between check and deletion holds that of a row that is not
  linked. Both cannot be, as a lock has one holder and a request one handler (`OneHandlerEach`).
  `OtherKeeps` shows once that no step of one handler takes this from another (`KeepsLocks` is what
  every step respects). `ResolvedOnce` follows from `Answered`: an accepted answer closes its question.
  `TextInv` is for what is written. A linked document that is Processing is queued, edited and about to
  be queued, or lost at its very version (`Pending`), or a handler is about to queue it (`Queued`); one
  that is about to be linked is so too, or is still of the version its handler will queue
  (`LinkRight`). A handler that nobody has disturbed since it looked has in its
  hands the text and the version the row still has (`ReadRight`), so its write only adds.
* `ChatTurn`. `TurnRight`: a turn that is past its start and saw a title is of a session that has one, and
  one that saw none will ask for one. So in a session without a title each answer's turn pursues one
  itself, or its job does, or it has failed (`Pursues`), and every job was asked for by a turn that saw
  none.
* `Membership`. `Counted` says of a handler that nobody has overtaken that its count is true *now*: the
  owners among the targets read so far, then all of them, then that an owner remains outside or none
  is among them. Each write of roles marks all other handlers as overtaken, so the count stays true or
  is not relied upon. A space that does not exist has no handlers, because its creation marks nobody.
* `SignIn`. `TokenInv`: what a handler has was presented (`Presented`), and two handlers with one token
  mean that it was presented again (`Twice`); so a handler that finds its token revoked, or is about to
  revoke everything, has a token of the user presented again as its reason (`Alarms`). For
  `CutEndsSessions`, `CutInv` adds that a session is of one user (`SessionsAreOfOneUser`) and that a
  handler that will issue a token in a session that was cut has made it one that escapes
  (`ExchangesEscape`): it had read its token before the cut, since afterwards it would have found it
  revoked. For `ExchangedTwiceOnlyByRace`, `RaceInv` adds that a token is exchanged only after it is revoked
  (`ParentsRevoked`) and that whoever comes too late to do so is marked as overtaken (`LateAreRaced`).
* `Accounts`. `RecoveryInv` carries the promise through both exchanges: a code in the cache was made up
  for that address, a reset token was given out for a code delivered to that address, and what a
  handler has compared was that (`CodesAreAddressed`, `TokensAreEarned`). `SpendInv`: what has been
  deleted is never in the cache again (`GoneForGood`: nobody makes it up twice), so whoever still goes
  on with it had compared it before and is marked (`LateAreRaced`).
* `ChatRetrieval`. `Current`: a question in flight has seen what its user may read now, so whatever a
  validation finds in one statement he could read. For the cache, while the version is up to date
  whatever is stored under it, and whatever a handler has found that goes by it, is what a search
  would find now (`CacheIsTrue`, `Filled`); a change ends that, and the next version is one nothing is
  known under. That ranking the layers (public, restricted, own) one by one and then together
  gives the nearest of all is a lemma about finite sets (`NearestByLayers`).
* `DocumentAccess`. `AccessInv`: a handler in flight has seen the list its user is entitled to now. What
  makes a detail answerable, the public row or the permission, is read in a statement of its own, and
  is remembered from then on (`Sound`). A reader whom no write has overtaken may still see what he
  was allowed, and a path he has read is still the document's (`Stands`).
* `ListCache`. A stale list that can be found, or that a reader is about to store, is awaited by a writer
  who will set a new version or delete it (`StaleIsAwaited`); a new version reaches nothing, as nobody
  knew it (`NewIsUnknown`). The one way out is an invalidation both parts of which failed (`lost`).
* `Paging`. A row's place is the number of rows ahead of it, and a row whose order is decided stands
  there in whatever order a statement returns (`PlaceIsDecided`, on finite sets by `AllPlaces`). `PageInv`
  (`Followed`): a settled row that none has left from ahead of has been got, or has its place still
  before the reader; one that none has come ahead of has been got once at most, and if so, its place is
  behind. A place only moves with the rows that come or leave ahead of it (`OthersKeepTheirPlace`). The
  last page reaches past every place (`PagesReachTheEnd`, the arithmetic of `Math.ceil`), also when
  the count is of a later table than the rows, since a settled row is in both.
* `DemoQuota`. `DemoInv`: a day counts one question more than were granted exactly while a reservation
  holds its row (`DayRowsHeld`, `GrantsCounted`). `Timely` bounds the age of what a handler has read, by a
  day for a request and by `Timeout` for its transaction, so neither its day nor its session is cleaned
  up under it. `LimitInv` is for the addresses: whoever is between count and insert holds the lock
  (`IpLocked`) and has room (`RoomToInsert`); a session the count misses because it was purged is too
  old to fall into any window (`PurgedIsOld`): it was inserted at most `Timeout` after the clock its
  expiry was computed from, and cleanup waits a day after expiry or revocation.

Only model-checked: the liveness properties `IngestionSettles`, `TrashIsEmptied` and `OutcomesAreTold`,
which are beyond the proof system (fairness, ENABLED), and the three expected violations, which are
counterexamples. What a recursive definition computes for all inputs is beyond it as well; there is
none in these modules. The windows of `Chunking` are therefore cut by a step per window, and the
order of a list in `Paging` is any bijection that respects it; both *can* be reasoned about.

## 5. Not modelled, and what is left

* *Controllers, DTOs, guards, error mapping*: no state. What they let pass is in the guards of the
  actions that start a handler.
* *File extraction, language model, embedding service, mail server*: external; each call succeeds or
  fails, the embedding service may also answer with too few vectors.
* *Redis and BullMQ*: external, modelled from how `src/` uses them (attempts, stalls, job ids, keys).
* *Profiles* (`user.service.ts`): one update of the owner's own fields.
* *Evaluations, load tests, `prisma/seed.ts`, generated code, deployment*: around the system.
* *Unique names and addresses*: the second of two inserts is refused by a unique index; `ListCache`
  and `Accounts` have the race, a property would restate the index.
* Within the lifecycle: uploading again under a key that is in use (a presigned URL stays valid for
  minutes after the document exists).
* Expiry of cache entries: an entry that expires is a miss, which the models reach
  because every cache read may fail.

Next in line: a refinement of the reduced rows by `DocumentLifecycle` itself rather than by
`DocumentContract`; abstract specifications of the caches (a cached read as one atomic read), which
`CacheIsTransparent` and `StoredListIsFresh` only approach from the safety side.

## 6. Running

    tlc -workers 2 -config Ingestion.cfg MCDocumentLifecycle
    tlc -workers 2 -config Spaces.cfg MCMembership
    tlapm Spaces_proofs.tla

Each run takes at most three minutes with two workers (`Spaces` the longest), most less than one
and a half; the proofs of a module take one to two minutes, those of `Spaces_proofs` four or five.
