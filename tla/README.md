# event-gallery: a verification of the durable ingest

event-gallery lets the guests of an event upload photos and videos from a
browser. Every file travels through tusd (a resumable upload server) into an
upload directory, is recorded as a row of the SQLite table `upload_jobs`, and is
carried by a pool of workers of the Go backend into the media directory and
the table `media_items`. The part worth verifying is that path: a guest who was
told "uploaded" must find the photo, whatever crashed, stalled or ran twice on
the way, and a file must not be deleted while it is the only copy.

## Inventory

Paths are below `src/backend/internal/`.

| Component | State it keeps | Operations | What is hard |
|---|---|---|---|
| Durable queue store (`store/upload_jobs.go`) | one row per upload: status, lease, cancellation and completion marks, result | conditional UPDATEs, each an atomic transition | who may write after a lease lapsed; which transitions may be undone |
| Ingest workers (`ingest/process.go`, `manager.go`) | the attempt: row as claimed, lease token, deadline, temporary file | claim, inspect, prepare, verify, publish, clean up, discard, retry | stale workers, a failed step anywhere, deduplication, deletion only of redundant sources |
| Durability barrier (`ingest/durability.go`) | one operation in flight per upload, slots, closing flag | join or start, stat, fsync, promote, classify | truthful answers to the browser, cancellation against completion, detached work |
| Startup recovery and reconciler (`ingest/recover.go`) | readiness flag, adoption witnesses | requeue, inventory, adoption, cancellation sweep, reopening | files and rows observed at different moments, hidden mounts |
| Storage health gate (`ingest/health.go`) | healthy flag | sample originals | an unmounted volume looks like an empty one |
| Durable media files (`media/durable.go`) | originals and temporaries on the media volume | prepare, verify | crash between write, fsync and rename |
| Purge (`media/purge.go`, `store/purge.go`, `httpapi/storage_cleanup.go`) | stage directories with a manifest | stage, delete rows, finalize, restore, reconcile | crash in the middle, a duplicate that resolves to the purged row |
| Tus hooks and proxy (`httpapi/tus_hooks.go`, `tus_proxy.go`) | none of their own | admission, completion fence, pre-finish, cancellation, termination | a check followed by a forward, tusd acting later |
| Incomplete-upload janitor (`httpapi/storage_cleanup.go`) | none | inspect twice, claim, terminate | an upload that resumes meanwhile |
| Upload status (`httpapi/uploads_status.go`) | none | read | says nothing that is not so |
| Gallery and moderation (`store/media.go`, `moderation.go`, `httpapi/public.go`, `admin.go`) | `media_items.status`, `approved_at`, the moderation setting, likes | insert, approve, trash, restore, purge, page | paging under change; the setting turned off beside an insert |
| The guest's grid (`frontend/src/hooks/useGallery.ts`) | items, cursor, `hasMore`, the newest request's number | load, page, refresh, change the sort | answers late, out of order or lost |
| Manager and process lifecycle (`ingest/manager.go`, `cmd/server/main.go`) | wake channel, lifetime context, wait groups | start, wake, tick, stop, close the database | a lost wakeup; work that outlives the database |
| Rate limiting (`ratelimit/`) | a token bucket per limiter and address, transfers per address | allow, drop idle buckets, acquire, release | a bucket dropped while it is owed; a slot that leaks |
| Sessions, settings, branding, audit log, media processing, configuration, frontend, deployment | | | sequential code or conversions |

How they meet: the browser talks to the proxy, the proxy to tusd, tusd to the
hooks; hook, fence and reconciler all call the durability barrier, which
promotes the row; the workers see only rows, the upload directory and the media
volume; the administrator and the retention janitor purge beside the workers.
Everything shared is a row, a file or a channel nudge.

## Modules

| Module | What it is |
|---|---|
| `JobStore` | every statement of `upload_jobs.go` that writes a row, as a predicate (its WHERE clause) and a function (its SET clause) |
| `IngestPromise` | the abstract specification: a source leaves the disk only after publication or condemnation, a committed upload is condemned for its own bytes only, and nothing committed is taken back |
| `IngestQueue` | the worker pool, tusd's removal, the administrator's trash and purge, restarts and faults |
| `IngestBarrier` | the way of one upload into the queue: requests, fence, hook, durability operation, reconciler, incomplete-upload janitor, faulted mounts, power loss |
| `MediaPurge` | permanent deletion of media: staging, commit, finalizing and restoring by several purges and by the cleanup pass, beside each other |
| `MediaVolume` | the originals directory through power failures and missed mounts: `PrepareOriginal`, the health gate, the attempts that rely on them |
| `Lifecycle` | the processes of the backend and how they end: registry of operations, slots, worker loops, wake channel, shutdown |
| `Gallery` | media rows and the moderation setting, the pages of `ListGallery`, and the grid that merges them |
| `Limits` | token buckets, their eviction, and the slots of an address's uploads |
| `IngestQueueProofs`, `IngestQueueRefinement` | the proofs about `IngestQueue` |
| `IngestBarrierProofs`, `MediaPurgeProofs`, `MediaVolumeProofs`, `LifecycleProofs`, `GalleryProofs`, `LimitsProofs` | the proofs about the module they are named for |
| `MCIngestQueue`, `MCIngestBarrier`, `MCMediaVolume`, `MCLifecycle`, `MCGallery`, `MCLimits` | the small instances TLC checks; `MediaPurge` needs none |

`IngestQueue` and `IngestBarrier` are two refinements of `IngestPromise`, and take the rows
from `JobStore`. The others stand beside them at a different grain: `MediaVolume` takes one
attempt's file calls apart and lets the power fail between them, `Lifecycle` keeps of an
operation or an attempt only that it succeeds or fails, `Gallery` begins where a row
of `media_items` is inserted.

### IngestQueue and the code

A worker's program counter `pc[w]` names the call it makes next. One call to the
database, to a file or to tusd is one step, because another goroutine may run
between any two of them; the statements between two calls belong to the step
that follows. `snap[w]` is the `*store.UploadJob` that ClaimNextJob returned,
which the code goes on using after the row has changed. `ctx[w]` says the attempt's
context is alive; `tmp[w]` that its temporary is written; `dup[w]` the row that
holds the same sum. A lease is the worker itself: each claim writes a fresh
random token, a worker runs one attempt at a time, and a token that was replaced
or cleared is never written again except by a new claim.

Time is kept as the comparisons the code makes with it: a lease has lapsed or
has not, a row is due or is not. `ContextExpires` may happen at any step of an
attempt and `LeaseLapses` only after it, which is what
`leaseDuration = ProcessingTimeout + ReconcileInterval` gives.

Faults: every call may fail (`Fault`), a call whose precondition is gone fails
(`FailAttempt`), a claim may error (`ScanFault`), tusd may die between its two
unlinks (`TusdFault`), the process may restart at any point with or without a
successful requeue (`Restart`). The write that hands a failed job back may be
lost too; the row then waits for its lease to lapse.

### IngestBarrier and the code

One upload, and everything that may act on it before the workers own it. `req[r]`
is an HTTP request at the proxy and the call it makes next: the fence's read
(`fence`), its stat (`stat`), joining the operation (`ensure`, `fenceWait`), the
forward to tusd (`forward`), tusd's pre-finish call (`hook`, `hookWait`), and the two
calls of the public DELETE (`readRow`, `cancel`). `op` is the detached durability
operation, which callers share and may abandon (`Refused`); when it ends it answers
all who still wait (`OpDone`). `rec` is the reconciler's pass with what it has
already seen of the row (`kind`) and of the directory (`listed`, `full`); `jan` the
incomplete-upload janitor after its second look; `del` a DELETE that has left this
backend and that tusd will act on, also when its sender is dead. `told` collects
the answers the browser got: committed (the final PATCH succeeded), complete (tusd
reported a complete file by itself), gone (410), cancelled (204 to a DELETE).

The data file is absent, partial or complete; `disk` is what a power loss leaves of
it, and only the operation's fsync brings it up to date. `hidden` is a faulted mount as
this backend sees it; tusd goes on writing to its own. The workers appear with one
action for each write to the row: what they do in detail is IngestQueue's.

Time again appears as comparisons: `row.quiet` (not written for a reconcile interval)
and `stale` (no activity for the incomplete retention). A row becomes quiet before
tusd has created the files only under the fault "delay".

`Faults` says which disturbances an instance has: restart, power loss, a hidden mount,
a delayed creation, and a legacy partial that has no row yet. Failing calls and
impatient clients are always there.

### MediaPurge and the code

An agent is a purge (`purgeMedia`, called by an administrator's request or by the
retention pass) or the cleanup pass (`reconcilePurgeStages`, once at start and at every
tick). `at[a]` is what it is doing: the items it has yet to stage, the stages it holds
and has yet to settle, the one it is at, and the ids its transaction deleted. `stage`
is the directory `.purging`, with each directory's manifest and files; `live` is the
files at their live paths. Each rename, unlink and removal is a step, because
another agent, a failure or a crash may come between any two; a sync that notices
that a directory is gone is part of the step it follows, or is the step `Staged`. A
file that is not there is skipped, as `moveIfExists`, `restoreIfExists` and `Finalize` do.

`Fault` is any call that fails: before the commit the purge restores what it has
staged, afterwards the stage waits for a later pass. `met` is a history variable: the items whose
stages two agents held at once. Uploads appear as `needed`, which keeps a row
(`NOT EXISTS` in `PurgeTrashed`); how they use it is IngestQueue's. The items of a request are read
in one step; the transaction looks at them again.

### MediaVolume and the code

A directory entry has two sides: `file[d][m]` is what a reader finds under the name of
item m's original, and `disk[d][m]` is the set of what may be found there once the power has failed.
A rename or an unlink (`Enter`) changes the first and adds to the second; the directory fsync
(`SyncedDir`) leaves one outcome. A file whose bytes were not synced reads as full and may come back
short. `Dir` has the volume ("real") and the empty directory that is in its place when the mount
was missed ("bare"); `View` is the one this process sees.

A worker's step is a call of `PrepareOriginal` (`stat`, `copy`, `sync`, `rename`, or `resync`
of an original that is there already), of `VerifyOriginal`, of the lookup of an existing
item with the same bytes (`existing`), the publication, or one of the removals. `Check` is the health gate:
it reads the sample's names, the oldest rows of the gallery, and passes if one of
the originals is there. Leases may lapse at any step (`Lapse`), so two workers may handle one
upload's files. The temporary is a worker's own: its name is random.

### Lifecycle and the code

`main` is how far `run()` has come, and its deferred calls in their order: the cleanup loops
have returned, the lifetime is cancelled, the registry is closing, the database is closed. `op[o]` is
a detached durability operation and the deferred call it has reached: `wake`,
`release` (entry and slot, under the lock), `close` (the channel its callers wait for). A request or
the reconciler joins, begins or is refused in one step, as `ensure` does
under its mutex. `worker[w].sight` is the set of jobs that were due at the time a worker
read the clock for its claims: `claimAndRunOnce` reads it once and then makes one claim per
stage, so a job that becomes due meanwhile is not seen by this scan. `wake` is the channel of capacity one.
`late` is a history variable: jobs whose backoff or lease ended by the passage of time, or that a
failed claim left behind, which only the ticker is meant to find.

### Gallery and the code

`status`, `approved` and `approvalRequired` are the rows and the setting; each
administrator's statement and each insert is a step (they are transactions). `Serve` reads
one page and fixes the answer; the answer is delivered, or the request fails, at any later moment,
in any order. `Page`, `Beyond` and `IsNextCursor` say what `ListGallery` returns: the first `limit`
items beyond the cursor by (sort key, id), and as the next cursor the last of
them if there are more. The grid is `useGallery`: `latest` is `requestIdRef`, the number of the newest load, and
only its answer is accepted; a refresh of the newest items (`RefreshNewest`) is accepted
while the sort is still the one it was asked for, and merges.

`walk` is a history variable: the items that have been visible without a break since the first page of
the present listing was cut. NothingSkipped speaks of those, because an item that was hidden meanwhile
may rightly be missing.

### Limits and the code

`entries[l][k]` is the bucket of address k at limiter l, or Null; `Allow` and
`TooMany` are the two answers of `KeyedLimiter.Allow`, and both mark the address as seen.
`Cleanup` drops what has lain idle longer than `Idle`. `current` is the map of `ConcurrencyLimiter`, and
a request passes the limiters its route has, then, if it is an upload, takes a slot until it ends.
Tokens are whole and time is a tick; the observer (`watched`, `granted`, `clock`) counts,
from a moment when its bucket may be in any state, how often one limiter lets one address pass.

## What the runs check

Every run of IngestQueue uses one content sum for all its uploads, which makes
each pair a duplicate: that is the interesting case, and two uploads of
different content share nothing but a worker.

| Run | Instance | What it shows |
|---|---|---|
| QueueRaces | two uploads, two workers | types; the inductive invariant QueueInv; a terminal row has no tus file left; the refinement of IngestPromise |
| QueuePurge | two uploads, one worker, purges | no media row loses its original, no job the copy it relies on; removals are decided; both settle |
| QueueRefused | two uploads, one of an unsupported type, two workers | the promise, with refusals; a condemned upload is never shown |
| BarrierRaces | two requests, janitor; restarts, power losses | the inductive invariant; acknowledged cancellations, 410s and reported verdicts are never overturned by any interleaving; no DELETE at tusd takes the source of a committed upload |
| BarrierFaults | one request, refusable upload; restart, power loss, hidden mount, delayed creation, an admitted upload or a legacy one | the queue owns only complete synced bytes; a successful final PATCH is never taken back; a complete upload settles without its client; condemned bytes are reclaimed; refinement of IngestPromise on the way in |
| BarrierSuccess | two requests, no fault | a violation: see Findings |
| PurgeSettles | one item, two purges, two directories, failures, restarts | the inductive invariant; no original is destroyed while its row exists; files return, or go, with their row |
| PurgeOrphan | the same | a violation: see Findings |
| MediaVolume | two uploads, of equal or different bytes, and an old item with either; two workers, a sample of one | the inductive invariant; no original is ever short; every row keeps its original durably; a removed source is kept by some row |
| Lifecycle | two uploads, one of which an earlier process completed; a request, the reconciler, one worker, one slot, two operations | the inductive invariant; registry and slots are exact; no wakeup is lost; the database closes last; callers are answered; the server stops |
| Gallery | three items of which two tie in each sort, pages of two, two requests in flight | the inductive invariant; nothing is skipped before the end; nothing stays pending when moderation is off |
| Limits | one address, three requests, buckets of two, a window of two ticks | the inductive invariant; no more than burst and rate allow, dropped buckets included; slots are transfers |

Two workers are enough for one to be stale beside its successor, and a third
would add only another stale one: all a stale worker can do to a successor it can
do from the role of the second. Two uploads are enough for one to be the other's
duplicate. Two requests are enough for one to act between any two calls of the
other; more would only queue at tusd's lock or join the same operation. The
barrier's two passing runs divide the question: BarrierRaces has every interleaving of two clients
with the janitor, restarts and power losses, which is where nothing goes out of sight (`Steady`), BarrierFaults every disturbance with one client. Two purges and the cleanup pass are three agents that may hold
stages of the one item, and two directories let two of its stages exist at once; more
items only make batches, whose items are settled one by one. The proofs carry the safety properties to any number of both.

In MediaVolume two workers are a stale one and its successor, two uploads a pair of
duplicates; the rows before theirs are one old item, and a sample of one looks at it alone, the
weakest gate there is. In Lifecycle one slot is the limit reached by one operation, and two
identities of operations let one begin while the callers of another still wait. In Gallery three items and
pages of two make a second page with a tie on the boundary, and two requests are a load and whatever overtakes
it. In Limits three requests are more than the two slots and than the burst, and `Idle` is two ticks: a bucket
may be dropped after the third, while an observer counts who spent from it before. Keys share nothing, so one
stands for all.

A volume and a lifecycle may rightly stop (everything published, the database closed):
MediaVolume and Lifecycle are run without the deadlock check.

### Fairness

`Fairness` says that goroutines keep running (WF on each worker's step), that
backoffs pass and leases lapse, and that a purge once begun ends. `EventuallyCalm`
says faults, restarts and the staging of new purges stop at some point. The code
retries indefinitely (`backoffFor` flattens, no failure count gives up), so
without such an assumption nothing could ever be promised; with it PendingSettles
holds. A purge is in the list because an upload that verifies its duplicate's
original while a purge has it staged fails its attempt, legitimately, as often as
that recurs.

In IngestBarrier fairness is on the detached operation, the reconciler (a ticker),
the janitor once it has a candidate, the hook, tusd's removal, the workers, time, and
the return of a mount. No client is assumed to do anything. `EventuallyCalm` excludes
endless faults and endless repetition of a cancellation, which would keep the
row from ever being quiet.

In Lifecycle main's next deferred call, an operation, an attempt and an answered caller go on (WF).
A worker at its select, and the reconciler at its own, return once the lifetime is cancelled
(SF): with several cases ready Go's select picks one at random, so a worker may go round a few
times more, and not for ever. No request is assumed to come, no shutdown either; that a signal
is followed by the end holds whenever it arrives.

In MediaPurge a purge goes on and the cleanup pass comes round again (a ticker); calls that
fail, restarts and new purges stop at some point.

## What is proved

| Theorem | Module | Statement |
|---|---|---|
| TypeCorrect | IngestQueueProofs | the type invariant |
| PoolInvariant | IngestQueueProofs | the inductive invariant QueueInv, with the types |
| OriginalsStay, CopiesKept, RejectedHidden | IngestQueueProofs | PublishedHasOriginal, KeptCopy, RejectedNeverShown |
| KeepsPromise | IngestQueueRefinement | IngestQueue implements IngestPromise |
| SourcesGone, RemovalsDecided | IngestQueueRefinement | TerminalSourceGone and the action property RemovalDecided |
| BarrierInvariant | IngestBarrierProofs | the inductive invariant BarrierInv, types included; unconditional |
| HookKeepsItsWord | IngestBarrierProofs | HookTruthful; unconditional |
| CommittedStaysWhole, SourceSpared | IngestBarrierProofs | CommittedComplete and the action property NeededSpared, under Sheltered |
| KeepsPromise | IngestBarrierProofs | IngestBarrier implements IngestPromise, under Sheltered |
| CancellationStands, FinalVerdict, ReceiptsAreFinal | IngestBarrierProofs | CancelledStays, FinalIsFinal and the action property ReceiptFinal, under Steady |
| PurgeInvariant | MediaPurgeProofs | the inductive invariant PurgeInv, with the types |
| OriginalsKept, NothingComesBack | MediaPurgeProofs | OriginalKept, PurgedGoneAlone |
| VolumeCorrect | MediaVolumeProofs | the inductive invariant VolumeInv, types included |
| NoOriginalIsTruncated, RowsAreBacked, TheLastCopyIsKept | MediaVolumeProofs | NeverTruncated, RowsBacked, RemovedIsKept |
| LifecycleCorrect | LifecycleProofs | the inductive invariant LifecycleInv, types included |
| TheRegistryIsExact, NoWakeupIsLost, DatabaseClosesQuietly | LifecycleProofs | RegistryExact, Attentive, ClosedQuietly |
| GalleryCorrect | GalleryProofs | the inductive invariant GalleryInv, types included |
| NothingIsSkipped, NothingStaysPending, SpinnerIsTrue | GalleryProofs | NothingSkipped, PendingOnlyUnderApproval, SpinnerTrue |
| LimitsCorrect | LimitsProofs | the inductive invariant LimitsInv, types included |
| RateBounded, SlotsAreExact | LimitsProofs | WithinRate, SlotsExact |

The first five rows assume only QueueAssumption: Null is neither an upload nor a worker, and the
content and verdict of an upload are functions. The sets may be of any size,
infinite included.

The argument. PublishedHasOriginal is not inductive: a worker about to unlink
an original at its live path (`pc = "unlink"`) knows only that no media row owned it
when it looked. What keeps it from removing a published original is that
the row it holds, or held, has already left the processing stages: a job that reaches
removal never publishes again, so nobody can insert the media row in between.
QueueInv says this for every worker, current or stale (StageInv: how far its row
must have come, given the stage the worker claimed it in; CallInv: what it has
established by the call it is at), and for the purge (PurgeInv). The lemmas about
stages (`Advances`) say which rows may follow which, so one lemma covers what
every step does to the attempts of the other workers.

IngestBarrier's assume BarrierAssumption: `Faults` names some of the five disturbances, and
Null is not a row, nor the value that stands in one for a lease or a media id. Requests may be any number. Two
hypotheses divide the instances. `Steady`: nothing goes out of sight, that is no hidden mount, no
delayed creation, no legacy partial. `Sheltered`: if there is a janitor, the instance is steady.
Both are exactly what is needed, in the sense that TLC finds CommittedComplete, NeededSpared,
CancelledStays, FinalIsFinal and ReceiptFinal violated as soon as any one of the three faults is added
beside a janitor (the observations below tell how); without a janitor the first two hold under all faults, and
CancelledStays and FinalIsFinal fail under each of the three.

BarrierInv has a part for each reason. CommittedComplete is not inductive: what an operation
promotes was stat'ed and synced earlier, and between its calls a DELETE on its way to tusd, a power
loss or a cancellation may take the bytes. SourceInv says that a removal is under way only where the row is
`Spent` (condemned or published), which no step reverts, and that an operation past its stat
has a complete file, past its sync a synced one, or a row that is spent. HookTruthful rests on less: a row
that was committed or refused for its bytes stays so (PassInv: the reconciler acts on a terminal row only by the
kind it has read, and that kind has not changed; RowInv: a row that is still uploading has no reason).
The verdicts need more: that what is in sight keeps its row (SightInv: nobody lists a
row as lost while its files may still come, and the files of a row closed out as
unobservable never do), and that an operation under way has no committed row (VerdictInv). Then a 410
means refused, or cancelled while uploading, and neither is committed later.

The proof does not go action by action through each part. The first lemmas classify what a step may
do to the row (`RowMove`: refresh, requeue, cancel, promote, close out, ...), to the files (`FileMove`), to
the operation (`OpMove`) and to the reconciler's pass (`RecMove`), and every action is shown
to be one of each; the parts of the invariant are proved of those. The refinement of
IngestPromise then follows from the row's move and what it does to the synced source.

MediaPurge's theorems assume PurgeAssumption: the cleanup pass is no purge, and Null is neither
a stage nor a handle. OriginalKept is not inductive: an agent about to unlink a
staged original must know that its row is gone for good (Gone), that the
stage in its hands is still the stage of the item it means, and that the
item has been published before (Owned, Known): directory names are not reused
while somebody holds one, and a row that is gone never comes back. These parts (KeptInv) are
inductive by themselves. PurgedGoneAlone needs AloneInv beside them. Two agents that have not met do not hold the
same item (OneHolder). A purge that may still commit has moved all files of its items away, but those of the stage it
is at (MovedAway); so whatever it deletes has no live file, and nobody else
is about to restore one. From then on nothing does (NothingReturns): the cleanup pass goes by the row, and
a purge that takes the item up after it was deleted stages nothing, and so has nothing
to restore. NothingReturns is more than the property: it holds while stages of the item are still around.

MediaVolume's theorems assume VolumeAssumption: the old item is no upload, Null no worker, and
the sample has at least one row. RowsBacked is not inductive: what a publication relies on was established by
the attempt's earlier calls, by then perhaps under a lost lease. Attempt says what each step knows:
that the volume is the one it sees (the health check passed and the mount does not change
under a running process), that the original is on disk with bytes and name from `verify` on,
and that it holds only while the lease does: a publication without the lease matches no row. Tree
says that nothing is ever written beside the volume.

Lifecycle's assume LifecycleAssumption: at least one worker and one slot, finitely many
operations at once, and the uploads of an earlier process. Attentive is inductive together with
Held (a job under way is one worker's and not due) and RegistryExact; the step that matters
is the end of a scan, which may leave no due job that became so after its clock was read without
a signal. ClosedQuietly follows from the order of the deferred calls (InOrder): each waits for
its own, and a closing registry begins nothing.

Gallery's assume that items are a finite set of numbers ordered as their ids are,
keys numbers, and limits positive. NothingSkipped is not inductive: between pages the guest is owed what
is neither in the grid nor behind the cursor (Walked), while an answer is under way what is in its
page or beyond its own cursor (Answering), and an answer counts only if the grid has not moved since it was
asked (Asking). The page lemmas say what a page leaves beyond its last item.

Limits' assume LimitsAssumption; the one that matters is that `Idle` ticks refill any bucket.
Balance is the argument: what has been granted plus what is at hand never exceeds the burst plus what
time brought, and a dropped bucket was full (IdleMeansFull), so the new one adds nothing.

Only model-checked: liveness (PendingSettles, CompleteSettles, CondemnedReclaimed, FilesReturn,
CallersAnswered, Stops), which the prover does not do. Every invariant and every action property of a
passing run, and both refinements of IngestPromise, are theorems. The two properties of the violation runs are
false, and stay with TLC.

## Findings

* BarrierSuccess. The fence stats the file, then forwards (`tus_proxy.go:201`). A PATCH that is still
  running at tusd may complete it in between; when its pre-finish is refused or times
  out, the HEAD that waited for tusd's lock is answered as complete, while
  the design's Invariant 1 says that an upload reported successful is durably recorded.
  The reconciler commits it later, unless a cancellation or the janitor comes first.
* PurgeOrphan. The cleanup pass treats every stage with a manifest as an interrupted purge
  (`storage_cleanup.go:104`), one in flight included, and two purges of one item do not
  know of each other (`storage_cleanup.go:84`). Either way files can be restored for a row that
  is being deleted; they stay on disk with neither row nor stage. PurgedGoneAlone
  shows that nothing else leaves such files.

### Observations

Behaviour met while modelling that no run of its own states.

* With "hide" added to BarrierRaces' faults CancelledStays fails ("delay" and "legacy" have the same effect). `handleTusDelete` acknowledges
  a DELETE for an upload without a row (`tus_proxy.go:244`); the reconciler deletes an unobservable
  row before it adopts the upload again, and a cancellation that falls in between is acknowledged and
  lost.
* With the same change NeededSpared fails. For an upload without a row the janitor has nothing to claim, and tusd
  acts on its DELETE later (`storage_cleanup.go:246`): in the same window it takes an upload
  that is being adopted for residue, and a committed source is removed. A partial from
  before the upgrade, which never had a row, is exposed to the same.
* `makeDurable` calls every failed stat final (`durability.go:181`), a mount that is gone for a moment
  included; BarrierRaces checks FinalIsFinal where mounts do not fail, and FinalVerdict proves it there.
* `PrepareOriginal` checks its context once before the rename (`media/durable.go:115`), so a worker that
  stalls in between may leave an original behind its successor's cleanup; QueueInv
  holds regardless, because no row refers to it.
* MediaVolume's mounts change only when the process starts. One that goes away or returns between an attempt's
  health check and its end defeats RowsBacked and RemovedIsKept: the original is written beside the
  volume, or an older one is taken for missing. An empty gallery passes the gate trivially, so at the
  first start a missed mount goes unnoticed; and if every sampled original is lost the gate does not pass again.
* Two promotions in quick succession send one signal, and wake one of two sleeping workers; the second
  job waits for the first worker to drain the queue, or for a tick. Attentive says no more than that somebody will look.
* The loop that sweeps expired sessions is not waited for, and a request that outlives Shutdown's timeout runs
  on after it; both may meet the closed database. Lifecycle has neither.
* A failed reset after a change of the sort leaves the old sort's cursor, and the next page is asked with it:
  the end of the gallery may be announced with items missing. NothingSkipped excludes that grid (`walk.sort`).
  And a new upload a refresh has shown disappears when a reset served before it is answered after it, until the next refresh.
* A configuration whose public limit does not refill within 30 minutes is accepted, and then
  LimitsAssumption fails: an address may gain tokens by its absence. The defaults refill in seconds.

## Not modelled

Within the modelled components: the administrator's listing and likes, the pre-create hook's
admission (capacity reservation, uploads closed), the two-pass witness for a file without a sidecar
and the expiry of terminal rows, the pacing of bytes (`WaitN`, whose cancellation behaviour is the library's),
derivatives (thumbnails and previews). Sessions, settings, branding and the audit log are small
sequential statements on tables of their own; image and video decoding, the configuration, migrations and deployment
scripts are conversions without state that the properties could speak of.

## Plan

1. `Admission`: the pre-create hook with its capacity reservation beside the workers' disk use.
2. Adoption witnesses and the expiry of terminal rows, with a mount that hides files meanwhile.
3. Likes and the administrator's listing in Gallery.
4. Theorems about IngestPromise as such: what a guest may conclude from it, stated once for both of its refinements.
