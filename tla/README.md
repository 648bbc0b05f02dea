# CloudVault in TLA+

CloudVault is a personal network drive: a Go API server (Gin, GORM), MySQL for
the metadata, Redis for caches, locks and expiring keys, MinIO for the bytes
and RabbitMQ with worker processes for offline downloads and activity events.
This directory models the parts of it in which several requests, workers or
retries share state, checks them with TLC and proves theorems about them with
TLAPS.

Contents: 1 the system, 2 modules, 3 ObjectRefs, 4 DownloadTasks, 5 FileTree,
6 Multipart, 7 Activity, 8 Listings, Shares and Views, 9 Accounts, 10 what the
runs show, 11 what the code does besides, 12 what is proved, 13 what is not
covered, 14 what is left, 15 running it.

## 1. The system

Three facts about the code shape everything below.

* No transactions. No service function opens one: every GORM call commits by
  itself, so a request is a sequence of separate SQL statements, MinIO calls and
  Redis calls, with arbitrary other requests in between.
* The database checks a little. `user_file.object_id` and `user_file.parent_id`
  are foreign keys (restrict); `file_object.hash`, `upload_session.upload_id`,
  `(file_chunk.upload_id, chunk_index)`, `(user_file.user_id, parent_id, name,
  is_deleted)` and the names in `user_db` are unique. NULL is never equal to
  NULL, so a `parent_id` of NULL (the root folder) switches the last index but
  one off.
* Errors of clean-up are ignored. Rollbacks (`_ = ...`) neither check nor retry.

### Components

| Component | State | Operations | Talks to | Hard behaviour | Correct when |
|---|---|---|---|---|---|
| Deduplicated file objects (`service/file_object.go`, part of `user_file.go`) | `file_object` rows with `ref_count`; the `user_file` rows that point at them; the bucket; two Redis keys per object | FastUpload, CompleteFile, CopyFiles (one file), MoveToRecycle, RestoreFile, DeleteFileRecord with RemoveObject | MySQL, MinIO, Redis; called by the handlers and by offline downloads | `ref_count` is read and written by separate statements of overlapping requests; rollbacks remove bytes others may use by now; Redis keeps deleted rows | every entry has its bytes; the count covers, at rest equals, the entries; no bytes without a row; only recycled entries are purged |
| Merge lock (`repo/redis.go`, `handler/minio.go`) | `lock:merge:<user>:<hash>` with a 30 s lease | SETNX, unlock by the owner | Redis; CompleteFile runs under it | the lease is not renewed | two merges of one user and hash never overlap |
| Offline downloads (`task/download_task.go`, `worker/download_worker.go`) | `download_task.status`; task, retry and dead letter queues; deliveries held by worker goroutines | CreateDownloadTask, ProcessDownloadTask, scheduleRetry, markFailed | RabbitMQ, MySQL, MinIO, the source's HTTP server | redelivery, retries next to redeliveries, crashes after the claim, failures after the file is listed | one worker has a task; a file is listed once; every accepted task is decided |
| Folder tree (`service/user_file.go`, `handler/file.go`, `handler/recycle.go`) | `user_file.parent_id`, `name`, `is_dir`, `is_deleted`, `deleted_at` | CreateFolder, RenameFile, MoveFiles with isChildFolder, CopyFiles of folders, BatchMoveToRecycle, recursive purge, restore | MySQL; purges end in RemoveObject | the subfolder check walks the tree statement by statement and stops at a recycled ancestor; a recursive purge may stop half way; names in the root folder are not protected | the tree has no cycle; no two live siblings share a name; a restored entry is reachable |
| Multipart upload (`service/file_object.go`, `handler/minio.go`) | `upload_session`, `file_chunk`, chunk objects in the bucket | MultiPartFileInit, CreateUploadSession, UploadChunk, FindAllChunkFile, CompleteFile's merge and clean-up | MySQL, MinIO | chunks arrive twice, out of order, during the merge, or again after a retry | a merged file is the whole content; a merge finds its chunks; a chunk reported as uploaded is there |
| Activity (`activity/`, `worker/activity_worker.go`) | event table, daily rows, Redis counters, dedup keys | Emit, Publish, ApplyEvent, GetSummary | RabbitMQ, MySQL, Redis | at-least-once delivery; a failed publish is applied locally; dedup key and increments are separate calls | an event is counted once, and the summary shows no more than MySQL has |
| Shares (`service/share_file.go`, `handler/share_file.go`) | `file_share` rows, Redis key with expiry, access log | CreateShare, check, download, expiry listener | Redis key events, MySQL | expiry is an event that may be missed; the key outlives the row and the file | nobody is served after the expiration or the purge; one open share of a file |
| Registration (`handler/register.go`, `service/user.go`) | registration forms and used links in Redis, `user_db` | Register, Activate | Redis, mail | two activations of one token, two registrations of one name | a link makes one account, and a second click is told the truth |
| List cache (`GetFileList`, `utils/cache.go`) | cached listings per folder and order | read, fill, invalidate | Redis | a listing read before a change is filled in after its invalidation | no request on its own leaves a stale listing behind |
| Storage cluster (`storage/storage_cluster.go`) | nodes, placement and copies of an object | put, get, remove, migrate | several MinIO servers | migration against upload | an object stays readable (not part of the running program) |
| Sharding (`repo/sharding.go`) | none | shard and table of a user | MySQL | none | a user has one place (not part of the running program) |
| Profile (`service/user_profile.go`) | `user_db`, cached rows in Redis | update, read | MySQL, Redis | a row read before an update is cached after its invalidation | a stale profile has a reason |
| Library (`service/user_library.go`) | favourites, recent files | upserts of single rows | MySQL | a lost unique race | one row per user and file |
| Import and safety (`service/minio.go`) | none | validateDownloadURL, DownloadByHTTP | HTTP | none in state | (parsing) |
| Search, preview, ZIP, order | none | queries and streaming | MySQL, MinIO | none in state | (read only) |
| Configuration, router, JWT, mail | none | start-up | | | |

The components meet in `user_file` and `file_object`: uploads, copies, purges
and offline downloads all insert or delete the same two kinds of row, the
folder tree gives the entries a place, and shares, library and listings refer to
them by id.

## 2. Modules

| Module | What it is |
|---|---|
| `Drive` | abstract: the files of all drives, with owner, content and "in the bin" |
| `ObjectRefs` | file objects, reference counts, rollbacks, cache and merge lock; implements `Drive` when a purge is alone with its content |
| `MCObjectRefs` | its instances for TLC |
| `ObjectRefsProofs`, `DriveProofs` | its theorems: counts whatever interleaves; bytes, exact counts and the refinement of `Drive` |
| `TaskLifecycle` | abstract: what an offline download may do, without queues and workers |
| `DownloadTasks` | offline downloads with queues, redelivery, retries and faults; implements `TaskLifecycle` |
| `MCDownloadTasks` | its instances for TLC |
| `DownloadTasksProofs` | its theorems |
| `FileTree` | the folders of one user and the requests that create, rename, move, copy, recycle, restore and purge in them |
| `MCFileTree` | its instances for TLC |
| `FileTreeProofs` | its theorems |
| `Multipart` | sessions and chunks of one content, uploaded by several tabs, with merge, clean-up and purge |
| `MCMultipart`, `MultipartProofs` | its instances for TLC, its theorems |
| `Activity` | activity events from the emitter to the two counts and the summary |
| `MCActivity`, `ActivityProofs` | its instances for TLC, its theorems |
| `Listings` | folder listings, their cache, and the requests that invalidate it |
| `Shares` | share rows, keys with an expiration, visits, listener, access log |
| `Views` | composes `Listings` and `Shares` over one table of entries |
| `MCViews`, `ViewsProofs` | its instances for TLC, its theorems |
| `Accounts` | registration, activation links, profile and its cache |
| `MCAccounts`, `AccountsProofs` | its instances for TLC, its theorems |

Each component keeps of the shared tables what it decides by. `ObjectRefs` has
the files of all users without folders, `FileTree` the folders of one user
without objects (requests name the user in their queries, so the trees of two
users do not meet), `Multipart` the way of one content from the chunks to the
merged object, which `ObjectRefs` takes over; a download task has an object of its
own. `Views` joins listings and shares, which both read what requests do to `user_file`.

A definition whose comment begins with `mutant:` is a plausible mistake in the
code (a forgotten increment, a missing guard). `Next` uses none of them. Each
stands before the definition it would replace, and shows for one property that
the model is sharp enough to see that mistake.

## 3. ObjectRefs

A request is a process; `pc[s]` names the next SQL statement, MinIO call or
group of Redis calls of the request on session `s`, and `req[s]` holds the local
variables that survive between calls (hash, file_object id, purged entry,
`createdNewObject`).

| Code | Actions |
|---|---|
| FastUpload | `FastUpload`, `LookupFound`/`LookupNone`, `Fill`, `SizeMismatch`, `Available`/`NotAvailable`, `IncreaseRefCount`, `CreateEntry`/`CreateEntryFails` |
| MultipartComplete, CompleteFile | `MultipartComplete` (takes the lock), then the look-up as above; known object missing in MinIO: `RepairPut`, `RepairRow`; new hash: `PutObject`, `CreateFilesObject`/`CreateFilesObjectFails`, `CacheNewObject`; rollbacks `UndoPut`, `UndoObject`, `UndoRow`, or the decrement |
| CopyFiles of a file | `CopyFile`, `CopyEntry`/`CopyEntryFails`, `CopyIncrease` (the entry comes first, the count second) |
| DeleteFileRecord, RemoveObject | `DeleteFileRecord`, `PurgeEntry`, `RemoveRead`, `DecreaseRead`/`DecreaseLast`, `DecreaseWrite`, `DeleteMinioFile`, `RemoveRow`, `RemoveCache` |
| MoveToRecycle, RestoreFile | one UPDATE, one action each |
| failures | `Abort` (the request ends, what it wrote stays), `LeaseExpires`, `CacheExpires`; fault names in `Faults` switch on refused inserts, MinIO errors and failing statements |

Ids are never reused: `object` and `file` remember what an id was inserted as,
`rows` and `entries` say whether the row exists. A MinIO object is the pair of
uploader and hash, because `BuildObjectName` gives it that name; that is why a
rollback may hit bytes of an earlier upload of the same user. Content is
abstracted to its hash; sizes, MIME types, URLs and the chunks themselves are
left out (a declared size that does not fit is the free choice `SizeMismatch`).
The two Redis keys of a row are `cached` (by id) and `cachedId` (by hash):
`GetFileObjectByHash` trusts them without looking at the table.

Constants and bounds: `MaxActive` requests at once and `MaxRequests` in a
behaviour. The second also bounds the ids; three to five requests are enough
for every ordering the properties distinguish (an upload, a sharer, a purge of
each and one more upload that meets what they left). `refs_apart_calm` has two
contents, which `Renamings` lets TLC take for one another; in the other runs one is
enough, since a step relates no two of them. Two users are needed because bucket names carry the
uploader, two tabs of one user because lock and name coincide for them.
Deadlock checking is off: the requests of a behaviour are finite.

Properties: `RefCovers` (the count never falls below the entries, even in the
middle of requests), `EntriesStored` (no entry without bytes),
`CountsExactAtRest` and `NoOrphansAtRest` (nothing leaks once all requests are
done), `PurgesOnlyRecycled` (an action property), `NoGhostUsed` (no request works
on a row that is gone) and `KeepsPromise` (refinement of `Drive`). The mapping
`DriveOf` shows an entry with its content as long as the bytes are there, so a
lost object is a step `Drive` does not have.

Not every property holds of every overlap, so there are three specifications with
the same actions. `Spec` lets requests overlap at will; `PurgesApartSpec` leaves out
that a purge overlaps another request about its content (`ContentOf`), and
`ApartSpec` any overlap about one content. The two are no scheduling the code
enforces, it has no lock but that of merges: they say how far the overlaps are
harmless, and section 11 what happens beyond.

## 4. DownloadTasks

A worker is one goroutine with one unacknowledged delivery; queues are bags of
`(task, attempt)`. `Claim` is the conditional UPDATE, the only thing that keeps
two deliveries of one task apart. `Stop` is a signal or a crash of the worker
process: the broker requeues what was not acknowledged, and whatever the worker
had written stays. `DownloadTimesOut` is the branch in which the HTTP client's
own timeout looks like a cancelled context, so the delivery is requeued while
the status stays `running`.

| Code | Actions |
|---|---|
| CreateDownloadTask | `CreateTask`, `PublishTask`/`PublishTaskFails`, `ApiDies` |
| RabbitMQ | `Deliver`, `RetryDue` (message TTL of the retry queue), requeue in `Requeue` |
| ProcessDownloadTask | `ReadTask`, `Claim`/`ClaimLost`, `Download`/`DownloadFails`/`DownloadTimesOut`, `CreateObject`/`CreateObjectFails`/`CreateObjectFindsGhost`, `CreateUserFileEntry`/`CreateUserFileEntryFails`, `RollbackObject`, `RollbackRow`, `Complete`, `UserNotRead`, `StatusFails` |
| handleDownloadMessage, scheduleRetry, markFailed | `ScheduleRetry`, `RetriesExhausted`, `PublishRetry`, `MarkFailed`, `PublishDLQ`, `ScheduleFails`, `Ack` |

Each task has an object name of its own, so the file objects of different
tasks do not meet; sharing of objects is the subject of `ObjectRefs`. Progress
columns, the rate limiter and the activity event after completion are left out.

Bounds: two tasks, two workers, one retry (`MaxRetry = 1` reaches first attempt,
retry, exhaustion) and `MaxMishaps = 2` faults, which lets a redelivery meet a
retry and a fault hit the recovery from a fault. HTTP failures are not counted,
they are bounded by the attempts.

Fairness (`FairSpec`): the API finishes its publish, RabbitMQ delivers what is
queued and expires the retry delay, a worker goes on with what it holds. The
code justifies it with resident workers (`cmd/worker` loops over the delivery
channel until it is told to stop), a timeout on every fetch, and the broker's
guarantee. Fairness is weak and of the worker's handling as a whole, never of a
particular outcome: a fetch is allowed to fail every time. No fault is fair.
`EventuallyDecided` is checked for failed fetches, failed publishes and failing
status statements; it is not true with timeouts, crashes of a worker or of the
API process, for which the code has no sweep.

Properties: `OneRunner` (one worker fetches a task), `FileOnce` (one entry at
most, with row and bytes, exactly for completed tasks), `RetryNotLost` (a task
that says `retrying` has a message or a worker), `OneActor` (in calm weather
exactly one actor for an undecided task), `EventuallyDecided`, and
`FollowsLifecycle` (refinement of `TaskLifecycle` with the status and the number
of entries as its state).

## 5. FileTree

Here too `pc[s]` names the next SQL statement. The local variables of the code
become `files`, `target`, `name`, the file in hand, and two that need a word:
`todo` and `cur` belong to the subfolder check (the files still to be checked and
isChildFolder's `currentParent`), and `stack` holds the calls in progress of the
two recursive functions, each with the rows it has read and not yet handled.

| Code | Actions |
|---|---|
| CreateFolder | `CreateFolder`, `CountFolder`, `InsertFolder` |
| CreateUserFile | one INSERT, one action |
| RenameFile | `RenameFile`, `CountNamesakes`, `UpdateName` |
| MoveFiles | `MoveFiles`, for each file `WalkFrom` and then `Walk` per ancestor (isChildFolder), `FindMoved`, `CountMoved` per file, `UpdateParent` |
| CopyFiles | `CopyFiles`, `FindCopied`, `CountCopied`, `InsertCopy`, for a folder `CopyChildren` and the recursive call's `CopyTarget` |
| MoveToRecycle, BatchMoveToRecycle, RestoreFile | one UPDATE, one action each |
| DeleteFileRecord, deleteFolderRecursively | `DeleteFileRecord`, `PurgeChildren`, `PurgeEntry` |
| a statement fails, the process ends | `Abort` |

What the database does is in three operators. `Live`: a scoped GORM query or
UPDATE does not see recycled rows, an Unscoped one does. `Insertable` and the
guards of `UpdateParent` and `PurgeEntry`: the foreign key on `parent_id` refuses
a row without its parent and the deletion of a parent. `Clash`: the unique index
on parent, name and `is_deleted`, which a NULL parent switches off. Left out:
listing caches, activity events, and the objects behind the files.

Properties: `Forest` (no set of entries has all its parents in itself: no folder
lies below itself), `WalkEnds` (every climb of isChildFolder ends), `PurgesRecycled`
(an action property: a deleted row lies in the recycle bin, itself or by one of
the folders above it), `PurgeEnds` (every recursive purge ends).

Bounds: `MaxEntries` rows and `MaxRequests` requests of several statements; 4 and 4
give a chain of three folders, a move and copies next to it, 3 and 3 a folder,
what lies in it, what is put into it during the purge, and the restore. Two names
distinguish the files that clash from those that do not. Inserts beyond
`MaxEntries` are refused like any other refused INSERT. `FairSpec` is weak fairness
of each session's next statement: the server goes on with a request it serves.
Sessions need not make requests. Deadlock checking is off, requests are finite.

## 6. Multipart

One file of one user, uploaded by several tabs; `pc[t]` is the tab's next SQL
statement, MinIO call or Redis call. The browser belongs to the model, because
`static/app.js` decides which chunks are sent: a tab cuts the file as its user
chose (`Cuts`, `PiecesOf`), sends what the server does not report as uploaded, and
completes.

| Code | Actions |
|---|---|
| handleMultipartUpload (app.js) | `StartUpload`, and the choice of the next chunk, `NextChunk` |
| MultiPartFileInit | `Instant`, `CheckChunkNum`, `Uploaded`, `CreateUploadSession`, `InitAnswer` |
| MultipartUploadChunk, UploadChunk | `CheckChunk`, `PutChunk`, `SaveChunk` |
| MultipartComplete, FindAllChunkFile, CompleteFile | `MultipartComplete`, `MergeLock`, `FindSession`, `CountChunks`, `LookupHash`, `ComposeObject` |
| cleanupUploadData | `CleanChunk` for each chunk, `CleanFind`, `CleanRows`, `CleanSession` |
| RemoveObject | `PurgeFile`, `PurgeFind`, `PurgeRows` |
| a tab is closed, a call fails, the API dies | `Abort` |

A chunk object is the cut it was sent under, so that a file joined of pieces of
two cuts can be told from the whole; ids are never reused, and `total` keeps what
a session was created with. The merged object is there or not (`file`); its rows
and reference counts are `ObjectRefs`. `ComposeObject` stands for the merge with
the INSERTs behind it: that they fail is a matter of `ObjectRefs`.

Properties: `MergeWhole` (what is merged is every piece of one cut, once and in
order, although CompleteFile compares no more than a number of rows), `MergeFinds`
(a merge that has counted its chunks finds them), `ResumeTruthful` (a chunk the
next init reports as uploaded, so that the browser does not send it, is in the
bucket).

Bounds: two tabs, two pieces, three sessions and five requests: both tabs upload
and merge, one clean-up breaks off at every step, the file is purged, and an
upload resumes from what was left.

## 7. Activity

`pc[a]` is the next call of an actor: the emitter of an event (the handler or
service of what the user did) or an activity worker. Columns of a row are written
by one statement, so a row is the number of times each event has been added.

| Code | Actions |
|---|---|
| Emit, PublishActivity | `Emit`, `Publish`, `PublishFails` (then the emitter applies the event) |
| StartActivityWorker, handleActivityMessage | `Deliver`, requeue in `UndoDedup`, acknowledgement in `Settle` |
| ApplyEvent | `Dedup`/`DedupFails`, `UpsertDailyRow`/`UpsertFails`, `CountInRedis`, `UndoDedup` |
| GetSummary | `GetSummary`, an operator: it changes nothing |
| mishaps | nine names in `Faults`: failed or lost publishes, errors before and behind a commit, failing Redis, keys and days that run out, stops |

The ghost variable `mishaps` remembers what has gone wrong with an event. The
properties say which mishap may cause what, and that nothing else does:
`CountedOnce`, `CountedAtRest`, `SummaryTruthful`, and the liveness property
`QueuedIsCounted`: a queued event is counted, whatever upsert fails, unless a stop
or Redis leaves the dedup key behind.

Fairness: weak fairness of an emitter's publish, of an actor's next call and of
the delivery to each worker. Handlers run on and workers loop until they are
told to stop; every call has an outcome, and mishaps are never fair. Bounds: two
events of one day, two workers and three mishaps, which is one more than any
property needs to be violated by a mutant, and lets a redelivery meet a fault.

## 8. Listings, Shares and Views

`Listings` keeps of an entry the folder that lists it and whether it is in the bin
or purged; names and tree checks are in `FileTree`. A request is the query that
tells which listings it will invalidate, the statement that changes the table,
and the invalidations one by one.

| Code | Actions |
|---|---|
| GetFileList | `GetFileList`, `CountFiles`, `FindFiles`, `FillCache` |
| CreateUserFile, CreateUserDir, CreateFolder | `Create` |
| BatchMoveToRecycle, RestoreFile, MoveFiles | `Look`, `Update` |
| DeleteFileRecord | `Look`, `Purge` |
| CopyFiles | `Look`, `CopyFile` for each, `CopyDone` or `CopyFails` |
| invalidateFileListCache, cache TTL | `Invalidate`, `Expire` |

| Code | Actions |
|---|---|
| CreateShare | `CreateShare`, `FindExisting`, `CloseExisting`, `InsertShare`, `SetKey` |
| CheckShare, ShareDownload, LogShareAccess | `Visit`, `GetKey`, `FindShare`, `CloseExpired`, `OpenFile`, `LogAccess` |
| time, Redis, StartRedisExpiredListener | `FallDue` (the event may go unheard), `HandleShareExpired` |
| `ON DELETE CASCADE` of `file_share.file_id` | `DropShares`, part of a purge in `Views` |

`Views` instantiates both over one table: the files a share may look up are the
live entries of `Listings`, and a purge takes the shares of its file along while the
key in Redis stays. The properties of the parts are checked on the whole.

`StaleExplained`: a cached listing that differs from the table is about to be
invalidated, or was read while the folder changed, or two changes of the same
entries overlapped, or a copy broke off. The ghosts `raced` and `doubts` record the
three excuses; without one, no request leaves a stale listing behind.
`LateNotServed`: who comes after the expiration or the purge is not served,
whether the key was never set, is gone or outlives its row. `OneOpenShare`: one
share of a file that is open and not expired, as long as two CreateShare requests
do not overlap.

Bounds: two sessions, two clients, two entries, two folders, two shares. At
most three requests of both kinds together, four while no listing is read or
cached (the constraint `FewRequests`): a share is made, its file recycled and
purged, the link visited. Init takes every tree.

## 9. Accounts

| Code | Actions |
|---|---|
| Register | `Register`, `CheckName`, `CheckEmail`, `SetToken` |
| Activate, CreateUser | `Click`, `GetToken`, `CheckUsed`, `CreateUser`, `SeedCache`, `DelToken`, `MarkUsed` |
| UpdateUserProfile | `UpdateProfile`, `CountEmail`, `UpdateUser`, `Invalidate` and the read below |
| GetUserProfileByID | `GetProfile`, `ReadCache`, `SelectUser`, `FillCache` |
| time, stops and Redis errors Activate ignores | `TokenExpires`, `ProfileExpires`, `Stop` |

The uniqueness of an account is the database's (`Clashes`); what the code adds
is the order of INSERT, Del and Set, and the answers. `told` collects what the
clicks on a link were answered, `excuse` what has happened to the link.
`AccountOnce`: a link makes one account at most, although the owner may change his
email between two clicks (the name stays and is unique). `AnswersTrue`: "invalid"
and "duplicate" need an excuse. `ProfileExplained` is for the profile what
`StaleExplained` is for listings.

Bounds: two clients, names, emails and links, five requests (two registrations,
two clicks and an update). Passwords, codes, mails and log-in are left out: a
log-in reads one row.

## 10. What the runs show

| Run | Setting | Properties |
|---|---|---|
| `refs_concurrent` | two users at once, all requests, every fault but a copy that breaks off | `TypeOK`, `RefCovers`, `PurgesOnlyRecycled` |
| `refs_uploads` | three sessions at once (one user twice) about one content, uploads and copies overlap, purges are alone with it (`PurgesApartSpec`); refused `file_object` inserts, and refused `user_file` inserts except after a new row; 1,380,923 states, 60 s | `EntriesStored`, `CountsExactAtRest`, `NoOrphansAtRest` |
| `refs_serial_faults` | one request at a time, all requests, breaking off, refused inserts, MinIO errors | `EntriesStored`, `KeepsPromise` |
| `refs_apart_calm` | two users at once about different contents (`ApartSpec`), one after another about one; refused `file_object` inserts, and refused `user_file` inserts except after a new row; 3.9 million states, 90 s | `CountsExactAtRest`, `NoGhostUsed`, `NoOrphansAtRest` |
| `tasks_faults` | two tasks, two workers, everything but failing status statements | `TypeOK`, `OneRunner`, `FileOnce`, `RetryNotLost`, `FollowsLifecycle` |
| `tasks_calm` | fair; failed fetches, publishes and status statements | `OneActor`, `EventuallyDecided` |
| `tree_moves` | fair; one session moves, the other creates, renames and copies | `Forest`, `WalkEnds` |
| `tree_bin` | fair; one session purges and restores, the other uploads, copies and recycles | `TypeOK`, `PurgesRecycled`, `PurgeEnds` |
| `uploads_one_cut` | two tabs, one chunk size, uploads break off anywhere; 143,088 states | `TypeOK`, `MergeWhole`, `MergeFinds`, `ResumeTruthful` |
| `activity` | fair; two events, two workers, all nine mishaps; 229,427 states | `TypeOK`, `CountedOnce`, `CountedAtRest`, `SummaryTruthful`, `QueuedIsCounted` |
| `views` | two sessions and two clients over two entries; 675,908 states | `TypeOK`, `StaleExplained`, `LateNotServed`, `OneOpenShare` |
| `accounts` | two clients, two links, expirations and stops; 601,331 states | `TypeOK`, `AccountOnce`, `AnswersTrue`, `ProfileExplained` |

The settings are as wide as the code allows: each property is paired with the
largest set of requests and faults under which it holds, and the next larger
set is a remark below.

## 11. What the code does besides

Behaviour that TLC finds in the same modules when the constants are widened. The
property that then fails is named; the configuration to change is in parentheses.

Files and references (`refs_concurrent`, `refs_uploads`, `refs_serial_faults`):

* two tabs of one user purge one entry: GetDeletedFile finds it twice, the second
  DELETE hits no row, both decrement (`user_file.go:158`), and the count falls
  below the entries (`RefCovers`, two sessions of one user);
* RemoveObject decides to delete from a count of 1 (`file_object.go:585`),
  FastUpload finds the object and shares it before the delete, and its entry has no
  bytes (`EntriesStored`, purges next to uploads);
* with `"new_conflict"` and two users: CompleteFile publishes a new object, an
  instant upload shares it, CompleteFile's own entry is refused and its rollback
  deletes the bytes (`EntriesStored`);
* with `"abort", "copy_abort"`: a copy that ends between INSERT and count
  leaves an entry nobody counts, and the purge of the original deletes its bytes
  (`EntriesStored`);
* with `"lease"` and two tabs: the 30 s lock runs out, a second merge wins the
  unique hash and the first one's rollback deletes the object both use
  (`EntriesStored`);
* with `"new_conflict"`: a rolled back `file_object` row stays in Redis, and the next
  uploads of the hash repair and count a row that does not exist and are refused
  until the key expires (`NoGhostUsed`, and bytes left over, `NoOrphansAtRest`);
* with two tabs: an entry restored between GetDeletedFile and DELETE is deleted
  although it is back in the drive (`PurgesOnlyRecycled`);
* overlapping rollbacks and purges leave the count too high, so bytes outlive
  their last entry (`CountsExactAtRest` with purges at `MaxActive = 2`). Too high
  is harmless for the entries; `RefCovers` says it never becomes too low.

Offline downloads:

* a fetch runs into its timeout, the message is requeued with the status left at
  `running` (`download_worker.go:113`), the redelivery claims nothing and is
  acknowledged: the task runs for ever (`EventuallyDecided`, fault `"timeout"`);
* with `"status"`: the UPDATE to `completed` fails after the file was listed; the
  retry lists it again over one reference (`FileOnce`).

Folders:

* of A above B above C, B is recycled and A moved into C: isChildFolder climbs
  from C to B, does not find B and answers no (`user_file.go:436`); A lies below
  itself and is not reached from the root any more (`Forest`, recycling next to
  moves). On that cycle the recursive purge of B descends for ever, and
  isChildFolder climbs for ever once B is restored (`PurgeEnds`, `WalkEnds`);
* with two sessions that move: both pass their subfolder checks and then close a
  cycle (`Forest`);
* a folder copied into itself finds its own copy among its children and goes on
  until an INSERT is refused; the model's bound on rows is what ends it there.

Multipart uploads (`uploads_one_cut`):

* README.md:18 of the repository says resumable uploads; an upload resumed under
  another chunk size than it began with (the user may choose, `app.js:1033`) keeps
  the session's old chunks, whose sizes nobody compares (`file_object.go:308-330`).
  With a 12 MB file in pieces of 5 and 8 MB (`Cuts = {five, eight}`, `PiecesOf <-
  TwelveMB`) three attempts merge pieces of both (`MergeWhole`);
* `cleanupUploadData` looks for the newest session again (`file_object.go:440`): a
  session that a second tab created meanwhile loses its chunk rows, its objects and
  the old session's rows stay;
* a chunk that arrives after the clean-up leaves a row and an object nobody removes;
* with `PurgeRaces = TRUE`, or `"purge_abort"`: RemoveObject deletes the rows of an
  upload under way, or is cut off before them, and the next init reports chunks
  whose objects are gone (`ResumeTruthful`); the upload then fails at the merge;
* RemoveObject clears the chunk rows of the session of the object's first owner
  only (`file_object.go:599`). Another user's are not in the model.

Activity:

* a comment in `aggregate.go:100-101` promises data of MySQL where Redis has none.
  With `parseTime=True` (`config.go`) the dates of the rows come back as time stamps
  and never match the day's text, so a day without a hash is shown as zero, days
  older than the hash's 14 days always (`GetSummary`, and the excuse `"day_lost"`).

Listings, shares, accounts:

* two CreateShare requests for one file at once make two open shares
  (`OneOpenShare` with `CreateRaces = TRUE` and its premise dropped);
* two requests that change the same entries each invalidate what their own query
  found: an entry moved by one between the other's query and UPDATE leaves a stale
  listing for up to two minutes (excuse `"change"` of `StaleExplained`);
* between Del and Set of an activation (`register.go:132`) the link is in neither
  key: an overlapping click is told "invalid". A concurrent one that comes earlier
  is told that the account exists, although the comment at `register.go:133` calls the
  case idempotent (excuse `"overlap"` of `AnswersTrue`);
* an update of the email that changes nothing affects no row: the handler answers
  that there is no such user, and no cache is invalidated.

## 12. What is proved

All theorems hold for every value of the constants that the named assumptions
allow (any number of users, sessions, hashes, requests; tasks, workers, attempts;
tabs, chunks; events, mishaps; sessions, clients, folders, shares), and `tlapm` checks every proof to the last leaf.
A theorem of the form `P => (Spec => []Q)` has its proviso `P` over constants only.

`ObjectRefsProofs`

* `TypeCorrect`: `Spec => [](TypeOK /\ Shape)`. `Shape` adds what a state
  cannot be seen to need until a step is proved: the id a request or a cache key
  holds was inserted once, and a `user_file` row has its `file_object` row (the
  foreign key).
* `CountCovers`: `OnePurgePerUser /\ CopiesComplete => (Spec => []RefCovers)`.
  `RefCovers` is not inductive: a rollback could lower the count although the
  entries already use it up. The invariant `Balance` counts the holders too, the
  requests whose reference is in `ref_count` without an entry: `ref + debtors >=
  entries + holders`. An increment makes a holder, an insert turns a holder into
  an entry (or makes a debtor, in a copy), a purge turns an entry into a holder,
  a decrement uses one up. Steps that touch none of this (`Quiet`) are separated
  from those that do (`Loud`), which get one case each. `OnePurgePerUser` is
  needed because a second purge of one entry is a holder of nothing;
  `CopiesComplete` because a debtor that breaks off never pays.
  `Marked` says that the entry a purge is about to delete is there and shares the
  object in its hand; it needs that no other purge has the entry (`PurgesDistinct`),
  which one purging session per user gives (`OneOwner`), and so do purges that are
  alone with their content.
* `PurgeFromBinOnly`: `OnePurgePerUser => (Spec => PurgesOnlyRecycled)`, from
  `Purging` (the entry a purge has read is still in its owner's bin, since the
  only session that could restore it is the one that purges).

`DriveProofs`

The theorems come in three groups, by what may overlap; the first needs the fewest
provisos, the second allows most.

* Requests about one content one after another, any number about different contents
  at once, moves to and from the recycle bin at any time. `ApartEntriesStored`:
  `CopiesComplete => (ApartSpec => []EntriesStored)`; with `OnePurgePerUser` also
  `ApartKeepsPromise`, `ApartSpec => KeepsPromise`. Every fault is allowed but a copy that
  breaks off between its insert and its count. The invariant `SInv` adds to that of
  `ObjectRefsProofs` that a hash has one row (`OneRowPerHash`), that what the cache and the
  requests hold for a hash has it (`Keyed`), and what a request has made sure of when it
  comes to a call (`Ready`): the object is in the bucket before an entry is inserted, no
  row has the hash of a put that is taken back, no entry shares the object of a rollback
  or of the last purge. The last of these is where the count comes in: a purge that reads
  `ref_count <= 1` is a holder itself, so `Balance` leaves nothing for an entry.
  `Footprint` says what a step about one content leaves alone, the rows, entries, counts
  and bytes of every other (`Untouched`), and so `OthersReady`. Steps are split into those
  that write the tables or the bucket (`Writes`) and the others. For the refinement,
  `DriveOf` equals `Listed` as long as no bytes are missing (`DriveListed`), an insert is
  an upload (`InsertUploads`), and what leaves entries, bin and their objects alone is not
  seen (`Unseen`).
* `SerialEntriesStored`, `SerialKeepsPromise`: the case `MaxActive <= 1`, for `Spec`
  itself (`SerialApart`); the run `refs_serial_faults` is an instance.
* The merge lock. `MergeLockExcludes`: `"lease" \notin Faults => (Spec => []MergesExclude)`,
  from `LockHeld`: a merge holds its lock until it ends, and a key is held once.
* Uploads and copies of one content overlap, purges of it come between them.
  `SharedEntriesStored`: `Locked /\ ("purge" \in Ops => CopiesComplete) =>
  (PurgesApartSpec => []EntriesStored)`, `SharedKeepsPromise` the refinement of `Drive`
  under the same provisos and `OnePurgePerUser`, and `UploadsEntriesStored` the case
  without purges, for `Spec`. `Locked` leaves out the loss of the merge lock and the
  refusal of an entry after a new row: section 11 shows that each of them alone costs an
  entry its bytes. The proof goes through `OrderlySpec`, in which also the merges of one
  user and hash are apart. That the lock makes them so is a lemma of its own
  (`LocksOrder`, with the same `LockHeld`). In `OInv`,
  `Sharing` replaces `Ready` by what survives other requests about the same content. A
  rollback of a new object deletes bytes of which no row has the name, because the name
  carries user and hash and rows of that name come from that user's merges only; a
  lookup's row may have gone only through a purge, which is not there.
* Counts, bucket and cache when nothing is lost: `CalmCountsExact`, `CalmNoOrphans`,
  `CalmNoGhost` for `ApartSpec` and `SharedCountsExact`, `SharedNoOrphans`,
  `SharedNoGhost` for `PurgesApartSpec` with locks that last. `Calm` leaves out
  broken-off requests, MinIO errors and the refusal of an entry after a new row; other
  inserts may be refused. The runs `refs_apart_calm` and `refs_uploads` are instances. The
  invariant `CInv` holds an account for every object (`Ledger`): its count and the entries
  not counted yet (`Debtors`) are exactly the entries and the references under way
  (`Takers`). An inequality as in `Balance` would not do, and neither does the equation
  alone: DecreaseRefCount is silent at a count of 1, so a rollback that found 1 would lose
  a reference's worth of bookkeeping. It never does, because some entry is always counted
  (`Debtors` are fewer than the entries) and an object without entries has one merge or
  purge that answers for it (`Handles`). `Bucket` says what the bucket has more or less
  than the rows, `CachedRows` which cache key may have lost its row, and `Calmly` that
  calm requests work on rows that exist and never repair an object.

`DownloadTasksProofs`

* `TypeCorrect`: `Spec => []TypeOK`, with `AttemptLeft` (a retry is published only
  below `MaxRetry`).
* `ClaimExcludes`, `ListedOnce`: `StatusHolds => (Spec => []OneRunner)` and
  `[]FileOnce`. The invariant says that `running` is a lock (`Owned`), what each
  worker has made of the file (`Progress`), what the file is when nobody works
  (`Settled`), and that nobody knows a task before its message (`Unsent`).
  `StatusHolds` excludes the fault after which a file is listed twice.
* `RetryKept`: `Spec => []RetryNotLost`, with every fault. It needs the types only: a
  worker that acts on a retry goes on with it, gives it back or on, or changes the
  status (`RetryFrame`).
* `ActorsCounted`: `OnlyPublishesFail => (Spec => []OneActor)`, where fetches, publishes
  and statements about the status may fail. The invariant `Sole` says who the one
  actor of a task is (the API, a message, a worker) and which status goes with it;
  each step hands the task from one actor to the next, and the others' tasks stay as
  they are (`SoleElsewhere`). A stop or a timeout during the fetch is excluded: the
  redelivered message finds the task running and is dropped (section 11).
* `LifecycleImplemented`: `StatusHolds => (Spec => FollowsLifecycle)`: initial
  states map to initial states, and each step to one step of `TaskLifecycle` or to
  none.

`FileTreeProofs`

* `TypeCorrect`: `Spec => []TypeOK`. The invariant adds `Fits`, what a request
  holds at each of its statements (a copy that counts has a call in progress, a
  purge's calls work in real folders). `Fits` speaks of constants only, so one
  lemma carries it over each step (`GotoLocal`), and the rows are treated apart
  (`TreeStep`).
* `MovesKeepForest`: `OneMover /\ NoRecycle => (Spec => []Forest)`. `Forest` alone
  is not inductive, `UpdateParent` relies on a check made statements ago. `Up(t)` is
  `t` and the folders above it, defined without recursion as what every set closed
  under parents contains; `Checked` says of a move in progress that no moved entry
  is in `Up(target)` but those not yet checked, and the one in hand only if it is in
  `Up(cur)`. Inserts leave `Up` alone (`UpInsert`), a climb narrows it (`UpNext`), and
  after the UPDATE a group of entries with all parents in itself would have had one
  before, within `Up(target)` (`MoveForest`). Both provisos are needed, as section
  11 shows.
* `PurgeBelowBinOnly`: `PurgerAlone => (Spec => PurgesRecycled)`. The invariant says
  that all ids a purge holds are `Dead`: inserted, and if they still exist, in the bin
  or below it. Children of the dead are dead, and nobody raises the dead but
  RestoreFile and MoveFiles (`DeadStay`).

`MultipartProofs`

* `TypeCorrect`: `Spec => []TypeOK`, with `Shape`: a session in hand was created, a
  tab that sends has something to send, a merge that has counted has as many chunks
  of its session as the file has pieces.
* `MergesFind`, `ResumesTruly`: `Provisos => (Spec => []MergeFinds)` and
  `[]ResumeTruthful`. The invariant `Rest` has four parts. `Locked`: who merges has the
  lock. `Purged`: a purge is alone. `Merged`: who cleans up has merged. `Sound`: while
  there is no file, a session with a chunk row whose object is gone is not the
  newest, and nobody has it in hand. Objects are removed only after a merge, so a
  half-finished clean-up matters only once the file is purged, and the purge takes
  the rows of the newest session along. `Provisos` are those of the run: no purge
  while the file is uploaded again, none that breaks off.
* `MergesWhole`: `SingleCut => (Spec => []MergeWhole)`, with purges and every fault.
  Chunk indices are in range and rows unique, so that as many rows as pieces are all
  pieces (`AllPieces`, an injection between finite sets of one size).

`ActivityProofs`

* `TypeCorrect`, `NeverTwice`, `NeverForgotten`, `NeverMoreShown`: `TypeOK`,
  `CountedOnce`, `CountedAtRest` and `SummaryTruthful` without provisos. `CountedOnce`
  alone is not inductive: the invariant `Locked` says that, unless Redis or MySQL
  misled somebody, the dedup key is there as long as somebody works behind it or the
  event is counted, and that one actor at most does; `Kept` that an event not yet
  counted is with somebody or was taken by a mishap; `Shown` that the hash lags behind
  the row by at most the actors between the two counts.

`AccountsProofs`

* `TypeCorrect`, `OneAccount`, `ClicksAnswered`, `ProfileTold`, without provisos. The
  invariant adds that a row has the name its link was registered with (emails
  change, names do not), that an activation without excuse is alone with its link and
  how far it has come (`Alone`), what a link's keys say of its answers (`Answered`),
  and that a row about to be cached is the row there is, unless it was raced (`Current`).

`ViewsProofs`

* `TypeCorrect`, `LateTurnedAway`, `OneShareOpen`, `StaleTold`: `TypeOK`, `LateNotServed`,
  `OneOpenShare` and `StaleExplained`, without provisos (`OneOpenShare` has its own). The
  steps of the two parts are treated apart; what one needs of the other is that a row
  that is gone does not come back (`GoneStays`) and that only a purge takes one away
  (`OnlyPurges`). `Late`: a late visit finds no key, no open row or no file, whichever it
  has still to ask. `Single`: the older open shares of a file have expired, and who is
  about to insert one has seen that all have. `Told` adds to `StaleExplained` what an
  undisturbed request knows (`Knows`): a reader the listing as it is, a change that its
  entries are where it will invalidate. A change then invalidates every listing it
  touches (`ToldChange`), or it was raced and leaves a doubt.

Only model-checked: liveness (`EventuallyDecided`, `WalkEnds`, `PurgeEnds`,
`QueuedIsCounted`), which is out of the prover's reach.

## 13. What is not covered

* Storage cluster and sharding: no part of the running program. `main.go` and the
  services use one MinIO client and one database, and only tests build a cluster
  or ask for a shard.
* Look-up of a file object by path (`GetObjectByPath`) and downloads: read only.
* Favourites and recent files: upserts of single rows.
* URL checks, previews, ZIP streaming, sorting, mail, JWT, configuration:
  parsing, formatting and library calls without shared state.
* The connection of the publisher (`GetPublisher`) and of Redis, MySQL and MinIO:
  a lost connection is an error of the call that meets it. Errors of Redis in the
  invalidation of listings and profiles, which the code ignores, are left out: the
  stale key they leave expires by itself.
* Several users in one `Multipart`: their sessions never meet, their file object does.
* The source of a download and the body it sends: its outcome is a free choice.

## 14. What is left

1. Composition: offline downloads over `ObjectRefs` (an instant upload of the
   content a task is fetching), `FileTree` purges over `ObjectRefs`, and the merge of
   `Multipart` over both.
2. Proofs: what remains true of uploads that overlap a purge of their content
   (`RefCovers` and `PurgesOnlyRecycled` are proved of them; entries may lose bytes).
3. Two users of one content in `Multipart`.

## 15. Running it

`tlc -workers 2 -config <run>.cfg <module>` with `MCObjectRefs` for `refs_*`,
`MCDownloadTasks` for `tasks_*`, `MCFileTree` for `tree_*`, `MCMultipart` for
`uploads_one_cut`, `MCActivity`, `MCViews` and `MCAccounts` for the runs of their names;
`tlapm` on each module that ends in `Proofs`. Every run takes less than two minutes.
