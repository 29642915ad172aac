# A verification project for WaifuVault

WaifuVault is a temporary file host: an Express/Ts.ED server (`src/src`) run as four clustered
processes (`src/processes.config.cjs`), a database, Redis, a directory of files, two Go services
for thumbnails and zip archives (`src/go`), and a Next.js front end
(`src/frontend/waifu-vault/src/app`).  What makes it hard is that **no transaction covers the
database, the directory and the caches together**: every operation is a chain of awaits on several
of them, any two operations interleave at those awaits, in one process or in several, and a failure
in the middle leaves whatever was done so far.  The front end is the same again: handlers of one
page, pages of one browser and other clients interleave at their requests.

The modules here model those chains step by step.  TLC checks them on small instances, TLAPS proves
the central invariants for every size.

## Inventory

Paths are below `src/src` unless they start with `go/` or `frontend/`, which stands for
`src/frontend/waifu-vault/src/app`.

| Component | State | Operations | What is hard, what must hold |
|---|---|---|---|
| Upload pipeline (`services/FileUploadService.ts`, `config/multer/SizeLimitDiskStorage.ts`) | the received file; later a row | receive, hash, look for a duplicate, purge it if expired, filter, measure, check the bucket, encrypt, save; `modifyEntry` | ten awaits between the file and its row; a successful upload must leave both |
| Deletion and lookup (`services/FileService.ts`) | - | `processDelete`, `getEntry`, `getFileInfo` | files go before rows, errors are swallowed, the entries are read through a cache; only what may go may be deleted |
| File cleaner (`services/FileCleaner.ts`, `RunEvery.ts`) | what a run has read so far | `processFiles`, `sync`, `removeDupes`; hourly, every minute, at start | works on two reads at different times, in every process; must clean up everything and nothing else |
| File table and query cache (`db/dao/FileDao.ts`, `db/repo/FileRepo.ts`, `utils/timedSet`) | rows; cached queries in Redis; the set of cached tokens per process | save, delete, find, `clearCache`, `removeDuplicates` | invalidation knows only one process's tokens |
| Serving (`controllers/serve/FileServerController.ts`, `frontend/p`) | views, one-time files; the page that asks for a password | `getFile`, `postProcess`; HEAD checks, download | the row is read three times for one request; a HEAD request does what a GET does |
| Buckets (`services/BucketService.ts`, `db/repo/BucketRepo.ts`) | bucket rows | create, delete with all files | read, transaction and unlink are separate |
| Bucket sessions (`BucketAuthenticationController.ts`, `frontend/bucketAccess`, `frontend/admin/(bucket-auth)`) | the bucket in the session; what each tab knows of it | open, close, delete, redirect | tabs share a cookie and each believes what it asked last |
| Albums (`services/AlbumService.ts`, `db/repo/AlbumRepo.ts`) | album rows; `albumToken` and `addedToAlbumOrder` of file rows | create, assign, disassociate, reorder, share, revoke, delete | limits and orders are checked, then written; whole models are saved |
| Thumbnail cache (`db/repo/ThumbnailCacheRepo.ts`) | rows, and copies in Redis that the Go service writes | save, delete, read through | two stores that must agree, three writers |
| Encryption (`services/EncryptionService.ts`) | the bytes of a file | encrypt, decrypt, `changePassword` | file and row must agree on the password |
| Filters and IP blocking (`engine/impl/fileFilters`, `manager/FileFilterManager.ts`) | rejected uploads per IP, per process | filter, count, block | three filters at once on one file; a timed counter |
| Reputation queue (`services/FileReputationService.ts`) | a queue per process | enqueue, scan | lost on restart |
| Administration (`services/*AdminService.ts`, `frontend/admin/(admin-auth)`) | the table of blocked IPs; the page | list, delete by ids, ban, unban | a ban is up to three steps per IP; the page's handlers overlap |
| Users, authentication, captcha (`services/UserService.ts`, `frontend/login`, `hooks/useCaptcha`) | user rows, sessions; the widget and its token | first user, login, change; solve, send | four processes make the first user; sessions keep an old email; a script that comes late |
| Thumbnail service (`go/thumbnails/pkg`) | flag per album; channels, workers, a batch; a cache of single thumbnails | generate for an album, by token, by upload, by URL | termination of the pool, one run per album; a cache keyed by names |
| Zip service (`go/zipFiles/pkg/zip`) | flag per key; archives | zip, download, remove | the flag does not exclude |
| Bucket page (`frontend/admin/(bucket-auth)/bucket`, `frontend/components/FileUpload*`) | a copy of the bucket, the album shown, the upload queue, the calls under way | upload in batches, delete, move, empty, refetch | handlers interleave at their awaits, answers come out of order, a closed dialog's uploads go on |
| File browser (`frontend/components/FileBrowser`) | selection, marks, drags, dialogs; page and page size, in LocalStorage too | select, delete, drag, sort, search, turn pages | the selection outlives the list it was made in |
| Album sidebar (`frontend/components/AlbumSidebar`) | albums shown, a menu, a dialog; pins in LocalStorage | create, share, delete, pin | several tabs, one LocalStorage |
| File previews (`frontend/components/filePreview`) | a load per file, a cache of the module | fetch, render anew | an effect that starts again while the last one is under way |
| Migrations (`migrations/sqlite`, `migrations/postgres`, `db/DataSource.ts`) | the tables themselves, the list of those applied | up in one transaction before the server starts, down of the last one | SQLite makes most tables anew; several migrations change what a column means |
| Info socket, resources, settings, URL download | - | read only, except the file a URL download writes | its name has the resolution of a millisecond |

Left aside: rendering, DTOs, configuration and Docker files.

## Modules

| Module | What it is | Instances, theorems |
|---|---|---|
| `FileStore` | uploads, deletion, the cleaner, serving and bucket deletion, over the rows and the files | `MCFileStore`, `MCFileStoreScenes`, `FileStoreProofs` |
| `Entry` | one entry after its upload: PATCH, DELETE and reads of it, encryption, and the query cache | `MCEntry`, `EntryProofs` |
| `AlbumList` | what an album promises: a list of files that changes as the requests say | |
| `Album` | the requests on one album, step by step; implements `AlbumList` until two of them race | `MCAlbum`, `AlbumProofs` |
| `Intake` | what one IP uploads: streams, URL downloads, filters, blocks, the reputation queue | `MCIntake`, `IntakeProofs` |
| `Retention` | how long a file is hosted | its own run |
| `ThumbJob` | what the thumbnail service promises of an album | |
| `ThumbBatch` | requests for thumbnails and the pool of goroutines that serves them; implements `ThumbJob` | `MCGoServices`, `GoServicesProofs` |
| `ZipDownload` | downloads of albums as archives, the service that makes them and the cleaner that sweeps them | `MCGoServices`, `GoServicesProofs` |
| `ThumbCopies` | the row of one thumbnail and its copy in Redis | `MCThumbnails`, `ThumbnailProofs` |
| `ThumbMaker` | thumbnails on demand, by token, upload and URL, over one cache | `MCThumbnails`, `ThumbnailProofs` |
| `UploadQueue` | the upload dialog of the bucket page | |
| `BucketPage` | the page around it: extends `UploadQueue` | `MCBucketPage`, `BucketPageProofs` |
| `FileBrowser` | the selection of the browser of files and what it asks its page to do | `MCPages`, `PageProofs` |
| `FilePages` | the pages of its lists, in the component and in LocalStorage | `MCPages`, `PageProofs` |
| `AlbumSidebar` | the albums beside the files, in several tabs | `MCPages`, `PageProofs` |
| `OnScreen` | those three together, and what a page of files shows | `MCPages`, `PageProofs` |
| `BucketAccess` | the two pages of a bucket and the session behind them | `MCAccess`, `MCSettles`, `BucketPageProofs` |
| `FileAccess` | opening a file by its link, with or without a password | `MCAccess`, `MCSettles`, `PageProofs` |
| `Users` | the table of administrators and their sessions | `MCAccess`, `PageProofs` |
| `AdminPage` | bans and deletions by the administrator | `MCAccess`, `PageProofs` |
| `Administration` | the last two together, and what an administrator is told | `MCAccess`, `PageProofs` |
| `FilePreview` | previews that load in effects | `MCSettles`, `BucketPageProofs` |
| `LoginForm` | a form with a captcha | `MCSettles`, `BucketPageProofs` |
| `Visitor` | `BucketAccess`, `LoginForm` and `FilePreview` together, and what nobody has called for | `MCSettles`, `BucketPageProofs` |
| `Schema` | the statements of every migration, up and down, of both databases | `MCEntry` |
| `Migrations` | builds that follow each other, upgrades, reverts, and the rows that go through: extends `Schema` | `MCEntry` |

The modules share no variables except where one extends another: each of them takes the part of the
world it needs (a row, a file, a cache) and lets the others change it as their code does.  How the
query cache goes stale is `Entry`; `FileStore` and `Album` take from it that a cached read may
return rows that are gone.

Six MC modules put several modules **side by side**.  Their parts share no variable: `part`, chosen
at the start from `Moving`, is the one that moves, the others rest in one initial state.  Such a run
therefore checks each part by itself, as a run of its own would, and a property of it speaks of the
part that moves.  Each part was also explored alone with larger bounds while it was written.
`MCEntry` has `Entry` and `Migrations`; `MCThumbnails` has `ThumbMaker` and `ThumbCopies`;
`MCGoServices` has `ThumbBatch` and `ZipDownload`; `MCPages` has the three parts of `OnScreen`:
`FileBrowser`, `FilePages` and `AlbumSidebar`; `MCAccess` has `BucketAccess`, `FileAccess`, and the
two parts of `Administration`: `Users` and `AdminPage`; `MCSettles` has the three parts of
`Visitor`: `BucketAccess`, `LoginForm` and `FilePreview`, and `FileAccess`, with their fairness.
`OnScreen`, `Administration` and `Visitor` hold the properties that the run and the theorem state
of several parts at once.

### FileStore

`disk` is the directory `files`, `rows` the file table; both are sets of uploads, since every
upload names its file, its token and its row freshly (`uuid()`; see *Not modelled* for URL
uploads).  Four kinds of actor change them:

* **Uploads.** `upc[u]` is where `processUpload` is: `Receive` (multer) - `HandleExistingFileModel`
  - `ReturnExisting`, or `PurgeExpired` and `Purged` - `FilterPasses`/`FilterRejects` -
  `GetFileSize` - `BucketExists` - `EncryptRead`, `EncryptWrite` - `SaveEntry`.  One action per
  stretch of code between two awaits that touches shared state; the failures at each stretch are
  actions or branches, and the difference between an error that is an `Exception` (the error
  processor deletes the file) and one that is not (nothing does) is kept.
* **Requests.** `GET /f/:t` in three steps (`GetEntry`, `GetEntryServe`/`GetEntryGone`,
  `PostProcess`/`ServeAborted`), `DELETE` and `GET /rest/:token`, and the deletion of a bucket in
  three (`DeleteBucket`, `DeleteBucketTx`, `DeleteBucketFiles`).
* **Nodes.** A run of `FileCleaner`: `ProcessFiles`, `SyncRows`, `SyncFiles`, one `SyncMove` per
  file, `SyncDone`, then `RemoveDuplicates`, `FindDuplicates`, `DropDuplicates` per group.  The
  cron of every minute starts at `RemoveDuplicates`.  `preventOverrun` (`RunEvery.ts:43`) keeps a
  job from overlapping itself; the two jobs of one process may overlap, which is two nodes here.
* **Jobs.** `processDelete`, called by all of them, is a little machine of its own (`jpc`, `jtok`,
  `jfile`): read the entries, unlink their files, delete the rows, with failures of either.

Two facts of the code shape the model more than others.  `getEntries` answers from a query cache
shared through Redis, so `CachedEntries` may return rows that were deleted since.  And
`deleteFile` joins `filesDir` to its argument, so the calls that pass an absolute path
(`FileUploadService.ts:124`, `:206`, `Utils.ts:187`) remove nothing.  The last of them is what
`softDelete` does without `SOFT_DELETE_LOCATION`, the default of the code: `SoftDeleteSet` says
whether it is set, and what is reclaimed is stated for both.

Time is the set `expired`; expiry dates themselves do not change in this module.

`asked`, `superseded`, `unborn` and `caught` are history variables: no guard reads them
except to record more history.  `Excused` collects the reasons for which an entry may go.

### Entry

One row and its file, after the upload.  `row` and `bytes` hold the password and what the file is
encrypted with (one value stands for all columns, since a save writes them all); `cache` is Redis,
one for all processes, by query id; `known[p]` is the `TimedSet` of tokens that process `p` would
invalidate.  A request reads through the cache (`Read`, then `Hit`, or `Miss` and `Fill`) and then
does what its handler does: PATCH decides (`PasswordIncorrect`, `ExpiryRefused`, ...), rewrites the
file in two steps (`ReadFile`, `WriteFile`), and saves the model it has read (`Save`, `ClearCache`,
`ForgetTokens`); DELETE unlinks, deletes the row and clears; album operations write back the same
model (`WriteBack`).  `Expire`, `TimerFires` and `Crash` are the environment: a query's 60
seconds, the timers of `TimedSet` with the one that `add` forgets to cancel, a restart that empties
`known`.  `WriteFails` is a write that stops with the file emptied or in part, `StoreFails` Redis or
the database failing at any step of a request; what `rm` throws is swallowed, so that the file may
stay when its row goes.  `parted` and `excused` are histories: the named reasons for which the file and the row
may disagree, and for which a save may be stale.

### Album and AlbumList

One album of one bucket: `exists`, `pub` (its public token), `row[f]` (gone, out, or the place in
the order), `disk`, `copy` (the cached list, which `known` says whether the process would
invalidate), `premium`.  `req[r]` is a request between two awaits: assign, remove, swap, view,
delete (with or without its files), share, revoke.  Each saves whole models: saving an album makes
the set of its files what the model holds, saving files inserts those that are gone.  The transaction
that deletes an album with its files answers true also of an album that another request has deleted
before (`AlbumRepo.ts:24-36`), so that the files read at first are unlinked whether their rows went or
were kept (`DeleteAlbumTx`, `torn`); the one that keeps them tells its client (`NothingToDelete`).

`AlbumList` is the abstract specification: a list of distinct files to whose end files come, which
files leave, in which two change places, and which is emptied.  `ImplementsList` maps `row` to it
(`Shown`).  The promise is off once a race was taken (`"excused" \in cause`): two requests that
overlap, or a cached list that is old.  Two files with one place in the order have none between
them, and the mapping has no list for them.

### Intake

What one IP sends.  A form upload is a stream with `opening`, its pieces, its end, its errors and
its size limit (`SizeLimitDiskStorage`); a URL upload is fetched by the server.  Then the three
filters run at once (`Promise.all`), each removing the file it refuses, the tracker counts refused
names, a block reads the entries of the IP and deletes them in later steps, and what is suspicious
waits in the queue of the reputation service, in batches, in memory.  A block by an administrator
does so only if it is asked to (`removeRelatedData`, false by default: `insertOnly`).  `ProcessDelete`
swallows what `rm` throws, so that a file may stay, and what the database throws, so that rows may.
`Crash` empties what the process remembers.  No row expires here; `AdminPage` has rows that do.

### Retention

Pure arithmetic in days with a clock: `GetTimeLeftBySize` as it is called, and `Modify`, which
counts from the day of the upload or from today.

### ThumbBatch

One album.  `rpc[r]` is where a request is: `GenerateThumbnail` (the main server reads which files
have no thumbnail), `Post` (the service asks `IsAlbumLoading` and answers), `Process` or
`ProcessDropped` (`LoadOrStore` of the flag, in a goroutine of its own), `Return`.  A request that
is processed has a feeder (`feed`, `files`), workers (`wpc`, `wfile`) and a collector (`cpc`,
`batch`); `files` and `results` are the states of its two channels.  They are unbuffered, so `Feed`
and `Collect` are one step for the sender and the receiver.  `SaveThumbnails` is one INSERT of the
whole batch: `Acceptable` is the unique index on `fileId` and, on Postgres, its foreign key.
`Crash` is a restart of the service, which keeps the flag in memory; `DeleteThumbnail` and
`DeleteEntry` are what the main server does to the two tables meanwhile.

The refinement maps `busy` to the flag and `left` to all that the running request holds, in the
feeder, the workers and the batch (`Left`).  In `ThumbJob` a file leaves a job only by being saved
or for a reason, so a batch that is not reset, a last batch that is forgotten or a second job at
the same time are no steps of it.

### ZipDownload

`activeZipping` is the `sync.Map` of the service, `archive[r]` what the service has on disk for a
download, `pc[r]`, `left[r]` and `away` the download itself: `IsZipping`, `LoadOrStore` (whose
result is ignored), the file, its parts (none, if every file has a password), the closing of the
archive, whose errors are ignored, the answer, the streaming by the server, the deletion of the
archive.  Either process may crash, the server's `fetch` may be rejected while both live
(`FetchRejects`: then the service works on for nobody), a client may leave at any time, and `Sync` is
the cleaner's sweep of archives, which removes them only with a `SOFT_DELETE_LOCATION`
(`SoftDeleteSet`).

### ThumbCopies

The thumbnail of one file after its batch: `row` in the database, `copy` in Redis, `fileRow` the
file it belongs to.  The Go service writes the copy after it has answered for the row (`storing`),
a reader that finds none writes it from the row, whoever deletes the row deletes the copy next and
waits for neither.  A thumbnail can be empty, since ffmpeg succeeds without a frame.  Whether the
row of a file that is gone is refused is `Enforced`: the Go service opens SQLite without foreign keys
(`dao.go:52`), Postgres has them.  `stale` and
`missed` are histories: why a copy may have no row, why a file of the album may have no thumbnail.

### ThumbMaker

The three routes that make one thumbnail: by token, of a file that is sent, of what a URL serves.
`req[r]` is a request from the look into the cache to the answer, `cache` is Redis with the keys
as the service computes them (`CacheKey`: `calculatePartialFileHash` sees the start and the size of
a file), `temp` and `litter` are temporary files.  `had` is the history of what each source has
held, which a cached answer may be of.

### UploadQueue and BucketPage

The state of the page is a handful of `useState`s.  In `UploadQueue`: `dialog` (open, and for
which album), `status` (the files in its queue), `upload[c]`, the batches of `MAX_CONCURRENT` that
`startUpload` runs in call `c`.  The queue is a set: the order in which it was filled is left open,
so a batch is any of the `Batches` of what is still to be sent.  In `BucketPage`: `view`
(`bucketData`), `selectedAlbum`, `isLoading` (the overlay of `LoadingContext`) and `call[c]`, a
handler under way: its change at the server, the read of `fetchBucketData`, the answer that becomes
the view, and what is left of the handler (`AfterChange`, `Fetch`, `EndWithError`).  The server is
one step per request: its own interleavings are `FileStore`, `Entry` and `Album`.  `seen` says
whether the view has every change the page itself knows of; `blurred` why the dialog may count
wrong.

### FileBrowser and FilePages

`FileBrowser` is the component as a machine of events: what is `selected`, the `anchor` of a range,
the `dialog`, the `menu` and what is `dragged`, each holding what was true when it came up.  Keys
are heard from the document, so that they work behind dialogs, which clicks do not.  `where` is
what the page knows of each file; the browser is one component for all lists, and its selection
outlives them.  What is typed into the field of the search is trimmed where the component asks
whether a search is active (`Searching`), and not where it filters (`Listed`): spaces alone
(`Blanks`) hide files and are no search.  `meant` is the history of what a dialog came up for, `behind` that the selection
has changed since.  `FilePages` is the page and the page size, kept in the component for the list
that is shown and in LocalStorage for all, with the two effects that make one follow the other.

### AlbumSidebar

The albums beside the files, in several tabs: form, menu, delete dialog and pins of each (`sidebar`),
the handlers under way (`work`), `stored` in LocalStorage.  The overlay (`covered`) lets no second
handler of a tab begin, but `handleUploadComplete` fetches the bucket whatever is under way
(`RefreshAlbums`), and ends the overlay with itself, so that another handler may begin under the first
one; the answers of a tab come in any order (`FetchBucketData`, `SetBucketData`).  `overtaken` is the
history of what came between a handler and what it shows: a change by another, or an older answer.
Pins are read when the sidebar appears and written as a whole.  `pinned` is the history of what somebody wanted, `unread` and
`overwritten` say which tabs have missed a write and whether one of them wrote.  The order in which
the albums are listed is a sort of what is shown and is not modelled.

### BucketAccess

Two pages in several tabs (`path`, `auth`, `shown`), one `cookie`, the sessions in `store`, the
`bucket`s.  `own` is the request a page makes by itself when it comes up, `act` the handler its
user began.  A request loads the session when it comes in and writes it when it ends, if it changed
it, as express-session does; each page goes to the other when it is the wrong one.

### FileAccess

One `file` and the page `/p/<file>` in each `tab`: the HEAD request it makes by itself, the
password form, the download.  The server takes four steps for each request: the filter of IPs, which
comes before every route and says 403 too (`IpFilter`; `barred` is changed by the administrator,
`Bar`), and three that read the row anew, `HasPassword`, `GetEntry`, `Finish`; a finished response
sets off `PostProcess` (`jobs`).  `held` is the history of a request with which nothing was wrong all
the time.
`got` is the history of what somebody has received.

### Users, AdminPage

`Users` is the table of administrators: `boot`, the `$afterInit` of each process, and `request`,
logins and changes, against `session`, which keeps the email of the login.  `AdminPage` is the page
behind the login: what is `onPage`, the dialog that bans (`ban`), the handlers (`handler`; a ban is a
request per IP, of up to three steps each), the `place` of each file and the `blocked` IPs, with what
others do meanwhile.  A file that has expired is there until the next cleaning, and neither the list
of files nor that of a ban has it (`Expires`, `List`).  `outcome`, `outdated` and `together` are histories of the handlers, `spared`,
`unmoved` and `freed` of the files and IPs that a ban does not get.

### FilePreview, LoginForm

`FilePreview` is a load per file in an effect that every rendering may start again (`load`,
`stale`), with the cache of the module.  `LoginForm` is `useCaptcha` and `handleSubmit`: the script
that comes late, the `timer` that waits for it, the widget, the `token` and what the service has
`taken`, the calls under way.  An accepted form stays, with its token, until the router arrives
(`Accepted`, `Navigate`).

### Schema and Migrations

`Schema` has each migration as its two sequences of SQL statements, `up` and `down`, for SQLite (26)
and for Postgres, and the tables the entities ask for (`Entities`).  A table is its columns, those
that are NOT NULL, its references and its rows; the types of columns and the unique constraints are
left out.  In `Migrations` a build is the number of the last migration it has: `Deploy`, then `Start`,
one `Apply` per migration in one transaction, `Commit`, or a statement that cannot be done, or a
`Crash`; `Revert` undoes the last one.  Files are uploaded in between, and `given` is the history of
when a row was made, by which build, and what was reverted since.

External, and assumed: a transaction is atomic (TypeORM runs all that are pending in one); SQLite
does not check foreign keys during a migration and has the references to a table follow a rename;
what builds of the past stored in a row is taken from the migration that came next, since only the
newest code is there.

## Runs

Twelve runs, one for each question; each checks what relates several pieces of state or several
actors.  The type invariants were explored with TLC while the modules were written; those of the
modules with proofs are theorems.

| Run | Checks | Shows |
|---|---|---|
| `file_store_race` | `NoOtherLoss` | every kind of step against every other: a stored file is lost only for the named reasons |
| `file_store_live` | `SyncPurgesDeadRows`, `ContentSurvives`, `ReclaimedAsConfigured`, `DuplicatesCollapse` | what failures leave behind is cleaned up, and no more than that |
| `entry` | `ContentFollowsRow`, `StaleSavesExplained`, `SchemaAsReleased`, `RowsKeepTheirMeaning` | when the file and its row part, when an old model is saved; that the way by which a database came to a build makes no difference to its tables, and no row changes what it says |
| `album` | `LimitKept`, `RowsHaveFiles`, `UrlsAsTold`, `ImplementsList` | what races do to an album, and that without one it is the list it promises |
| `intake` | `AcceptedIsWhole`, `RefusalsAreWhole`, `BlockedStaysOut`, `NoneForgotten` | a refusal leaves no file, an answer no half file, a block no upload, the queue no malicious file, each but for its reasons |
| `bucket_page` | `ShowsItsChanges`, `StatusFollowsUploads`, `PageInv`, `NeverSentTwice` | what the page shows in the end, which album it works on, what its dialog uploads |
| `thumbnails` | `CopiesGo`, `NoneMissed`, `MovesAsAsked`, `OwnThumbnail` | copies go with their rows, no file is missed, what is served is what was asked for |
| `go_services` | `PoolInv`, `KeysOK`, `NothingLeftBehind`, `ImplementsJob`, `EverythingEnds` | the pool implements the job, no goroutine waits for ever; no key is stuck, no archive stays |
| `pages` | `ShownIsSo`, `DeletesWhatWasAsked`, `ReordersByLayout`, `ComesBack` | what is shown is so, and what is deleted and reordered is what the user was shown and asked for |
| `access` | `SessionsInv`, `ChecksUseUpNothing`, `LastChangeWorks`, `AdminExplained` | what is open, used up, valid and removed, across tabs, processes and handlers |
| `settles` | `NothingUncalledFor`, `PagesSettle` | pages that send a tab to each other, checks, previews and a late captcha all come to rest |
| `retention` | `LargestForThirtyDays` (violated) | the largest file is hosted for nearly a year |

**Bounds.**

| Run | Instance |
|---|---|
| `file_store_race` | 2 uploads of one content into a bucket, one one-time, one encrypted; 1 client, 1 node, 1 fault |
| `file_store_live` | three scenes, each with 1 node and 1 fault: 2 uploads of one content, with `SOFT_DELETE_LOCATION` and without; 1 upload into a bucket, with it, and a client who deletes the bucket |
| `entry` | entry: 2 requests in 2 processes, 1 password; stops where both histories are set (`InDoubt`). data: both databases, 4 builds (8, 12, 22, 26 migrations) and the one before them, 2 files, 4 reverts |
| `album` | 2 files, a limit of 1, 2 requests at a time, 6 to be begun (one beside another counts twice), places up to 4, 1 public token |
| `intake` | 2 uploads of 4 kinds, a threshold of 1, 1 block by an administrator, with the entries or without, 1 crash or failure |
| `bucket_page` | 2 files, one of them in the bucket, 1 album with room for one, batches of one, 2 calls, 2 handlers to be begun, 1 fault |
| `thumbnails` | copies: 2 requests, 1 fault, 1 crash, no foreign keys (`Enforced`; with them the run passes too); maker: 1 request at a time, 1 token, 1 URL, 3 contents, 1 cached thumbnail, 1 crash |
| `go_services` | pool: 2 requests sharing a file, 4 files of which one is unsupported, batches of 2, 2 workers, 2 faults; zip: 2 downloads of one key, no part or 1, 1 fault, `SOFT_DELETE_LOCATION` set |
| `pages` | browser: 2 files, 2 sortings, a search for one, for a space, for nothing; pages: 2 lists of up to 6 files, pages of 1 and 5, so that the row of numbers is shortened (it is for more than 5); sidebar: 2 tabs, 2 albums and names, 2 handlers or ends of uploads, and pins without them |
| `access` | 2 tabs; 2 buckets and 4 handlers; a file with 2 visits, 1 submit, 1 change of the password or the block; 2 processes, 3 requests, 1 crash; 1 IP with 2 files, of which one may expire, and 2 handlers or 1 and a change by others; 1 fault |
| `settles` | 1 tab, 2 buckets, 1 deletion by others; 1 preview, 1 change; 2 submits of a form with 3 captcha tokens; 1 fault |
| `retention` | a limit of 2 megabytes of 4 bytes, 40 days |

Every hazard listed in `PROJECT.json` involves at most two uploads, requests, tabs or calls, or one
of them and one other actor, and a slot of each of them serves again and again, so "twice the same
actor" is covered by one.  Several nodes, and more of anything else, are covered by the theorems
where there are some.  `MaxFaults` (in `ZipDownload`
`MaxZipFaults`) bounds processes that die, I/O errors, calls that fail and lost answers together: one
reaches every error path, and two are given where the second matters (an error in each of two
batches, or one and a restart).  `Entry` needs two processes, since each knows only its own tokens;
its run stops where both histories are set, since nothing is claimed beyond.  In `Album`, a limit
of one with two files makes every assignment a question of the limit.  `Intake` has four kinds:
each way in, each filter's refusal, alone or with another, and a malicious file; with a threshold of
one the second refused name blocks.  For `ThumbBatch`, a request for three files and batches of two give a full batch and
a last one, one for two of which one is unsupported a worker that ends without a thumbnail, and two
requests everything a third could add, since only one is processed at a time.  In `ThumbMaker` one
request at a time is enough, since requests meet only in the cache, which keeps what earlier ones
have left.  Symmetry is used where the instance is symmetric and no liveness is checked.

**Deadlock** is checked in the runs of `FileStore` and `Entry`, where something can always happen.
In the others the user, the clients or the bounds may leave nothing to do.

**Fairness.**  In `FileStore` (`FairSpec`) a `processDelete` that was called and a cleaner run that
was started go on (weak fairness of their success actions; a failure counts against `MaxFaults`).
The crons fire again and again (`RunEvery`), and since the hourly and the minute cron compete for
the one `npc` of a node, both get strong fairness.  Nothing is assumed about clients or uploads: an
upload may hang for ever, and what is reclaimed are files of uploads that have ended.  The run states
this fairness of the actions in each of its scenes (`SceneFairness`).  What `ReclaimedAsConfigured`
says of orphans holds with a `SOFT_DELETE_LOCATION`: without it nothing removes them, and only dead
rows go; likewise `ArchivesSwept` in `EverythingEnds`.  In `ThumbBatch`
the goroutines of the service are scheduled (weak fairness of each worker, of the rest of the pool,
of the start and the end of `Process`): Go's scheduler runs what can run.  That includes that
libvips and ffmpeg return.  The main server's part of a request is not fair.  In `ZipDownload` a
download that was begun goes on in both processes, and the cleaner runs every hour.  In `MCSettles`
requests of the pages are answered or fail, effects and timers run, loads end, the router arrives and
the captcha that is there is solved; of the users nothing else is assumed, and of the loads of one file only that one
of those in flight ends.  The other specifications state no fairness and claim no liveness.

## Findings

`PROJECT.json` has each of these with the line, and quotes what the repository says instead.
`LargestForThirtyDays` has a run; the others were seen with TLC on single modules, on instances of
the size of those above, with a property that says what the repository says.

* **Hosting.**  `HostedForItsTime`: `sync` reads the table before the directory
  (`FileCleaner.ts:39-40`), so the file of an upload that is saved in between looks like an orphan.
  `LargestForThirtyDays`: the curve multiplies bytes by 1048576 (`Utils.ts:158`).
  `OrphansReclaimed`: without `SOFT_DELETE_LOCATION`, which is not "softDelete" by default as the
  documentation has it, `sync` removes neither files nor archives (`Utils.ts:187`, `:291`).
* **Entries.**  `RefusalLeavesFileReadable`: `modifyEntry` rewrites the file before it refuses the
  expiry.  `RemovedOnceDownloaded`, `ViewsAreDownloads`: a HEAD request counts as a view and removes
  a one-time file.  `ErrorsAreShown`: the page of a missing file says "Checking" for ever.
  `IncorrectOfProtected`: the page asks a client whose IP is blocked for the password of any file, and
  says of each that it is incorrect.
* **Albums.**  `RemovedStaysOut`: `removeFilesFromAlbum` leaves the cached list, from which a swap
  saves.  `AsksOfAlbums`: the dialog stays when the fetch after a deletion fails.  `PinsKept`: two
  tabs take each other's pins away.
* **Thumbnails.**  `EmptyIsReplaced`: an empty one is never made again.  `DeletedAreRefused`: the
  cache of single thumbnails outlives their files.
* **File browser.**  `SelectedAreFiles`: a range without its anchor selects `undefined`.
  `DeletesThese`: keys change the selection behind the dialog.  `OffersSelected`: Escape does not
  tell the page.  `ShowsWhatItSays`: a larger page size can leave an empty page.
  `ReordersUnsearched`: a space in the field of the search hides files and leaves reordering on.
* **Buckets.**  `DeadBucketAsks`: a session of a deleted bucket leads to an empty page.
  `DeletesShown`: the dialog deletes the bucket of the session, not that of the page.
* **Administration.**  `RemovesAssociated`: a ban of a blocked IP deletes no files.
  `RefusedRemovesNothing`: an unblock that is refused has unblocked others.  `ToldAreDeleted`: a
  deletion that failed is told as done.
* **Users.**  `ToldPasswordWorks`: processes make the first user several times.  `StillLoggedIn`: a
  session keeps the old email.

Seen on the way, without an entry: "Successfully generated thumbnails" is logged of a request that
was refused (`AlbumService.ts:318`); the window of `FileRejectionFilter` begins again with each
refusal; what `Close` of an archive returns is ignored (`service.go:47-50`), so that one that could not
be written to its end is sent.

Of the migrations, likewise.  While one that made a table anew is reverted, other tables may refer to
the table under its temporary name until the next upgrade mends it.  The `down` of `RemoveSession`
does not make its index again, so that the `down` of the first migration, which drops it, fails.
Those of `make-expires-nullable` and `null_ips` fail when a row has the NULL that they allowed.
`hash_ip` hashes the IPs of files and not those that are blocked, and hashes twice when it is
reverted and applied again; the `down` of `OldFiles` loses the extension of a file name.
`ExpiresDataMigration` never takes the limit from the environment: its test is the wrong way round.
`RowsKeepTheirMeaning` and `SchemaAsReleased` name those that concern them as exceptions.

## Theorems

Eight modules hold proofs, each checked to the last leaf.  Constants are arbitrary but for the named
assumptions of the modules (types of constants, that different kinds of actors differ, that bounds
are numbers); TLC evaluates them in the runs.  A property as it stands is seldom inductive: each
section says what was added, and why.

### FileStoreProofs

`TypeCorrect`, `StoreInvariant`, `NothingElseIsLost` (`NoOtherLoss`), `PurgedRowsAreDead`
(`SyncPurgesDeadRows`), `ContentIsKept` (`ContentSurvives`), for every number of uploads, requests,
nodes, keys, buckets and faults, from `ActorsAssumption` and `KindsAssumption`.

`NoOtherLoss` says nothing of what the actors hold in their hands.  `StoreInv` adds that.
*Accounted*: every row ever inserted is intact or excused.  *JobsExcused*: whatever a
`processDelete` is about to delete is excused, already when it starts, so that its two steps cannot
hurt.  *TargetsKnown*: a request holds one known entry, or the files of a bucket that were excused by
the transaction before they are unlinked.  *UnsavedHeld*: from `getFileSize` to the row nobody but
`sync` takes the file of an upload.  The heart is *SyncAccounts*: between its two reads, every upload
is in the rows `sync` has read, or had no row then (`unborn`), or may go; so the files it decides to
move belong to uploads that were unborn or are excused, and moving one that was unborn is recorded in
`caught`.  In the other direction `SyncPurgesDeadRows` needs that a file is never created once its
row exists: `Receive` and `EncryptWrite` happen before `SaveEntry`.

`ContentSurvives` needs `DuplicatesInv` besides: among the entries a key ever had one has the lowest
primary key (`HasFirst`), and whatever was or is about to be deleted as a duplicate comes after
another (`VictimsLater`).  So the first one is nobody's duplicate, and by *Accounted* it is intact if
nothing else took it.  It holds although the groups and the victims are read before they are deleted,
because a primary key is never given twice.

### EntryProofs

`EntryInvariant`, `TypeCorrect`, `OldModelsAreExplained` (`StaleSavesExplained`), `ContentIsOfRow`
(`ContentFollowsRow`), for any passwords, processes and requests, from `PasswordsAssumption`.

`EntryInv` has the shape (`RequestsInv`: what a request has rewritten and wants, by where it is) and
two arguments.  *Coherent*, until something excuses an old model: one request is active at a time, a
cached copy is known to a process that clears it and is the row unless who changed the row is about to
clear it, and who has read has read the row.  *Together*, until something parts file and row: one
request at a time has rewritten the file and not saved its password yet, and the file holds what the
row will say (`Coming`).  A write that stops in the middle and a database that refuses the save part the
two; a Redis that fails before the copies are cleared excuses what is read from them.

### AlbumProofs

`AlbumInvariant`, `TypeCorrect`, `LimitIsKept` (`LimitKept`), `FilesOfRows` (`RowsHaveFiles`),
`UrlsAreAsTold` (`UrlsAsTold`), `AlbumImplementsList` (`ImplementsList`), for any files, limit,
requests and bounds, from `AlbumAssumption`.

After the shape of requests (`SlotsInv`, `SharesInv`) there is a part for each property.  *UrlsInv*:
while no writers of the public token raced, there is one at a time, and whoever read the token to
write it back has read what it is.  *LimitInv*: while none that were checked overlap and nothing
comes back, one assignment is under way, and its files fit in beside those that are there.
*FilesInv*: who deletes rows and files has deleted the one when it comes to the other, or it is noted
(`torn`); the files that an album lost between the two reads of its deletion, or that were kept by
another that deleted it first, are noted so.  That the renumbering of a list gives each file a place
no larger than their number is a lemma about the order of the list, by well-founded choice of the least.

The refinement needs two things.  One is what a list is: different places have exactly one
arrangement (`ShownIsArrangement`: every file at the index that is its rank), places in the same
order make the same list (`AlikeShown`), and what a change of the rows is as a step of `AlbumList`
(`Associates`, `Disassociates`, `Empties`, `Swaps`).  The other is *ListInv*: until something excuses
it, different files have different places, one request at a time may change them, and it is
*Ready*: what it has read of the places is what they are, what it will save are places after all
others in the order of the ids, the old places in their old order (the renumbering), or the old ones
but for two.  So the renumbering is a stutter of `AlbumList`, and the other writes are its steps.

### IntakeProofs

`IntakeInvariant`, `AcceptedHasItsFile` (`AcceptedIsWhole`), `RefusalsLeaveNothing`
(`RefusalsAreWhole`), `BlockedIsOut` (`BlockedStaysOut`), `AllAreLookedUp` (`NoneForgotten`), for
any uploads, kinds, threshold and number of blocks and crashes, from `AdminAssumption`
(the administrator is no upload), `KindsAssumption` and `NumbersAssumption`.

What is claimed of one upload depends on that upload alone (`UploadInv`), so a step has to be looked
at only for the one it moves.  *PlaceInv*: where an upload is, what it has there.  *FilterInv*: while
filters are at work the file is whole or one of them has removed it.  *PassInv*: what has passed is
not bad, or its file is gone.  *LeftInv*, *ClashInv*: a file that is left, and an error, have their
reason, which for an error is a second filter that spoke against the upload too, whichever ended
first.  *BlockInv*: of a blocked IP each entry is spared or a block still removes it, and what is on
its way is spared; a block without `removeRelatedData` spares the entries that are there, and nothing
else comes in.  The proof that the entries a block reads are all there are needs *StagesInv*.

### BucketPageProofs

`BucketInvariant`, `PageKeepsItsPromises` (`PageInv`), `PageShowsItsChanges` (`ShowsItsChanges`),
`StatusIsOfUploads` (`StatusFollowsUploads`), `UploadedIsNotSentAgain` (`NeverSentTwice`), for any
files, albums, limit, size of a batch, calls and faults, from `QueueAssumption` and
`PageAssumption`.  TLC checked `BucketInv` with one fault, and without faults with three handlers and
a limit of two, before it was proved.

*UploadsInv*: of one mounted upload at a time the batch is uploading and the rest pending, and a
closed dialog has no files.  *FetchInv*: whenever the view is behind somebody will fetch it
(`WillFetch`), and while only the page changes the bucket what was read last is the bucket.
*QuietInv*: while nothing blurs the count, one call is under way, and what the dialog has counted,
queued and sent fits into the album (`CountInv`); so the server's refusal for the limit needs a
reason.

The module goes on with three that a visitor meets before and on that page.

*BucketAccess*: `AccessInvariant`, `SessionsNameBuckets` (`SessionsInv`), `SessionIsAsAnswered`
(`SessionFollows`), `EmptyIsExplained` (`EmptyExplained`), for any tabs, buckets, sessions and
numbers of handlers, deletions and faults, from `AccessAssumption`.  *CalmFits*: while nobody else
deletes, nothing has failed and no two handlers overlap, the session names a bucket that is there,
or what the one handler has read of it is still so and it is about to change it (`ActFits`).
*PagesFit*: which request a page may have under way.  `EmptyIsExplained` rests on *AloneFits*, of a
tab that is the only one: if it is at a bucket and shows nothing, it is fetching, and the session is
open.

*LoginForm*: `LoginInvariant`, from `LoginAssumption`.  *WidgetFits*: the timer runs until there is
a widget, and a page that believes there is no captcha could not ask.  *TokensFit*: a token is used
by whom it was sent by, is in two requests only if they shared it, and one that is used is in the form
only while the request that used it, or the router, is on its way.  From the two,
`CaptchaRefusalsExplained`: what the server refuses for its captcha has a reason.

*FilePreview*: `PreviewInvariant`, `ArrivedIsNotAskedFor` (`NotAskedAgain`), from
`PreviewAssumption`: what has arrived is in the cache (*LoadsFit*), which every load asks first.

`NothingIsUncalledFor` (`NothingUncalledFor`) puts the three together as the run `settles` checks
them.

### ThumbnailProofs

`CopiesInvariant`, `CopiesTypeCorrect`, `CopiesGoWithRows` (`CopiesGo`), `NoFileMissed`
(`NoneMissed`) for any number of requests and faults: each is inductive with the types.
`MakerInvariant`, `TypeCorrect`, `MovesOnlyAsAsked` (`MovesAsAsked`), `NobodyElsesThumbnail`
(`OwnThumbnail`), `OnlyWholeFiles`, `TempsGoWithRequests` for any contents, sizes, limit and
requests, from `ContentsAssumption`: `MakerInv` says that what is in the cache under a key is fit for
*every* source that has that key (`CacheInv`), since a request that finds it may be another's, and
that what a request carries is fit for its own (`SlotInv`).

### PageProofs

`BrowserInvariant`, `PageIsTold`, `DeletesOnlyWhatWasAsked` (`DeletesWhatWasAsked`),
`ReordersOnlyByLayout` (`ReordersByLayout`, which excepts a search for spaces) for any files, orders,
searches and each of the three pages, from `BrowserAssumption`; the addition is *MarkedStill*, that a
dialog still deletes what it came up for unless the selection changed behind it.  `PagesInvariant`, `PagesComeBack`
(`ComesBack`) and `PagesHaveFiles` (`PageHasFiles`) for any lists and sizes, from `PagesAssumption`;
the addition is *Waiting*, that of a list which is not shown the page is saved on which it was left,
unless another tab turned it.

*AlbumSidebar*: `SidebarInvariant`, for any tabs, albums, handlers and ends of uploads, from
`SidebarAssumption`.  *PinsAreRead*: who has read what another tab wrote last has it, until somebody
overwrites it; so a pin is lost only so.  *WorkIsSo*: what a handler has written is so in the table,
then in its answer, then in the list of its tab, until another writes or, in the last place, an older
answer comes (`overtaken`).  `WhatIsShownIsSo` (`ShownIsSo`) puts `DoneIsShown` and `PinsSurvive` of
the sidebar together with `PageHasFiles` and `NumbersAroundPage` of the pages.

*FileAccess*: `FileInvariant`, `OnlyDownloadsUseUp` (`ChecksUseUpNothing`), for any tabs, requests
and changes, from `FileAccessAssumption`.  *FileFits*: only the form sends a password, a page that
checks has no form yet, and a password that is held to be right opens the file as it is now, for an
IP that is not blocked.  While the file has always had a password (`bare`), only a request that brings it is served, and a job that
counts a view has a download before it.

*Users*: `UsersInvariant`, `ToldCredentialsLogIn` (`LastChangeWorks`), `RefusedWhenStale`
(`RefusalsAreStale`), for any processes, clients and crashes, from `UsersAssumption`.  *OneRow*:
unless the processes made twins there is one row, and what it says was told or still will be.
*ChangesFit*: while no two changes overlap, what the one has written is in the table until it is told,
and otherwise what was told last is.

*AdminPage*: `AdminInvariant`, `AdministrationIsExplained`, for any files, IPs, handlers, errors and
acts of others, of any kinds, from `AdminAssumption`.  *BanDone*: of the IPs a ban has done with,
each is blocked or was freed since, and each of its files is gone, spared or could not be moved; and
while it works on one, what it has listed is all there is.  *ComingAreSpared* is needed for the
files that arrive meanwhile.  *SawWell*, *PageIsFresh*, *TicksFit*: when one handler is at work at a
time, what it saw, what the page shows and what is ticked is so, but for the kinds of change that
others made.  A ban leaves the files that have expired, and `BannedFilesGone` says so.  TLC
explored `AdminInv` to a depth of 14 with two handlers, and of 22 with one, before it was proved.  `WhatAnAdministratorIsTold` (`AdminExplained`) is what the run `access` checks, which
has one change by others.

### GoServicesProofs

`PoolInvariant` (`PoolInv`), `GoroutinesEnd`, `PoolImplementsJob` (`ImplementsJob`) for every number
of requests, files and workers and every size of a batch, from `ThumbAssumption`; that there is a
worker at all (`DefaultWorkerCount` is 4) is needed for the feeder to be reached.  `PoolInv` is
inductive: *Turns* (the flag is set exactly while one request is processed, and the others have no
goroutines), *EndInOrder* (the feeder has no files when it closes its channel, the workers end after
it, the collector after them), *OneHand* (no file is in two places) and *Batches* (their sizes).
Every step is then a step of `ThumbJob` or a stutter: *EndInOrder* makes `Return` an `End` with
nothing left, *OneHand* makes a save remove its batch and nothing else from `left`.

`ZipInvariant`, `TypeCorrect`, `KeysAreRight` (`KeysOK`), `ArchivesAreRemoved`
(`NothingLeftBehind`) for every number of downloads, keys, files and faults.  Keys and archives are
two arguments that share only the types: `KeysOK` is inductive because a key is stored only by a
request that then zips and is forgotten by the one that ends; `NothingLeftBehind` needs
*NotYetCreated*, that a request has no archive before `CreateZipFile`.  What it excepts are the ways in
which the server never learns of an archive: a file that was missing, a process that died, a call to
the service that failed.

## Only model-checked

* The liveness properties `ReclaimedAsConfigured`, `DuplicatesCollapse`, `EverythingEnds` and `PagesSettle`:
  they rest on fairness, and the prover has no rules for `ENABLED`.
* `SchemaAsReleased` and `RowsKeepTheirMeaning`: what a sequence of statements makes of a database
  is a fold over it, and what a fold computes is proved by induction, which is out of the prover's
  reach.  The migrations are constants of the program, so that little is left to generalise: the run
  goes through every upgrade and revert between the builds it has.
* `Retention` has nothing to prove: its property fails.

## Not modelled

* What the components table of `PROJECT.json` marks `not_modelled`, and what its notes leave out.
* The name of a URL upload is `Date.now()` and its extension: two in the same millisecond would
  share a file.  File names are taken to be distinct.
* Partial writes in `FileStore`: a file is in the directory once multer has finished it (`Intake`
  has the stream).  A file still being written can be moved by `sync` too, which looks the same as
  being moved after `Receive`.
* Ranges and the streams of bytes in `FileServerController`; the lookup at DroneBL and other
  external services; the upgrade of a bucket; the lists and statistics of the administrator; the IP
  filter where a page asks for anything but a file or an upload; a PATCH that gives an expired file
  more time, in `AdminPage`.
* In the front end: files from the disk with one name, size and time, which share the key of a
  preview; blob URLs, which are never revoked; the progress bars of the drop zone, particles and
  themes; the public page of an album; the redirects between /login and /admin, which are those of
  the pages of a bucket again; the order of the upload queue.

## Plan

Every safety property of a passing run is a theorem, but for the two of the migrations.  What is
left is more of the program: the order of the upload queue and the progress of its files, the upgrade
of a bucket, the public page of an album, ranges in `FileServerController`, the types of columns and
the unique constraints in `Schema`.
