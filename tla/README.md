# A verification project for oxmail-sdk

TLA+ models of the stateful core of `oxmail_sdk`, the TLC runs that check them
on small instances, and proofs, checked by TLAPS, of theorems about them for
every value of their constants. Paths such as `watch.py` are relative to
`src/src/oxmail_sdk/mail/` unless they name another directory.

## 1. The system

The SDK is a client for Open-Xchange mail. Most of it is a wrapper around
single HTTP requests; its own logic is in the parts that keep state between
requests, above all the mailbox watcher.

| Component | State | Operations | Talks to |
| --- | --- | --- | --- |
| `InboxWatcher` (`watch.py`) | stop event, `_opened`, failure count, the running poll's locals | `poll`, `__iter__`, `stop`, `close`, `reset` | a `MailSource`, a `CheckpointStore`, the consumer |
| `BackgroundWatcher` (`watch.py`) | `_thread` | `start`, `stop`, `join`, `running`; `_run` in the thread | one `InboxWatcher`, the handler |
| `Checkpoint`, `FolderState` (`state.py`) | UIDVALIDITY, next UID, fingerprint, bounded list of seen ids | `remember`, `fingerprint`, conversions | the watcher |
| `JSONFileCheckpointStore` (`state.py`) | a JSON file, a lock | `load`, `save` | every watcher that shares the file |
| `IMAPMailSource`, `IMAPConnection` (`sources.py`, `imap/connection.py`) | one IMAP session and its selected mailbox | `open`, `close`, `state`, `fetch`, `recent`, `fetch_detail`, `wait` (a hand-written IDLE) | the IMAP server, through `imaplib` |
| `HTTPMailSource` (`sources.py`) | none | the same | `MailService`, through `run_with_session_retry` |
| `FailoverMailSource` (`sources.py`) | active backend, `_degraded_at` | the same, with `_guard`, `_degrade`, `_maybe_recover` | the two sources above |
| `AuthService` (`auth/service.py`) | session info, the transport's cookie jar | `login`, `refresh`, `ensure_authenticated`, `run_with_session_retry`, `logout` | the server, every thread of the client |
| `HTTPTransport` (`transport/`) | a `requests` session, retry policy | `request`, `close` | the server |
| `MailService` (`service.py`) | none; `iter_messages` is a generator with an offset | `list`, `iter_messages`, `examine`, `list_by_ids`, `get`, `recent`, `send` | the transport |
| `OXMailClient` (`client.py`) | wiring | `watch`, `watch_in_background`, `close` | all of the above |
| serializer, attachments, models, columns, messages, IMAP parsing | none | conversions | |

### What is hard in it

Listed line by line under `hazards` in `PROJECT.json`; in short:

* The folder changes between any two calls of a poll: mail arrives, is
  expunged, the folder is re-created with UIDs that start again. The checkpoint
  must claim what was fetched, no more and no less.
* A poll fails half way (a chunk, a body, the save), the consumer breaks out of
  its loop, the program is stopped or dies, with messages fetched, saved or
  half handed over.
* Worker threads, the control thread and the handler share the stop event,
  `_opened` and the IMAP connection without a lock.
* IDLE is written by hand on top of `imaplib`: notifications can come at any
  moment, be read together with other lines, or with the answer to another
  command; the connection dies anywhere.
* Two backends with their own outages; a time-out decides when to go back.
* Threads that share one session refresh it concurrently.
* Several watchers rewrite one checkpoint file.
* Paging by offset through a list that changes.
* The two backends see the folder differently: either may be behind, one of
  them may give rows the other cannot convert, and a switch falls between the
  state and the fetch of one poll.
* A request is lost before or after the server carried it out, is repeated by
  the adapter below the call and by the re-login above it, while `close` shuts
  the transport in another thread and files are open.
* Answers are not what was asked for: FETCH items in another order or unasked,
  pages of a proxy, headers in other bytes, messages inside messages.

### What makes each part correct

| Part | Must hold |
| --- | --- |
| watcher | no message is handed over twice; none that the checkpoint claims was skipped; messages come oldest first; after outages mail is delivered; a reset is final |
| background watcher | one loop at a time; stop returns, ends the loop and releases the connection |
| failover | polls go through while the fallback works; the primary is returned to; it lets the folder go before the fallback serves and has it when it serves again |
| session | an expired session is renewed within the operation; no half-made or forgotten session |
| IDLE | commands and answers stay in step; new mail ends the wait; no mail is missed for good |
| file | the last checkpoint saved by each watcher is in it; no save blocks for ever |
| paging | bounded skips and repetitions; the walk ends |
| two views | a switch drops nothing and replays nothing the seen history reaches; old mail stays old |
| calls and `close` | a send is carried out once at most; the error says what happened; files, sessions and the transport are let go |
| messages | one row per message with its own headers; the same time of arrival over both backends; a body that is never a file, nor missing where there is plain text |

## 2. The modules

| Module | Models | Instance, runs |
| --- | --- | --- |
| `MailStream` | the abstract promise of a watcher: claim newer messages, hand them over oldest first, lose none but by interruption | implemented by `Watcher` |
| `Watcher` | `InboxWatcher`, `Checkpoint`, `FolderState`, the mailbox, the consumer, crashes | `MCWatcher`: `watcher_core`, `watcher_backlog`, `watcher_flags` |
| `BackgroundWatcher` | `BackgroundWatcher` and the thread-visible state of the watcher and connection | `MCBackgroundWatcher`: `background` |
| `Failover` | `FailoverMailSource` driven by the loop: when it switches | `MCFailover`: `failover_recovers` |
| `Views` | the checkpoint over two backends that see the folder differently: what a switch does to it | `MCViews`: `views` |
| `Auth` | `AuthService`, the cookie jar, the server's sessions, several threads | `MCAuth`: `auth_sessions` |
| `Requests` | calls of `MailService` through `HTTPTransport`, with retries, re-login and attachments, against `OXMailClient.close` | `MCRequests`: `requests` |
| `IMAPIdle` | `IMAPConnection` and `IMAPMailSource.wait` at the level of lines | `MCIMAPIdle`: `idle_session` |
| `CheckpointFile` | `JSONFileCheckpointStore` under several watchers | `MCCheckpointFile`: `store_shared` |
| `Paging` | `MailService.iter_messages` | `MCPaging`: `paging` |
| `Messages` | `imap/parsing.py`, the column rows, and what `MailMessage` shows of them | `MCMessages`: `messages` |
| `WatcherProofs` | theorems about `Watcher`: its invariants, and that it implements `MailStream` | TLAPS |
| `BackgroundWatcherProofs`, `ViewsProofs`, `AuthProofs`, `RequestsProofs`, `CheckpointFileProofs` | theorems about the module each is named for | TLAPS |
| `SourcesProofs` | theorems about `IMAPIdle` and `Failover`, the parts of `sources.py` | TLAPS |
| `MailServiceProofs` | theorems about `Paging` and `Messages`, what becomes of a listing and its rows | TLAPS |

How they divide the system: `Watcher` takes a backend as something whose calls
succeed or fail; `Failover` says when calls succeed and which backend serves,
`Views` what the two backends show, `IMAPIdle` and `Requests` what one of them
does on the wire, `Messages` what its answers become. `Auth` is the session
under `Requests` when several threads renew it.

A definition called `X_Something` whose comment begins with "Mutant" is a
deliberately broken variant of the definition `X` after it; no specification
uses it. `PROJECT.json` pairs each property with the variant that breaks it.
Where a module has *settings* (variables chosen by `Init` that never change),
one run covers all of their values and a property names those it holds for.

### Watcher

Every call of the loop to its source or its store is one action: `ReadState`
(`_open` and `source.state`), `LoadBaseline`, `LoadUnchanged`, `LoadChanged`
(`store.load` and the branch taken on it), `Recent` (the backlog of
`_bootstrap`), `FetchChunk` (one `BatchSize` of `_fetch_new`), `FetchBodies`,
`Save`, then `Yield`, `HandlerReturns`, `StopMidBatch`, `EndBatch`,
`WaitReturns`. `CallFails` is the exception path of any of the calls,
`BackoffEnds` the end of `_handle_error`. `mailbox` is the server's folder and
changes by `Arrive`, `Expunge` and `Recreate` at any time. `Stop`, `Close`,
`Reset`, `Abandon` (the consumer leaves its `for` loop), `Crash` and `PollOnce`
(a direct call of `poll`) are the program around it; the constant `Calls` says
which of them occur. `delivered`, `lost` and `base` only observe.

The data are reduced as follows. A message is its UIDVALIDITY and UID; the
fingerprint keeps UIDVALIDITY, UIDNEXT and the count (the unread count,
HIGHESTMODSEQ and the token only make fingerprints differ more often);
UIDVALIDITY is always reported; date order is UID order. `recent`'s own
`state()` and its fetch are one step. The failure counter and the length of the
delay are left out: the delay may end at any time. `on_error` returns.

### BackgroundWatcher

Control thread (`Start`, `Stop`, then `Joined` or `JoinTimesOut`, `Detach`,
`CloseWatcher`, `Release`) and up to `MaxStarts` workers, each at its next read
or write of shared state: `Clear` (the first line of `__iter__`), `Test`,
`OpenTest`, `Connect`, `Select`, `MarkOpened`, `Call`, `Batch`,
`HandlerReturns`, `HandlerStops` (the handler stops its own watcher: the join
raises and is logged), `WaitReturns`, `Fail`, `Backoff`. The settings are
`slowJoins` (a join may give up: `JoinTimesOut`, at any step of the worker, also
before its first line) and `partialOpen` (a login may succeed and its SELECT be
refused, or the STATUS after the SELECT).

### Failover

`active`, `degradedAt` (never, within `recover_after`, past it), the primary's
connection (`none`, `auth`, `selected`, `stale`), the two servers, and the
next call of the loop. The primary's server is up, down, `refusing` (a login
succeeds, its SELECT does not) or `partial` (the SELECT succeeds and the STATUS
after it, or a later one, does not: an error with the mailbox selected). `OpenResult`
and `OperationResult` are what `IMAPMailSource` does with its connection;
`CallPrimary`/`CallFallback` are `_guard`; `Degrade`, `MaybeRecover`, `Open`, `Close` the methods of the same
name.

### Views

A message is its UID; messages `1 .. view[b]` are visible through backend `b`.
`ReadState(b)` is `poll` up to the branch it takes (the baseline, an unchanged
fingerprint, nothing new, or a fetch), answered by backend `b`; `Fetch(b)` is
`_fetch_new`, `remember`, `_save` and the hand-over. `AnsweredBy(b)` is
`_guard`: the active backend answers, or the fallback after the primary failed
and was closed, within the same call. `FetchRaises` is a header that does not
convert, an error that nothing fails over; `Recover`, `WaitEnds` and
`WaitFails` are `wait`. How long a wait lasts and what ends it early is left
open; that is the subject of `IMAPIdle`. The settings: which backends may be behind
(`lags`), a message whose header does not convert (`broken`), whether every
state has its next UID (`complete`), and the seen history.

### Auth

Each thread steps through `run_with_session_retry`: `Ensure`, `ReadToken`,
`Request`, `Refresh`, `Login`, `Store`, `Guard`, `Logout`, `Clear`. The public
methods can also be called by themselves, whatever the state of the session:
`EnsureCall`, `RefreshCall`, `LoginCall`, `LogoutCall`, `ClearCall`
(`clear_local_session`), `GuardCall` (`authenticate_oxguard`). A login is made
with OX Guard or without (`guarding`); the service keeps the last one's choice
for its re-logins (`oxguard`). A request is accepted when token and cookies
belong to one live session (`Accepts`). The server expires sessions at will. The
observer `dropped` holds the sessions a direct call replaced or cleared. The
setting `active` is the set of threads that use the service.

### Requests

One worker makes calls one after the other: reads (GET), `list_by_ids` (PUT)
and `send` (POST with attachments), plain or in `run_with_session_retry`:
`Ensure`, `OpenFiles` (one file at a time, each may fail to open), `ReadToken`,
`Check` (the transport's `_closed`), then the request: `NotReached`,
`AnswerLost`, `ErrorStatus`, `Page` (an answer of status 200 that is not
Open-Xchange's) or `Answered`. `SessionError` is the one re-login, through
`Refresh`, `Login`, `LoginAnswered`, `Store`. The closer steps through
`Logout`, `Clear`, `Shut`. Every way out of a call goes through `End`, which
leaves the `with` block of the attachments. The setting `json` excludes `Page`.

### IMAPIdle

`wire` holds lines the socket has not delivered, `buffer` those that `imaplib`'s
buffered file has read ahead and `select()` cannot see. `SendIdle`,
`ReadFirst`, `Notified`, `IdleTimesOut`, `SendDone`, `Drain` and the failures
between them are `IMAPConnection.idle`; `Status`, `Fetch`, `Reopen`,
`CommandFails` the commands of a poll. The setting `quirks` is any subset of
what servers, sockets and settings may be like: EXISTS with the answer to FETCH
(`piggyback`), several lines in one read (`coalesce`), an untagged line before
IDLE is accepted (`untaggedFirst`), a SELECT refused on reopening or a STATUS
refused at any time (`refused`), and an interval longer than `idle_refresh`
(`longInterval`). The setting `idles` is the IDLE capability.

### CheckpointFile, Paging, Messages

A save is `Save`, `Lock`, `Read`, `Dump`, `Replace`, or `WriteFails`; the
settings are one store object or several, and whether reads may fail with an
`OSError`. A walk is `List`, `LimitReached`, `YieldItem`, `EndPage` with the
folder changing between any two of them; it may be abandoned at any step. A page
is the set of rows not reached yet, taken newest first, `Place` where a message
stands in the listing, and `yielded` with `count` tells which rows were yielded
from how many. `Messages` has no behaviour to speak of: one step
converts one input, and the run covers all inputs of the bounds. `FetchHeaders`
is `parse_fetch_items` and `header_row` over an answer
whose items come in any order, `Fields` the times and the priority of one
message over both backends, `FetchDetail` `rfc822_to_detail`, `_body_part` and
`body` over a message of leaves, some of them inside an attached message: HTML,
plain text, other text (which is decoded all the same) and files.

## 3. The runs

| Run | Checks | Bounds | States |
| --- | --- | --- | --- |
| `watcher_core` | `Accounted`, `ClaimInvariant` (which contains `NoDuplicate`), `ImplementsMailStream`, `ResetSticks`, `NewMailDelivered` | 2 UIDs, 2 incarnations, 1 UID per fetch, 1 seen id | 293 thousand |
| `watcher_backlog` | `NoDuplicate` with a replayed backlog | 4 UIDs, 2 per fetch, backlog 2, 1 seen id | 555 thousand |
| `watcher_flags` | `NoDuplicate`, violated | 3 UIDs, unsolicited FETCH lines | stops at the violation |
| `background` | `SingleLoop`, `Released`, `StopReturns`, `StoppedLoopsEnd` | 3 threads started | 295 thousand |
| `failover_recovers` | `FolderHandedOver`, `ReturnsToPrimary`, `PollsGoThrough` | none: the model is finite | 2248 |
| `views` | `NoReplay`, `NothingDropped`, `OldMailBounded`, `AllDelivered` | 4 messages, seen histories 1 to 3 | 277 thousand |
| `auth_sessions` | `RenewedWhenAlone`, `NoHalfSession`, `NoOrphan` | 2 threads, 3 sessions | 7.3 million |
| `requests` | `SentOnce`, `OutcomeKnown`, `FilesClosed`, `ClosedMeansClosed`, `NoSessionLeft`, `Settles` | 1 retry, 2 attachments, 2 sessions | 143 thousand |
| `idle_session` | `TypeOK`, `InStep`, `WakesUpWhenPlain`, `MailSeen` | 3 messages, 2 dropped connections | 217 thousand |
| `store_shared` | `FileKeepsAll`, `SavesReturn` | 3 watchers, 2 saves each | 303 thousand |
| `paging` | `TypeOK`, `WalkBounded`, `Ends` | 4 messages, 2 arrivals, pages of 2, limits 0, 3, none | 27 thousand |
| `messages` | `OutputOK`, `RowsMatch`, `ReceivedTimes`, `BodyShown` | 2 messages asked for, 1 other, 3 parts | 228 thousand |

A type invariant that TLAPS proves for every value of the constants (section 4)
is in general not checked again by a run; `idle_session`, `paging` and
`messages` check theirs, because what a line sequence, a walk's limit or an
output may be is more than a matter of types there.

Why the bounds are enough. In `watcher_core` two UIDs and two incarnations give
a batch of two fetched in two chunks, a failure between the chunks, a stop
between its messages, a re-creation during a poll whose new UIDs collide with
the old ones, and a seen history shorter than the batch; a third UID adds
repetitions of these only (it was checked without the liveness property as the
model was built). `watcher_backlog` needs four: a backlog of two, one that
arrives between `state` and `recent`, and one after it. Three threads in
`background` are a running one, one whose join gave up, and a new one. In
`views` four messages are one before the baseline, one whose header does not
convert, one missed by a backend that is behind and one that pushes it out of
the seen history, and the histories are shorter than, equal to and longer than
what that takes. States without a next UID are explored with backends that are
up to date and headers that convert only; the three invariants were checked once
for the full combination (3.4 million states) and hold.
Three sessions in `auth_sessions` are a first one, an expired one's successor,
and the one a second thread makes over it. In `requests` one retry is an
attempt that is repeated and one that is not, two attachments an open one and
one that fails to open, two sessions the refused one and its successor. Three
messages in `idle_session` are one per phase of a cycle: before STATUS, after
FETCH, during IDLE. Three watchers in `store_shared` let one wait while another
reads and a third fails. In `paging` a walk has a full page, a middle page and
a last one, with changes before each. In `messages` three parts are a part of
the message, one inside an attached message, and one more of either.

`CHECK_DEADLOCK FALSE` is set for `paging`, whose generator ends, and for
`messages`, which converts one input and stops.

### Fairness

* `Watcher!LiveSpec`: weak fairness of the loop's own steps (the thread runs;
  every call has a timeout and every wait a deadline; handlers return), and of
  `Start` (the program iterates again). `NewMailDelivered` is conditional on
  outages and interruptions ending: `CallFails`, `Stop`, `Close`, `Abandon`,
  `Reset` and `Crash` happen only finitely often.
* `BackgroundWatcher!LiveSpec`: weak fairness of each worker, by the same
  argument, and of a stop that has begun. Nobody has to call `start` or `stop`.
* `Failover!LiveSource`: the loop runs and time passes. That servers stay up is
  the property's premise, not an assumption.
* `Views!LiveSpec`: a call that is made over and over is answered at last by
  the backend that serves (`Fetch(active)`), waits end, and a backend that is
  behind catches up. `AllDelivered` has its further premises in its statement:
  polls stop failing, and headers convert or the fallback serves for good.
* `Requests!LiveSpec`: weak fairness of the worker's call and of a `close` that
  has begun: every request has a timeout (`TimeoutConfig`), so an attempt ends.
* `IMAPIdle!LiveSpec`: the thread takes steps; three strong fairness
  assumptions: the server does not refuse every SELECT for ever, nor every
  STATUS, and a wait's deadline, fixed when it begins, is reached even though
  IDLE is issued again before it.
* `CheckpointFile!LiveSpec`: strong fairness of each save's steps: the lock is
  handed on to a thread that keeps waiting for it. `threading.Lock` makes no
  such promise on paper; with the interpreter's blocking locks and watchers
  that pause between polls it is what happens.
* `Paging!LiveSpec`: the consumer keeps asking for rows.

### Where the code and its documents disagree

`watcher_flags` expects a violation; the finding in `PROJECT.json` quotes the
document. Every FETCH line with a UID becomes a row, and a flag change that the
server reports along with an answer is handed over as a new message. (The
constant `UnsolicitedFlags` is `TRUE` in this run only.)

Three more disagreements are conditions of the properties below, each seen as a
counterexample when the condition is dropped:

* A stop, a crash or a `break` between two messages of a batch loses the rest,
  because the checkpoint is saved before the batch is handed over;
  `docs/recipes.md:364` promises a lossless shutdown. `Accounted` counts these
  messages in `lost` and shows that this is the only way a claimed message is
  lost.
* Two threads that meet one expiry undo each other's login, since `refresh`
  clears and replaces the session of all threads; `docs/watching.md:264`
  promises a transparent renewal. `RenewedWhenAlone` and `NoOrphan` are for one
  thread, whatever it calls.
* An EXISTS that comes with another command's answer is read by `imaplib` and
  never looked at, and the next IDLE is blind to that message until it times
  out; `docs/watching.md:22` says the server pushes at once.
  `WakesUpWhenPlain` excludes `piggyback`.

Direct calls on a live session are no disagreement, but worth knowing:
`refresh()`, a second `login()` and `clear_local_session()` forget it without a
logout, and it stays alive at the server. `NoOrphan` counts these sessions in
`dropped` and shows that, for one thread and beside lost answers, there is no
other way.

Other limits of the code that conditions of the properties stand for:

* `StopReturns` and `StoppedLoopsEnd` need that no thread has its first line
  still to run: `__iter__` clears the stop event, so a stop that comes earlier
  (`stop(timeout=0)` right after `start()`) is erased, and so is a stop of an
  older loop when a thread begins after it.
* `SingleLoop` and `Released` exclude joins that give up: `stop` forgets the
  thread all the same, a later `start` runs a second loop and clears the first
  one's stop event, and a late worker opens the connection again (`_ready`).
* `Released` excludes a SELECT or STATUS refused after a login: `_opened` is
  still `False` and `close` does nothing.
* `FolderHandedOver` names the one way in which both backends hold the folder:
  `_maybe_recover` retries the primary, whose SELECT succeeds and whose STATUS
  does not; the fallback goes on serving and the primary's session is left
  selected, until it is tried again or closed.
* `ReturnsToPrimary` needs the fallback up: the primary is retried inside
  `wait` only, which a loop whose polls fail does not reach.
* `ResetSticks` is for a reset by the thread that drives the watcher, between
  two polls; a poll of another thread would save over it
  (`Calls = {"resetAnytime"}`).
* `FileKeepsAll` is for one store object whose reads do not fail: a second
  object has its own lock, and an unreadable file is rewritten with one entry.
* `WakesUpWhenPlain`: with `coalesce` a line waits where `select` does not
  look; with `longInterval` a notification is drained together with the tag of
  one IDLE and the next IDLE of the same `wait` does not repeat it.
* `InStep` names one exception: with an untagged line before the continuation
  of IDLE `idle` raises with the server in IDLE, and the next poll's STATUS
  fails and closes the connection.
* `NoReplay` needs a seen history of at least `2 * worst - 1`, where `worst` is
  how far a backend has been behind, and states that have their next UID: a
  next UID that is missing or no number is read as 0 (`state.py:170`,
  `imap/connection.py:131`), is saved, and makes the following poll deliver the
  whole mailbox but for the seen ids.
* `NothingDropped` and `AllDelivered` need a fallback that is not behind: a call
  handed to it in the middle of a poll misses what the poll's state promised.
* A header that does not convert stops every poll of its batch, and nothing
  fails over: `AllDelivered` needs headers that convert, or the fallback.
* A wait that opens the primary itself (recovery), or that follows a FETCH whose
  answer carried the announcement, is not ended by mail that came before it. No
  property says it would be: such mail is in the next poll's state, and
  `MailSeen` and `AllDelivered` say that this poll comes.
* `NoSessionLeft` excludes a renewal during `close(logout=True)` (`overlap`):
  the call logs in behind the logout and its session stays.
* `OutcomeKnown` leaves out what says nothing (`Unsaid`): a `TransportError`, an
  HTTP error status, and, where something else than Open-Xchange answers,
  `InvalidResponseError` (the server may have carried the send out before a proxy
  spoke) and a send's success (the relaxed parser takes an empty body or a page
  without braces for an empty object).
* `RowsMatch` gives a row its headers and flags where the server sends UID and
  FLAGS before the literal. Of a UID behind the literal it says what is lost:
  the row is there without headers; of FLAGS there, without flags.
* `BodyShown`: the leaves of an attached message take part in the choice of the
  body, so its HTML becomes the body of a plain-text message; and an empty HTML
  part hides the HTML parts after it, also where there is no plain text.
* `ReceivedTimes`: without an INTERNALDATE, IMAP shows the Date header as the
  time of arrival and HTTP nothing; the epoch is falsy, so that IMAP shows
  nothing and HTTP the epoch. A header in other bytes makes no message over IMAP
  (`Converted`). The time of sending is the same column read in two ways, and no
  property is about it.
* The delay after the first failure is twice the interval (`watch.py:279`),
  where `docs/watching.md:72` starts at the interval. Not modelled.

## 4. The proofs

Eight modules hold theorems, for all values of the constants that satisfy the
named assumption of the module they are about (`ConfigAssumption`,
`ThreadsAssumption`, `ViewsAssumption`, `SessionsAssumption`,
`RequestsAssumption`, `StoresAssumption`, `IdleAssumption`, `PagingAssumption`,
`MessagesAssumption`; `Failover` has no constants).

| Module | Theorems | State |
| --- | --- | --- |
| `WatcherProofs` | `TypeCorrect`, `NothingSkipped` | `TypeOK`, `Accounted` |
| | `ClaimsAreNew`, `AtMostOnce` (1) | `ClaimInvariant`, `NoDuplicate` |
| | `BacklogOnce` (2) | `NoDuplicate` |
| | `ResetIsKept` (3) | `ResetSticks` |
| | `BatchesOrdered`, `WatcherKeepsPromise` (1) | `BatchOrdered`, `ImplementsMailStream` |
| `BackgroundWatcherProofs` | `ThreadsTyped`, `OneLoop`, `NothingLeftOpen` | `TypeOK`, `SingleLoop`, `Released` |
| `ViewsProofs` | `ViewsTyped`, `FailoverDropsNothing`, `FailoverReplaysNothing`, `OldMailStaysOld` | `TypeOK`, `NothingDropped`, `NoReplay`, `OldMailBounded` |
| `AuthProofs` | `SessionsTyped`, `GuardedWhenIdle`, `RenewalCoversExpiry`, `NothingForgotten` | `TypeOK`, `NoHalfSession`, `RenewedWhenAlone`, `NoOrphan` |
| `RequestsProofs` | `CallsTyped`, `NothingSentTwice`, `OutcomesKnown`, `NoFileLeftOpen`, `ClosedForCalls`, `LoggedOut` | `TypeOK`, `SentOnce`, `OutcomeKnown`, `FilesClosed`, `ClosedMeansClosed`, `NoSessionLeft` |
| `SourcesProofs` | `SessionTyped`, `CommandsInStep`, `MailWakes` | `TypeOK`, `InStep`, `WakesUpWhenPlain` of `IMAPIdle` |
| | `SourceTyped`, `FolderHandover` | `SourceOK`, `FolderHandedOver` of `Failover` |
| `CheckpointFileProofs` | `FileTyped`, `NoSaveUndone` | `TypeOK`, `FileKeepsAll` |
| `MailServiceProofs` | `WalkTyped`, `ChangesExplainWalk` | `TypeOK`, `WalkBounded` of `Paging` |
| | `ConversionTyped`, `EveryMessageHasItsRow`, `ArrivalShown`, `BodyChosen` | `OutputOK`, `RowsMatch`, `ReceivedTimes`, `BodyShown` of `Messages` |

Each states `Spec => []P` for the properties on its right
(`WatcherKeepsPromise`, `ResetIsKept` and `FolderHandover` without the box, which
is in the property). A module may extend two that share no names: `Failover` and
`Messages` call their specifications `Source` and `Conversion`.

(1) for a watcher without `include_existing` and a server that sends only the
rows it was asked for (`~IncludeExisting`, `~UnsolicitedFlags`). The run
`watcher_flags` shows that the second condition is needed; (2) does
without the first, at the price of its own.

(2) for every watcher, with a backlog or without, under `OneBaseline`: the
folder is never re-created, no checkpoint is forgotten (no `reset`, and a store
that survives the crashes there are), and the server sends only the rows it was
asked for. With a backlog each of these is needed, and TLC finds a message
delivered twice when any one of them is dropped: `_bootstrap` reads the state
and then the backlog, so that a folder re-created in between gives the new
incarnation's mail under the old one's UIDVALIDITY and gives it again at the
next poll; and a second baseline replays the backlog by design.

(3) for resets by the thread that polls (`"resetAnytime" \notin Calls`). A poll
of another thread that is under way saves over the reset.

**The watcher, no message twice.** `NoDuplicate` alone is not inductive:
nothing in it stops a poll from fetching what an earlier poll handed over.
`ClaimInvariant` says why it cannot, one conjunct for each fact the code relies
on:

* `UidsGrow`: UIDs in the folder are below UIDNEXT.
* `PastKnown`: what was claimed had its UID from this incarnation of the folder
  or an earlier one.
* `PastCheckpointed`: what was claimed in the checkpoint's incarnation is
  behind its next UID.
* `SnapCurrent`, `LoadedCurrent`: while a poll is under way nothing else is
  claimed, so the state and the checkpoint it holds are still ahead of
  everything claimed.
* `RowsNew`: what it fetches lies between the two, or in a newer incarnation of
  the folder than the one it read.
* `RowsPlaced`, `PendingNew`: rows exist only where the code has them, and what
  waits to be handed over was not handed over or given up before.

It needs nothing from the seen history: without a backlog, at-most-once follows
from UIDs alone, for every `SeenHistory`, also one shorter than a batch.
The proof has one lemma for each group of actions (the mailbox, the poll's
calls, handing over, the program), each with one step per action.

**The same with a backlog.** Here claims are not newer than the baseline: a
message that arrives after the baseline's state and before its backlog is handed
over with the backlog, and its UID is at or above the next UID that was saved.
Only the seen ids keep the second poll from fetching it again. `OnceInv` says
what excludes a claimed message from a checkpoint: a UID below its next UID, or
a place in its seen ids (`Excludes`). It holds of what is stored and, while a
poll is under way, of what was loaded (`PollCurrent`), and nothing was claimed
where neither exists, so that a baseline repeats nothing. What was fetched lies
in the range that checkpoint leaves open and below the state's next UID, but for
the backlog, which may reach past it (`RowsInRange`). A trimmed history does no
harm: the seen ids of a baseline are those of the whole backlog, untrimmed, and
once a later poll has saved, every claimed UID is below the next UID it saved.
So the theorem holds for every `SeenHistory`.

**A reset is final.** `StoredLoaded`: while a poll is under way, the checkpoint
it loaded is the one in the store, since only the poll itself saves and a reset
by the same thread comes between polls. A save that is not a baseline then
finds a checkpoint that nobody has forgotten.

**The watcher, no message skipped.** `NothingSkipped` has no condition: it
covers backlogs, unsolicited rows, resets by any thread and direct polls. Its
invariant is in two parts. `PastOnly`: whatever the watcher has read, saved or
fetched is not ahead of the folder, so a UID that appears later is above all of
it. `HonestInv`: a checkpoint is *honest* when every message of its folder that
it passes, or lists as seen, was handled; the stored one always is, a loaded one
stays so while its poll continues (also when the stored one is forgotten
meanwhile), and a message of the range a poll is about to claim is among its
candidates or its rows (`Covered`). `Save` then makes an honest checkpoint: a
baseline passes nothing, and any other was handled under the loaded one or is
in the rows. That seen ids are trimmed costs nothing here, and that they are
believed is where `Honest` must speak of them.

**The refinement.** A `Save` is `MailStream!Claim`, a `Yield` is `Deliver`, an
interruption of a batch is `Lose`, and everything else is invisible. `Claim`
needs `ClaimInvariant`; `Deliver` needs `BatchOrdered`: the code sorts a batch
by UID, and a batch can span two incarnations of the folder, so that UID order
is order of arrival only because chunks are fetched in ascending order from a
folder that never goes back (`ChunkFirst`, `FetchOrdered`).

**The threads.** `OneAlive`: only the thread started last can be alive, and
none is once a join has returned. `OpenedKnown`: a connection that the watcher
does not count as opened is one a worker is about to count or one `close` is
releasing. Both hold while joins wait (and, for the second, no SELECT is
or STATUS is refused), which is what the settings in `SingleLoop` and `Released` say.

**The backends.** `FolderHandedOver` is about steps, and two of them need to know
what came before: `FolderInv` says that the primary is closed at the moment
`_degrade` turns to the fallback, and that a primary which serves is not logged
in without a mailbox.

**The views.** `Behind`: no backend is further behind than `worst`. `Claims`:
what the checkpoint passes was handed over, and a state that the primary gave
shows no message the primary does not know: that is why a switch to a fallback
that is not behind finds them all. `Reach`: the checkpoint and the state of a
poll lie below the baseline by no more than `worst`.

`NoReplay` needs to know how far back the seen history reaches, and its
invariant counts. `Placed`: an entry's place is one more than the number of
entries that came after it (`Newer`), which the lemmas about `Remember` show of
every batch. `Near`: nothing comes late by more than `worst`, so what came after
a message is either above it or one of the `worst - 1` below it (`Surrounding`).
`Kept`: what a later poll could still fetch again, because its UID is not below
the checkpoint or a backend may lack it, has a place, and so is in the history.
Both terms of the bound come from there: at most `worst - 1` such messages are
below, and at most `worst - 1` above, whether one counts up to the newest
message or up to what the poll's state can promise (`PlaceKept`).

**The session.** `GuardInv`: a session without OX Guard has a thread that is
about to initialise it or to clear it; this needs no order among the threads,
and direct calls make no exception.
`AloneInv` follows one thread through its operation: the cookies are those of
the session it holds (`SameJar`), from its login on it works with that session
(`OwnLogin`), and it forgets no session that is alive but by a direct call (`Forgets`).

**The calls.** `Counted` bounds the executions by the attempts made: one that
may have been carried out is followed by another for a read only. `FilesInv`
and `LateInv` follow the files and a call that began after `close`;
`WorkerInv` and `CloserInv` say what worker and closer know of the client's
session at each step, so that what is alive in the end is unanswered.

**The IMAP session.** `SessionInv` says what is known of the server and of the
two buffers at each step of the thread. `ServerKnown`: on a working connection
the server is in IDLE exactly while the thread waits. `NothingUnread`: between
two commands neither the socket nor `imaplib`'s reader holds a line, which is
what the drain after DONE is for. `IdleAnswered`: IDLE is answered by a line that
is there, and the first one accepts it unless an untagged line may come before.
`Released`: without a session nothing is
left of the last one. With `ToldKnown`, what the server has announced beyond the
checkpoint is a line still to be read, so that the wait ends. The lemmas about
lines (`LineSequences`, `Answered`, `LineRead`) say what appending and reading
leave of a sequence.

**The file.** `SharedInv`: one watcher at a time is inside the lock, and what
it has read is still what the file holds.

**The walk.** The proof counts. `Place` numbers the messages of the folder from
0 without a gap (`PlaceUnique`, `PageOfListing`), so a page holds just the
places from the offset on. `MissedBounded`: a message behind the walk that was
on no page was moved there, and one expunge moves one message at most past the
offset. `AheadBounded`: a message ahead of the walk that was already on a page
was pushed there, and one arrival pushes one. Each repetition is such a message,
met again; `LastPage` turns the first count into one of the whole folder when
a page is not full.

**The conversions.** `ConversionInv`: an output is what the operators compute
from the input, so that the properties become lemmas about operators.
`EntriesAbout` and `NamedBy`: an entry of an answer that names a message is one
of that message's own or was not asked for; `RowsOfData`: these entries are the
rows. `ColumnsOf` evaluates a row by position. `FirstOfKind`: the part that
`_body_part` finds is the first one shown of its kind (`LeastNumber`), and
`BodyOf` follows `body` from HTML, where it has text, to plain text.

What stays with TLC. TLAPS cannot do liveness under fairness: `NewMailDelivered`,
`StopReturns`, `StoppedLoopsEnd`, `ReturnsToPrimary`, `PollsGoThrough`,
`AllDelivered`, `MailSeen`, `Settles`, `SavesReturn` and `Ends`. Every
safety invariant and action property that a passing run checks has its theorem.
No module uses recursion, and nothing needs induction over data: what `Messages`
does with a message of many parts is choosing a first one, for which the
well-foundedness of the numbers is enough.

## 5. What is not modelled

* Text: addresses, encoded words, flags, MIME boundaries, form fields, URLs and
  headers of requests. `Messages` keeps what decides between messages, times,
  priorities and bodies.
* `ClientConfig` and its validation: checked once, no state.
* Fields of a message other than times, priority and body are copied.
* `on_switch` and `on_error` are called and return; logging is left out.
* The delay of the back-off as a function of the failure count: any time passes.
* Attachments of received messages: an attached message is not in `attachments`
  (its leaves are parts of their own); no property speaks of it.

## 6. Where to go on

In this order:

1. `Requests` with the threads of `Auth`: several workers, each with files open,
   over one shared session and one transport.
2. `Backoff`: the delay against its reference (bounded, monotone, capped).
