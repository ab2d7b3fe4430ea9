# Issues API Testbed: specification, model checking and proofs

TLA+ modules that model the service under `src/app`, TLC configurations that
check them on small instances, and TLAPS proofs of what holds for every
instance. Paths below are relative to `src/`.

## The system

A FastAPI process on one event loop wraps the issues of one GitHub repository
and keeps a log of the webhook deliveries GitHub sends it. Handlers are
coroutines: each runs without interruption from one `await` to the next, and
any number are in progress at once.

| Component | State | Operations | Talks to |
|---|---|---|---|
| Webhook checks (`app/webhooks.py`, `app/routers/webhooks.py:57-97`) | none | signature, event, delivery id, body, action, in that order | raises to the error envelope |
| Event store (`app/store.py`) | one SQLite connection, its open transaction, the table `webhook_events` | `connect`, `close`, `record`, `recent` (`count`, `payload_for`: tests only) | aiosqlite's worker thread, one call at a time |
| Webhook and events handlers (`app/routers/webhooks.py`) | none of their own | `POST /webhook`, `GET /events` | the store, shared by all requests |
| Response cache (`app/cache.py`) | an ordered map from queries to (ETag, page, Link) | `get`, `set` | called by `GET /issues` only |
| Issue list (`app/routers/issues.py:86-164`) | none of its own | `GET /issues` | GitHub (one await), the cache before and after it |
| Issue and comment routes (`app/routers/issues.py`) | none | `POST`, `PATCH`, `GET` by number, comments | GitHub, one call each |
| GitHub client (`app/github_client.py`) | an HTTP connection pool | `_request`, error mapping, one method per endpoint | GitHub |
| Errors (`app/errors.py`) | none | exception handlers, one envelope | every handler |
| Pagination (`app/pagination.py`) | none | parse and rewrite `Link` | `GET /issues`, comments |
| Schemas (`app/schemas.py`) | none | validation and projection of payloads | routes |
| Assembly and lifespan (`app/main.py`, `app/dependencies.py`) | `app.state`: settings, cache, client, store | startup, shutdown | all of the above |
| Settings, logging middleware (`app/config.py`, `app/logging.py`) | per process, per request | validation, request id | |

What is hard, and what each part must keep true:

* **Event store and its handlers.** Every request uses the one connection, so
  all of them share one transaction: SQLite opens it at the first INSERT and
  any request's COMMIT ends it. `record()` awaits twice, and duplicates,
  failing calls, and the death of the process come between. Correct means: a
  delivery answered with 204 is in the table and stays there; one delivery per
  key is answered as new; no key is stored twice; no row is forgotten in the
  open transaction; a list shows the latest deliveries without a gap; every
  request is answered.
* **Issue list and cache.** The entry is read before the await and used after
  it. Concurrent misses complete in any order, entries are evicted meanwhile,
  the page changes at GitHub, and a 304 may answer the caller's validator or
  the cached one. Correct means: a cached page is the one its ETag names, the
  cache is bounded and least recently used goes first, and no caller can tell
  the service from one without a cache.
* **Webhook checks.** Their order decides what an unauthenticated caller
  learns; together they decide which deliveries are recorded at all.
* **Issue and comment routes, client.** GitHub may carry a call out and the
  answer be lost, late, unreadable, or replaced by a proxy's 502; it may carry
  it out after the handler has given up; and a caller that is told 429 or 503
  repeats it. Correct means: a success is the work of this very call, and it
  shows an issue and no pull request; an error that excludes the effect is
  right for good; what happens twice is bounded by the answers that left it
  open; concurrent PATCHes do not undo each other's fields; every upstream
  error is answered as documented, with the exceptions listed below.
* **Pagination.** The list moves between the pages of a walk, pull requests are
  filtered out of pages already cut, the Link header goes through a parser and
  loses its filter, and a rate limit stops the walk in the middle. Correct
  means: a walk over a list that stands still is that list, whatever rate limits,
  timeouts and errors came between; nothing is missed unless something was
  removed; a page whose body cannot be read, which the service answers as an
  empty one, costs its own items and no others; the wait of a 429 is neither too
  short more than once nor a second too long.

`PROJECT.json` lists the hazards at their lines, each with the properties that
would show it going wrong.

## Modules

### `WebhookRequest`, `WebhookIntake`: the checks of POST /webhook

`WebhookRequest` has one operator per check (`VerifySignature`,
`ValidateEvent`, `RequireDeliveryId`, `ParseBody`, `RequireAction`), and
`Checks` lists them in the order in which `receive_webhook` makes them.
A request is a record of classes, the ones the checks tell apart (a signature
is valid, absent, different or non-ASCII; a body is an object, empty, another
JSON value, no JSON, no UTF-8). `Status` is the answer and `Summarize` what is
handed to the store. `WebhookIntake` is the small state machine that answers
one request after another.

### `EventStore`: the store

| Variable | Code |
|---|---|
| `connected` | `EventStore._connection` is set |
| `table` | the committed rows |
| `txn` | the rows in the connection's open transaction |
| `queue` | the calls aiosqlite has queued for its thread, as the tasks that wait for them |
| `coro` | per task, the frame of `record()` or `recent()`: the call it awaits, arguments, result |

`Record`, `RecordCommit`, `RecordReturn` are the three stretches of `record()`
between its awaits; `Recent`, `RecentFetch`, `RecentReturn` those of
`recent()`; `Raise` is the exception that neither catches. The `Thread...`
actions are aiosqlite's worker thread and SQLite: they are not in this
repository and are modelled from how `store.py` uses them (INSERT OR IGNORE on
the primary key, one implicit transaction per connection, a COMMIT that commits
all of it, reads that see it, a crash that rolls it back). A row is its
delivery, `received_at` and the rowid.

### `WebhookService`: the handlers over the store

`Receive`/`AfterInsert`/`Acknowledge` are `receive_webhook` after its checks,
`ListEvents`/`AfterSelect`/`ListReply` are `list_events`, `Fail` is the 500 of
an unhandled exception, `Thread`/`Fault` the worker thread, `Startup`/`Restart`
the lifespan and the crash, `Tick` the clock. `acked`, `firsts`, `owed` and
`commitFailed` are history that only properties read. `DeliveryLog` is the
abstract specification: an append-only log in which a delivery is found before
it is acknowledged. The refinement maps its `log` to `table`.

### `ResponseCache`, `IssueList`: GET /issues

`ResponseCache` has `get` and `set` as operators (`Touch`, `Put`) on the
sequence of entries, oldest use first. In `IssueList`, `List` is the handler up
to its await, `CompleteNotModified`, `CompleteHit` and `CompleteMiss` are the
three branches after it, `AnswerNotModified`, `AnswerPage`, `RequestFails` and
`AnswerGarbled` what the await may bring, and `UpstreamChanges` and `Restart`
what happens around it. A page stands for the list and the Link header; an ETag
for the page it names. `used` is history: which query was used after which.
`FreshList` is the abstract specification, without a cache: the page a caller
is told of is read in one step between the request and the reply. The
refinement places that step at GitHub's answer; completing the request is a
step `FreshList` does not see, which is the point: whatever the cache has gone
through, the handler must answer with that page.

### `GitHubClient`, `Schemas`: operators of the client and the request models

`GitHubClient` takes a response as a record of what `_map_error` looks at: the
status, the class of the body, the remaining quota and the two headers that
name a wait, each absent, unreadable, infinite or a number. `MapError`,
`IsRateLimited`, `RetryAfterSeconds` and `StatusError` follow the methods of the
client; an exception inside them (`int()` of an infinite header) is an answer
of 500. `Schemas` has `ValidCreate`, `ValidPatch`, `ValidComment` over payloads
of classes (a title is plain, padded, blank, too long or absent, ...) and
`GithubPayload`, what a valid one is sent as.

### `IssueRoutes`: POST, PATCH and GET of issues, POST of comments

| Variable | Code |
|---|---|
| `call` | per request, the frame of its handler: the parsed request, the response it has received, its answer |
| `wire` | requests the HTTP client has sent and GitHub has neither executed nor refused |
| `repo`, `comments` | GitHub's side: the issues and pull requests by number, the comments |
| `times` | history: how often GitHub has executed a request |

`Submit` and `Reject` are the validation of a request and the call that follows
it, `Complete` is the handler after its await (`Outcome`: the error mapping, the
test for a pull request, the projection), `RequestFails` the timeout or
transport error, which may come before or after the effect and leaves the
request on its way. `Execute`, `Refuse` and `Lose` are GitHub and the network;
`Restart` is the death of the process; `Retry` a caller that repeats a request
all of whose answers so far were 429 or 503. `first` links a repetition to the
call it repeats. Items record the call that created them (`by`), which only
properties read.

`RemoteCalls` is the abstract specification: what a caller may conclude. "done"
comes after the effect, "refused" excludes it for good, "unknown" leaves it
open, and no call takes effect twice. The refinement reads these words off the
answers (`Meaning`): 200 and 201 are done; 0 (no answer), 500 and 503 are
unknown, and so is the 404 of GET and PATCH, which also answers for a pull
request that has just been patched; everything else is refused.

### `Pagination`, `PageWalk`: the Link header and those who follow it

`Pagination` is `app/pagination.py` on tokens: `SplitSegments` cuts at commas
outside of `<...>`, `HasRel` is what the two expressions match, `IsLink` drops
links with a blank name or address, `ParseFails` is the exception of `rel=""`,
`ParseLinkHeader` takes the first link of each rel and `RewriteLinkHeader` keeps
page and per_page. `LinkHeader` writes a header as GitHub does, of links that
are each a rel and an address (`Segment`). `PageWalk` gives every page an
`Address`, a filter with a comma in it before the two parameters, and its
`Neighbours`. It has a list at GitHub to which items are added and from which
they are removed, GitHub's quota, a clock of `TicksPerSecond` ticks, and one
caller: `Ask` is the query validation, `Served` is a 200 with its rewritten
links, `AnswerPage` the one with the page, `AnswerUnread` the one whose body
`_decode` made None of and the routes an empty page, `Refuse` the 403 of an
exhausted quota as the service maps it, `RequestFails` the 503; `WithoutPulls`
is the filter of `list_issues`. The caller waits as long as a 429 tells it and
goes on where it was. `unread` is history: the items that stood on unreadable
pages. GitHub names every rel, so a walk never meets `ParseFails`.

Operators whose comment begins with "Mutant:" are not part of the model. Each
is a plausible mistake in the definition that follows or one near it, and
`PROJECT.json` names the property that finds it.

## Runs

| Run | Shows | Instance |
|---|---|---|
| `webhook_request` | `UnauthenticatedLearnsNothing`, `AcceptsExactly` | every class of request, one unsupported event, an empty action |
| `webhook_service` | `TypeOK`, `AckedIsDurable`, `ReportedNewOnce`, `OneRowPerKey`, `NothingLeftPending`, `ListingIsRecent`, `RequestAnswered` (liveness), refinement of `DeliveryLog` | 2 tasks; two actions of one delivery id, one delivery that cannot be stored; 2 instants, limits on both sides of the setting |
| `list_cache` | `TypeOK`, `EtagNamesData`, `CacheBounded`, `EvictsLeastRecent`, refinement of `FreshList` | 2 requests, 3 queries, 2 pages, a cache of 2 |
| `issue_routes` | `TypeOK`, `CreatedAsAsked`, `NoPullRequestShown`, `DuplicatesOnlyAfterDoubt`, `ErrorsFollowTable`, `OnlyNamedFieldsChange`, refinement of `RemoteCalls` | 2 calls over one issue and one pull request; 14 requests, valid and not; 12 refusals |
| `page_walk` | `TypeOK`, `WalkIsTheList`, `WalkMissesNothing`, `NothingForeign`, `RefusedAtMostTwice`, `IdleUnderASecond`, `WalkCompletes` (liveness) | a list of issues and pull requests and one of comments, up to 5 items, pages of 1 to 3, a quota of 1 request in 3 seconds |
| `webhook_refusals` | two disagreements, below | as `webhook_request` |
| `webhook_full_disk` | a disagreement, below | 2 tasks |
| `webhook_dirty_listing` | a disagreement, below | 2 tasks |
| `list_garbled` | a disagreement, below | 1 request, 1 query |
| `issue_pull_request` | two disagreements, below | as `issue_routes` |
| `issue_errors` | two disagreements, below | as `issue_routes` |
| `page_garbled` | a disagreement, below | as `page_walk` |

**Bounds.** In the webhook and cache runs nothing but the clock is cut off:
restarts, redeliveries, failures and upstream changes are unlimited, because
rows are keyed and history is sets and counters that the properties themselves
bound. `MaxClock` is 2, with a clock that starts at 1, which gives rows of one
instant and rows of two. Two tasks give every order of the awaits of two
requests: duplicates, a commit that takes the other's row along, a list between
another's INSERT and COMMIT. What takes a third task (a commit between those of
two duplicates) is left to the theorems, which hold for any number. Three
queries over a cache of two make every set of a new query evict, and two
requests make every order of two completions around an upstream change. Beyond
these sizes too the theorems take over.

In `issue_routes` each call is made once, so two calls bound everything else:
they are enough for a repetition that overtakes its original and for two
concurrent PATCHes of one issue. `AllRefusals` has one response for every row of
the table of errors, and those with the headers in contradiction: an exhausted
quota with a reset ahead, behind and without, an infinite header, a Retry-After
of 0. In `page_walk` `MaxItems` = 5 allows a list of four with one item added in
the middle of the walk and any number removed; pages of 1, 2 and 3 cut it evenly
and unevenly, and 4 is refused. A `Quota` of 1 lets any page meet the rate
limit; a `Window` of 6 ticks at `TicksPerSecond` = 2 has resets that are and are
not whole seconds away, and two windows pass within a walk. `MaxFaults` is 1, a
request that fails or a body that cannot be read, and bounds what may fail for
ever.

**Symmetry.** Requests and queries are interchangeable in `list_cache`; the
pages are not (one is the empty list), and the other runs use none:
`webhook_service` and `page_walk` check liveness, and the calls of
`issue_routes` are few enough without.

**Fairness.** `Spec` of `WebhookService` has weak fairness on `Thread` and on
the `Handler` steps of each task: the worker thread takes the next call as long
as there is one, and the event loop resumes a coroutine whose call has
returned. Nothing makes requests arrive, the process start again, or the clock
move. `RequestAnswered` needs no more, since a crash is an answer of a kind:
the connection breaks. `IssueList` has no fairness and claims no liveness.
`IssueRoutes` has none either: that a handler ends is httpx's timeout
(`request_timeout_seconds`), which bounds each read and not the exchange, so the
model lets a handler give up at any time and claims nothing about when. `PageWalk`
assumes that its caller goes on and is answered (`WF(Walk)`) and that time passes
(`WF(Tick)`); the quota's return follows from the clock.

The clock of `WebhookService` never steps back. `received_at` is wall time
(`datetime.now`), so after a correction of the system's clock lists are in the
order of `received_at` and no longer in that of arrival; `ListingIsRecent` says
nothing of that.

**Deadlock** is checked in every run but `issue_routes`, where each call is made
once, and `page_walk`, which ends with the walk, and their disagreements.

### Disagreements between code and documents

Ten, in seven runs. Where a run has two, its one property is false of both, and
the trace TLC prints is one of them.

* `webhook_refusals`: a signed body that is not UTF-8 makes `json.loads` raise
  `UnicodeDecodeError`, which `except json.JSONDecodeError` does not catch
  (`app/routers/webhooks.py:86`): 500 where the route documents 400.
* `webhook_refusals`, its other conjunct: `hmac.compare_digest` raises
  `TypeError` for a signature header with a non-ASCII character
  (`app/webhooks.py:60`): 500 where every refused signature is to look the same.
* `webhook_full_disk`: `SpecFullDisk` adds `Rollback`, what SQLite does when an
  INSERT meets a full disk: it rolls back the whole transaction. Task 1 inserts,
  task 2's INSERT fails and rolls back, task 1 commits nothing, successfully,
  and acknowledges a delivery that is not stored. One connection per request,
  or a lock around INSERT and COMMIT, would end this.
* `webhook_dirty_listing`: `GET /events` lists a row before it is committed.
* `list_garbled`: `SpecGarbled` adds `AnswerGarbled`, a 200 whose body cannot be
  decoded. It is cached as the empty list under the page's ETag, and every 304
  confirms it.
* `issue_pull_request`: `update_issue` sends the PATCH and looks for the marks of
  a pull request in the result (`app/routers/issues.py:196`): the pull request
  has been changed when the caller is told 404.
* `issue_pull_request`, its other conjunct: `create_comment`
  (`app/routers/issues.py:218`) comments on whatever has the number, pull
  requests included, and answers 201. `CreatedAsAsked` therefore speaks of the
  number commented on and not of an issue.
* `issue_errors`: a 301 or 307 of GitHub is no error to `_request`; its body is
  projected as an issue, and the `KeyError` is a 500 where the table of errors
  promises 502 for anything else.
* `issue_errors`, the responses of `EndlessWait`: a rate limit whose `Retry-After`
  or reset is infinite raises `OverflowError` while its wait is computed
  (`app/github_client.py:250`): 500 where the table promises 429.
* `page_garbled`: a 200 whose body cannot be read is served as an empty page
  (`app/routers/issues.py:247`, `:146`) with the Link header of the full one, so
  a walk ends without that page's items, and without an error.

Everything else about webhooks and the cache is stated and proved of `Spec`,
without `Rollback` and `AnswerGarbled`. The issue routes and the walk have their
unreadable bodies in `Spec` itself.

## Proofs

Eight modules hold proofs: `WebhookServiceProofs` and `ListingProofs` (any set
of tasks, requests, deliveries and limits), `IssueListProofs` (any set of
requests, queries and pages, any cache size), `WebhookIntakeProofs`,
`IssueRoutesProofs`, `PaginationProofs` (any header), `PageWalkProofs` (any
lists, quota, window and page size), and `Folding`, which the last two rest on.
Every invariant, action property and refinement that a passing run checks is
stated by a theorem; only liveness is not.

The assumptions are the named ASSUMEs of the modules: a sentinel lies outside
the set it marks, limits are integers, the clock's bound is a natural number, an
accepted request is summarised to a delivery, the cache has room for one entry,
a second has at least one tick and a window of GitHub's quota is a number of
seconds, calls are finitely many, the default page size is one that is accepted,
and a list to walk through is one of issues and pull requests or one of
comments, as the two routes have it (`ListsAssumption`), within the bound on
items.

**Webhooks.** `AckedIsDurable` is not inductive: that `Acknowledge` finds the row
in the table has to be known while `record()` is under way. `RecordOK` says so
at each await: after the INSERT, new or ignored, the key is in `table` or `txn`;
when the COMMIT has returned it is in `table`. Crashes and closes empty `txn`
but also every frame that relies on it. `QueueOK` (one call per task, and the
task waits for it) makes the worker's step concern one frame. `ClaimsOK` says
that the one frame whose INSERT made a row is alone in its claim and nobody has
reported that key, which with `ReportsOK` gives `ReportedNewOnce` also across
a crash that undid the row. `RowidsOK` gives unique rowids; `PendingOK` says who
is going to commit what is pending. From the same invariant each step maps to a
step of `DeliveryLog` (`ImplementsLog`).

**What GET /events lists.** `ListingIsRecent` is a statement about one list, and
needs the order in which everything before it came about. `received_at` is taken
when `record()` hands its INSERT over, the rowid given when the worker thread
executes it; the list is ordered by the first, and "without a gap" is about the
second. `TimesOK` says that the two agree: arrival times grow along the rowids,
from there along the INSERTs still queued, and up to the clock, because one
thread executes calls in the order of the queue. `CountOK` says that rowids
number the rows, those of the table alone and with the open transaction's, so
that a crash leaves no hole. `OwedOK` ties what a request is owed to what has
been acknowledged, which `WebhookServiceProofs` shows to be in the table.
`ListsOK` carries what the SELECT found to the handler that reads it, through
two awaits. With these, a list that begins with the latest row and is cut by the
limit is an unbroken run.

**Issue list.** `InUseOrder` says that the entries lie in the order of their last
uses, from which `EvictsLeastRecent` follows: a set drops entries from the
front, and only for a new key. `FlightOK` says what a request holds between its
awaits: a cached entry whose page its ETag names, a 304 that names a page, a 200
whose ETag names its page. The lemmas about `Remove`, `Touch` and `Put` (keys
stay distinct, length bounded, order kept, no other entry appears) are proved
once and cited. `ImplementsFreshList` follows step by step: what a completed
request says is what the answer had settled.

**Webhook checks.** `WebhookIntakeProofs`: the first check that fails decides the
answer, for any event names, delivery ids and actions.

**Issue routes.** `IssueRoutesProofs` holds for any set of calls, any repository,
any requests and any set of responses with which GitHub refuses (of status 300 or more,
with an error for a body). No property is inductive by itself, because the
answer is given after the response has crossed the network. `FrameOK` says what
a handler's frame is worth at each stage: while the request is on its way it has
had no effect and the frame has no response, or has been given up; a response
that has arrived is `Honest`, that is a refusal and there has been no effect, or
there has been exactly one and the response is unreadable, an error of a server
between, or `Matches` the repository as it is now. `FrameKept` shows once that
this survives every other call's effect, since items and comments are only
added and keep kind and author; `OneMoves` and `RespondKeeps` reduce each action
to the frame it touches. `GroupsOK` says that of the calls for one request all
but one have an answer that asks for a repetition, from which
`DuplicatesCounted` follows by counting: an effect with such an answer is a
doubtful one, and at most one call is left. `MeaningOf` reads off a frame what
its answer tells, and gives the refinement step by step. The lemmas about
`MapError` and `Result` are about the operators alone, for every status and
every combination of headers: `ErrorsAsDocumented` says that the table is kept to
the letter but for an infinite wait, and that nothing else and no response but
one below 400 without a result ends in a 500.

**Link headers.** Splitting, parsing, writing and filtering are folds, and what
a fold makes of every sequence is a matter of induction. `Folding` derives it
without an induction theorem over operators: the induction principles are about
membership in a set (from the well-foundedness of `<`), `FoldExists` shows that
the recursive function inside the library's `FoldLeft` exists, and `FoldEmpty`,
`FoldAppend` and `FoldTyped` say that a fold starts with its base, goes on one
step per element and stays in its type. Each fold of `Pagination` and `PageWalk`
is an instance of `Folding` with its step for `Op`. In `PaginationProofs`,
`ReadToken`, `ReadUrl` and `ReadSegment` follow `SplitSegments` through one
link, whose address may hold any tokens but the two brackets;
`SegmentsComeThrough` is the header of any number of links, and
`LinksComeThrough` says that `ParseLinkHeader` gives back the links a header is
written of, and does not raise, if every rel has a name (`RelName`) and none
occurs twice. `ForwardedIs` (in `PageWalkProofs`) applies it to the pages of a
list: a caller gets a next link exactly when there are more items, and it names
the next page of the same size.

**Waits.** `PageWalkProofs` proves for any quota, window and clock resolution
that a caller who waits as told is refused twice at most before the quota is
back, and then idles for less than a second. The invariant `Waits` relates the
wait to the ticks until the reset: after the first refusal it is short by less than a
second, after the second it reaches to the reset.

**The walk.** `WInv` is the invariant of what the walk collects, with `Passed`
for the items on the pages before the one asked for. `StillOK`: while the list
stands still and no page with anything on it was unreadable, what is collected
is the list up to there without its pull requests (`StretchBoth` joins the
stretch before and the page, `KeptBoth` takes the filter inside). `AheadOK`:
while nothing has been removed, everything due is collected, stood on an
unreadable page, or lies after `Passed`; an item added moves others away from
the pages already seen, never back onto them (`InsertedOccurs`). `OrderOK`: of
the comments, whatever lies after `Passed` was made after everything collected,
since comments come in at the end and a removal only moves the rest up
(`RemovedOccurs`), so none is seen twice, removals or not; `MadeOK` makes the
new one the latest. `ShapeOK` and `PlaceOK` keep `Passed` within the list.
`KeptOccurs`, and `KindsOK` for the comments, which are not filtered, say what
the filter leaves. Of these, `WalkIsTheList`, `WalkMissesNothing` and
`NothingForeign` are read off at the last page; the count in `NothingForeign` is
a bijection from the positions to the numbers (`NumbersDiffer`).

**Only model-checked.** The liveness properties (`RequestAnswered`,
`WalkCompletes`): fairness is out of the provers' reach. And what the
disagreements show, which are counterexamples.

## Not modelled

`count`, `payload_for`, the cache's counters and `clear` (tests only); logging,
the request id and the wording of errors; the fields of projected issues,
comments and events, which are copies of GitHub's; the replay script, the proxy
and the container files. A database file shared with another process is
modelled only as calls that fail. The cancellation of a handler at one of its
awaits (a shutdown that does not wait) is not modelled apart from the death of
the whole process. A startup or a shutdown that fails ends the process; what it
leaves open the system closes.

Of a walk: a caller that follows the Link header without repeating its filter
(it leaves the filter, as the header keeps page and per_page only), clocks of
GitHub and the service that differ, a 200 whose JSON is no list, and a redirect
(both end the walk in a 500), and the cache of `GET /issues`, which callers
cannot tell from none (`FreshList`), but for an unreadable page, which it keeps
serving as empty (`list_garbled`). Of the issue routes: a response that trickles
in for ever.

## Plan

1. Three tasks in `webhook_service`, and a zero and a negative
   `events_max_limit`, all of which the theorems cover already.
2. A caller of `PageWalk` that drops its filter, and one per filter over the
   cache of `IssueList`.
