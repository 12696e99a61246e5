# arknights-mcp in TLA+

This directory specifies, model-checks and proves properties of arknights-mcp: a
command-line importer that turns upstream game data into validated, immutable
SQLite builds, and an MCP server that answers questions from the active build,
locally over stdio or remotely over Streamable HTTP.

## 1. Inventory

Paths are under `src/arknights_mcp/`.

| Component | State it keeps | Operations | What is hard | What makes it correct |
|---|---|---|---|---|
| Build store (`db/promotion.py`, `util/atomic.py`) | `data/builds/*.sqlite`, `data/current.json` | promote (compare, name, write, swap, prune), resolve | crash between two file operations, same-second names, a prune working from an old listing, no lock | the manifest names a validated build on disk; builds are never edited; retention keeps a rollback |
| Serving (`app.py`, `db/connection.py`) | one cached read-only connection | resolve once, open, hold, close | the build it resolved is pruned before it is opened | whole builds only; an unavailable one is retried |
| Remote limits (`middleware/rate_limit.py`) | per principal: a deque of admission times and an in-flight count | reserve, refuse, release, `_gc` | calls interleave at every await; exceptions and cancellations | rate over every window; exact in-flight count; an honest Retry-After; no leak |
| Remote pipeline (`transports/streamable_http.py`, `middleware/request_limits.py`) | per call: body bytes seen, whether the response started, a deadline | metadata, challenge, verify, size caps, timeout | timeout against a response that has started; a wedged handler | one response per call; the slot always comes back |
| Source administration (`cli/source.py`, `sources/registry.py`, `db/policy_events.py`) | `config/data_sources.toml`, `data/policy_events.jsonl` | enable, disable, purge | two files changed one after the other; the purge rebuilds in between | the journal tells the truth; a takedown holds |
| Purge (`db/purge.py`) | a copy of the active build | cascade, foreign-key refusal, re-materialise | a domain left out of the cascade | every attributable row goes, or nothing changes |
| Candidate building (`cli/_shared.py`, `cli/sync.py`, `cli/import_.py`, `importers/`) | a candidate database | stage, import per server, ride-alongs, reindex, validate, promote | one optional domain of several failing; one server's files missing; ids shared by both servers | combat data all or nothing; optional domains all or nothing and reported; references stay inside their server |
| Downloads (`sources/http_fetch.py`, `sources/arknights_assets.py`) | a shared budget, keep-alive connections | fetch with retries and redirects, stage in a thread pool | a budget checked before and charged after; a pool of which one future fails | bounded overshoot; every loop ends; nothing is built from a partial staging |
| Account roster (`db/account.py`, `sources/yostar.py`, `cli/account.py`, `importers/account.py`) | a session file, `account_roster` in PostgreSQL | login, sync, logout, purge; parse the game's answer | overlapping commands at READ COMMITTED, a lost answer to a COMMIT, two stores removed one after the other | a roster is replaced whole; nothing is sent before consent; a purge leaves nothing |
| Token verification (`auth/oidc.py`) | a key cache (library) | verify | unknown key ids | fails closed |
| Responses (`mcp/envelopes.py`, `mcp/shed.py`, `mcp/payload_hygiene.py`, `mcp/tools/_shared.py`) | none | clean, build an envelope, shed under the cap, page | loops that drop detail until the frame fits; what is said of a list on one page of it | ends, fits, drops the least, says what it lacks |
| Stage facts (`services/stages.py` and its digest, grid and renderer, `mcp/tools/stage.py`) | none | `get_stage` | shared stage codes, routes merged before paging, maps that claim less than they hold | compact forms decode; the whole list comes through its pages |
| Drops (`services/drops.py`, `analyzers/farming.py`, `mcp/tools/drops.py`) | none | `get_stage_drops`, `get_item_drops` | ties, expiry, a ranking that takes the place of the facts | ranked over the whole set; expiry told on every page |
| Listings (`services/banners.py`, `services/announcements.py`, `util/iso_bounds.py`) | none | `get_banners`, `get_announcements` | days against instants, sources never imported | windows inclusive on both sides; an empty answer says why |
| Operators (`services/account.py`, `services/base_skills.py`, `mcp/tools/account.py`) | none | `get_my_roster`, `get_my_operator`, `get_my_inventory`, `find_operators` | the roster joined with another database's build; a sync between two pages | a walk reads one roster, or starts over |
| Search (`services/search.py`, `db/repositories/search.py`) | none | `search_entities`, `search_stages` | a bounded list chosen by one order and shown in another | what is found by its own name is not crowded out |
| Other analysis (`services/operators.py`, `services/module_compare.py`, `services/enemies.py`, `analyzers/stage.py`, `analyzers/module.py`) | none | projections of one entity's rows | missing data | copies of fields |
| Configuration, models, schema | none | parsing | | |

How they interact: `sync`, `import` and `source purge` build a candidate in a
temporary directory and hand it to `promote_candidate`; the server only reads
`current.json` and the build it names. The policy journal is written by
`source` commands and read by every build. The registry gates `sync`, `import`
and each ride-along. The remote stack surrounds the MCP handlers, which share one
read-only connection. The account commands and tools share the session file and the
account database, which no build contains; the tools join the two databases. A
client pages through a list with independent calls: nothing on the server remembers
the walk. No command takes a lock: the documents assume an operator who runs
one at a time.

## 2. Modules

| Module | Models | Actions and the code |
|---|---|---|
| `ActiveBuild` | what the store promises readers: one register, switched atomically, only to a content that passed | abstract |
| `BuildStore` | promotion and serving | `Start` the refusals of `promote_candidate`; `ReadCurrent`, `Noop`, `Proceed`, `ChooseName`, `WriteBuild`, `SwapManifest`, `ListBuilds`, `UnlinkOne`, `Promoted` its file operations in order; `Crash`; `Resolve`, `Open`, `Close` of `ActiveDatabaseProvider` |
| `RateLimit` | `RateLimitMiddleware` | `Reserve` the critical section without an await; `Refuse`, `RefuseFails` the 429 with and without a client; `Release` the `finally` |
| `RemoteStack` | `wrap_remote_app`, extending `RateLimit` | `AnsweredOutside`, `Present`, `VerifyFails`, `Verified`, `Refused`; `HandlerStarts`, `HandlerEnds` (external); `BodyTooLarge`, `TimesOut`, `Leave` |
| `SourceAdmin` | the registry, the journal and the active build under toggles, purges, syncs and imports | `ReadRegistry`, `FlipSwitch`, `RecordToggle` of a toggle; `ReadHistory`, `BuildCandidate`, `PurgeCopy`, `BuildFails`, `Promote` of a build; `JournalPurge`; `Crash` |
| `Fetch` | the downloads of one sync: threads, budget, connections | `Take`, `Check`, `Respond` (a reply begins), `Redirected`, `NotFound`, `Refused`, `Transient`, `Body`, `Charge`, `Parse` of a thread in `fetch_json`; `Collect`, `Cancel`, `Abort`, `NextPhase`, `Promote` of the main thread in `_download_all` and `sync` |
| `Importers` | every domain importer as an operator from files and tables to rows or an error | no state |
| `ImportPipeline` | one sync from staged files to the gate | `ImportOneEnemies`, `ImportOneStages`, `ImportOneOperators`, `ImportOneModules` (fail closed), `ImportOneOptional` (savepoint), `IndexBuild`, `RideAlongPenguin`, `RideAlongAnnouncements`, `Reindex`, `Gate` |
| `Account` | the account commands, step by step, and readers of the roster | `Start`, `ReadSession`, `CheckWritable`, `Confirm`, `Request`, `Code`, `WriteSession`; the transaction `StartDelete`, `FinishDelete`, `Insert`, `Commit`; `RemoveSession`; `Breaks`; `HasTable`, `Select` of a reader |
| `Roster` | what `parse_sync_data` keeps of the game's answer | no state |
| `Envelope` | `build_envelope`, the cap, the shed loop and the shed plans' cuts, cleaning, paging | no state |
| `StageView`, `DropView`, `BannerView`, `RosterView`, `SearchView` | the tools of each family, from request and rows to answer | no state |
| `Answers` | a client walking a list page by page, calls that fail, syncs between pages | `Ask` is one call through `run_guarded`; `Resync` an account sync; `Retry`, `GiveUp`, `Halve`, `Shrink`, `StartOver`, `Take` the client, external, doing what the limitations advise |
| `MCImportPipeline`, `MCAccount`, `MCAnswers` | files, symmetry, databases and requests for TLC | |
| `BuildStore_proofs`, `RemoteStack_proofs` (the limiter's theorems and the stack's), `SourceAdmin_proofs`, `Fetch_proofs`, `Account_proofs`, `ImportPipeline_proofs`, `Answers_proofs` | the theorems of section 4 | |
| `Candidate_proofs` | what each importer's rows refer to, contain and keep: the lemmas of `ImportPipeline_proofs` | |

`RemoteStack` composes with `RateLimit` by extending it: its steps are the
limiter's actions with the layers around them, or leave the limiter alone, so the
limiter's theorems carry over (`StackIsLimiter`, a lemma; it holds by that shape and
says nothing of its own).
`SourceAdmin` uses promotion as one step; `BuildStore` shows that step to be
atomic for whoever resolves `current.json`. `ImportPipeline` extends `Importers` and
ends with the verdict that `BuildStore` starts from; `Fetch` ends where it begins.
`Answers` extends the views, which extend `Envelope`; `RosterView` uses `Roster`
for the rows that `Account` stores, so that a roster is the parse of what the
game sent.

The tools change no state, so their properties are about walks: `Answers` composes
their operators with a client that knows only what it was answered, and states
what it must end up with against a separate reading of the rows (`Expected`,
`InOrder`, `Cells`, `Restored`) that shares no shaping, paging or ranking with them.

Operators preceded by a comment "Slip:" are mistakes a change to the code could
make. No specification uses them; they show that the properties notice.

## 3. Runs

| Run | Question | Result |
|---|---|---|
| `BuildStore_serial` | Promotions one at a time with crashes anywhere, and a server | holds |
| `BuildStore_overlap` | Is a build immutable when two runs overlap? | no: a same-second name is taken twice |
| `RemoteStack` | Every order of the ends of three calls | holds |
| `RateLimit_churn` | Is the state of a principal that left reclaimed? | no: `_gc` runs only on its own requests |
| `SourceAdmin` | Toggles, purges, syncs, imports one at a time with crashes anywhere | holds |
| `SourceAdmin_cascade` | Can every source be purged? | no: drops and announcements are not in the cascade |
| `SourceAdmin_noop` | Does a completed purge leave its row in the active build? | no, when its rebuild changes no snapshot |
| `Fetch` | Downloads on a pool with a shared budget, in every order of answers and errors | holds; the run ends unless one reply never does |
| `ImportPipeline` | Builds of two servers from ordinary files and every pair of irregular ones | holds |
| `Account` | Three overlapping account commands of any kind, dying or losing answers anywhere, and a reader | holds |
| `Answers` | Every list read to its end in three databases, with failing calls and a second sync | holds |
| `Answers_pastend` | Is "no stage drops this item" true when it is said? | no, on a page past the end |

### Bounds

- `BuildStore`: two seconds with up to three names each give same-second suffixes
  and a new second after them; four writes exceed two retained versions twice
  over; one of three contents fails validation. Two runs are enough for one to
  die and another to follow it. `BuildStore_overlap` needs one second and two
  writes. The refinement is proved under `MaxPerSecond <= Kept + 1` (section 4), and the
  run is the edge of it: three names, two retained versions.
- `RemoteStack`: three calls of one principal with a rate of one and one slot
  give both refusals and a refill. There are two ticks to a second: the window is two
  seconds, four ticks, and the clock reaches six, so a wait can be half a second off,
  an admission leaves the window, and another call takes the room in the gap that
  rounding leaves. A rate of two needs four calls for the same, more than 24 million
  states; every rate is covered by `RateAlwaysBounded` and `RetryAlwaysHonest`.
  Principals share no state in the limiter, so one is enough there;
  `RateLimit_churn` has two, one that leaves and one that goes on.
- `SourceAdmin`: two game sources (one synced, one imported) and one that rides
  along; one upstream version tells rows from no rows; two journaled events
  are a takedown of an enabled source (disable, purge), or a purge and the enable
  that undoes it. A run that would journal a third event can only die there.

- `Fetch`: two workers for the races of check and charge; three level files are
  more than the pool; a total cap of three against files of one byte trips in
  the middle of a phase; one redirect and one retry give each bound's edge. One
  server goes through every phase, then one ride-along. `TypeOK` of that module is
  proved and not run.
- `ImportPipeline`: two servers with the same ids, one with an announcement feed;
  every file is ordinary or one of its irregular forms (absent, unreadable, of
  another shape, without the list it should hold, empty after filtering, repeating a key, naming what is not there),
  at most two irregular ones a run: one error and its interplay with another.
- `Account`: three commands, of which two can sync while one purges; one reader,
  since readers do not meet. Commands are symmetric.
- `Answers`: an ordinary world, an irregular one (codes shared by more stages than
  a limitation lists, a map that claims less than it holds, expired and unreadable
  stamps, sources never imported) and a build of one region. Pages of one, three
  and six rows against lists of four to seven; a frame of 90 units, so that
  pages are trimmed, sections shed and answers withheld. One failed call is
  put up with, one sync comes between.
- `Answers_pastend` starts the walks of item drops at their third page.

### Fairness

- `ReaderConnects`: a client that finds no database asks again, so resolving and
  opening are weakly fair. Nothing is assumed of promoting runs: they may stop
  for ever anywhere. The property needs `open_read_only` to fail without caching.
- `TimeoutFreesSlot`: the event loop fires timers and unwinds finished calls and
  the clock advances. The handler is not fair: it may hang.
- `RunEnds` of `Fetch`: the main thread, and a thread of the pool that is not in an
  attempt, run when they can. Nothing is assumed of an attempt: the socket timeout is
  for one read, and what `getresponse` skips and the bodies drained at
  `http_fetch.py:283`, `300` and `303` have no deadline and no cap, so a reply that
  trickles on can hold a run for ever. The property says that nothing else can: a run
  that does not end waits for one reply that never ends.
- `WalkEnds` of `Answers`: `WF` of `Ask` (each call is answered, if only with an
  error) and of the client's steps. It is the client that follows the advice; the
  property is that the advice leads somewhere. The two formulas use `pc`, the one
  variable that moves with exactly those steps.
- `ChurnReclaimed` is refuted under fairness of the clock and of every call.

### Findings

1. Overlapping runs in one second replace a promoted build (`promotion.py`).
2. Limiter state of departed principals is never reclaimed (`rate_limit.py`).
3. Purging a source of drops or announcements always fails (`purge.py`).
4. A purge that changes no snapshot leaves no row in the active build's
   `source_policy_events` (`promotion.py`, no-op detection).
5. `get_item_drops` says that no stage drops an item when a page past the end of
   its stages is asked for (`mcp/tools/drops.py:649` tests the page).

Met while proving:

- A name can be taken twice by runs that do not overlap (`promotion.py:193-199`): after
  a prune within the same second, the next promotion of that second finds the bare name free.
  With `Kept` builds retained this takes `Kept + 2` promotions in one second. A server
  that resolved the first of them and has not opened it yet opens another content than
  the manifest named, even one that is not active yet. TLC shows it with
  `MaxPerSecond = Kept + 2`; `StoreImplementsActiveBuild` excludes it by its hypothesis.

Met while reading, without a run:

- A toggle that dies between the flip and the journal is not journaled by repeating
  it. `JournalAgrees` covers it: the history variable `torn` counts such flips, odd or
  even, and the last event, turned over once for each, says where the switch is. One
  event is lost with one such run, and no other.
- A sync can wait for ever for a redirect or an error body that trickles on
  (`sources/http_fetch.py:283`, `300`, `303`; see `RunEnds` above).
- A caller that waits as Retry-After told it can be refused again: the wait is rounded
  up to whole seconds (`rate_limit.py:86`), and in the part of a second between the
  room and the promised moment another call may take it. `RetryAfterHonest` says that
  only this, or an admission after that moment, can.
- A banner or skin file that is an object without its list is read as an empty domain,
  and nobody is told (`importers/banners.py:145-149`, `importers/skins.py:108-112`).
  `AllOrReported` names these shapes (`Silent`) and requires that nothing else is silent.
- With drops present the game source cannot be purged either, since drops refer
  to its stages, so both stay until drops are disabled and synced away.
- `requests_per_minute = 0` makes every call raise.
- Overlapping toggles, syncs and purges can undo one another (`SourceAdmin`'s `Spec`
  has these behaviours); no document promises otherwise.
- The descriptions of both search tools say "en results are listed before cn"
  (`mcp/tools/search.py:101`, `107`). The query orders by own name against zone or
  event name first (`db/repositories/search.py:134`), so a cn hit by its own name
  comes before an en stage found by its zone's. Words past the sixteenth are ignored
  without a limitation (`services/search.py:31`).
- The advice "Set routes_page.page_size to N or smaller to receive every route"
  (`mcp/tools/_stage_shed.py:72`), and the one for banners, can be false for a later,
  heavier page: a client that follows it is then told a smaller number. The walk
  still ends.
- `cli/account.py:111` prints "cancelled; nothing was sent" also when the prompt
  for the code is cancelled, after the code was requested (line 129).
- `db/account.py:211` calls a purge complete that overlaps a sync; at READ COMMITTED it
  can find no row that the sync then commits. `PurgeLeavesNothing` speaks of a
  purge that ran alone.
- The comment at `importers/stages.py:83` says that no title is found only without
  an activity table; a table whose zones match no stage's gives none either.
- `mcp/tools/_shared.py:547` shapes the result outside the `try` of `run_guarded`.
- `models/common.py:140` rejects a pair of instants of one day, inverted, for
  announcements, although the service would answer by day as lines 157-158 say.
- A build older than migration 0021 answers an unknown faction with `not_found`
  where the tool would advise a sync (`services/operators.py`, `resolve_faction`).
- `tests/unit/test_get_item_drops_tool.py:368` shows drops of several snapshots in one
  region; the importer writes one. The model allows several.

## 4. Proofs

TLAPS proves the theorems for every value of the constants, from the assumptions
on constants each module names. Proof modules contain no other assumption.

- `BuildStore_proofs`: `IInv` strengthens `ActiveResolvable` with what each phase
  of a run knows: at most one run is under way, a name chosen and not yet
  written bears no file, a build written and not yet swapped holds the run's
  candidate, the names a prune has marked exclude the one the manifest names.
  From it follow `TypeCorrect`, `AlwaysResolvable` and `NeverReplaced`. The first
  needs runs not to overlap: `BuildStore_overlap` is the counterexample otherwise.
  `StampInv` says what clocks and directory have to do with each other (`Stamped`: a later
  mtime has a later name; `Filled`: the builds of this second are at most the names
  taken in it; `ActiveLatest`: after a prune the active build is the newest; `RunStamp`:
  what a run in each phase knows of them). With `PruneKeeps`, a counting lemma about
  the names a prune keeps, it gives `RetentionBounded` and `RollbackSpared`.
  `StoreImplementsActiveBuild` is the refinement of `ActiveBuild` by the whole store,
  crashes and prunes included. Its invariant `PathKept` says that the name a reader
  resolved still has the content it had, or is `Spent`: pruned, and not to be taken
  again. It assumes `MaxPerSecond <= Kept + 1`, and not for the proof's sake: see the
  findings.
- `RemoteStack_proofs`, of `RateLimit`: three inductive invariants. `TimeInv`: what was popped is
  stale for ever, admissions are logged in clock order, so a new admission comes at
  least a window after the one `Rpm` before it (`RateAlwaysBounded`). `SlotInv`:
  the in-flight count is the cardinality of the running calls (`SlotsExact`).
  `RetryInv`: a 429 names the expiry of some admission in the log, rounded up by less
  than a second, so a caller that waited finds room or an admission since that expiry
  (`RetryAlwaysHonest`).
- `RemoteStack_proofs`, of the stack: the limiter's theorems hold of the stack
  (`StackBounded`, `RetryAfterHonest` included), since its steps are the limiter's
  (`StackIsLimiter`). `AnswerInv` adds to `OneResponse` that a call not yet
  past the limiter is unanswered; from it, `AnsweredOnce`.
- `SourceAdmin_proofs`: `TypeInv` is inductive for overlapping runs too. The rest
  is for commands run one at a time: `SerialInv` says that one run is under way and
  what it `Knows` in each phase (the registry it read is the one on disk, a purge
  works on the active build and a disabled source, a purge's candidate has lost the
  rows of its source, every other candidate holds rows of enabled sources only);
  `JournalInv` is `JournalAgrees` with `TakedownHolds`, both in terms of the flips that have
  no event (`Unjournaled`), which a crash must leave as they are. One lemma,
  `LastAfterAppend`, says what the last event of a source becomes when one is
  journaled. From them follow `JournalTrue`, `TakedownStands`, `NoPhantom` and
  `OnlyEnabledEnter`. `HistoryAlwaysTrue` holds of overlapping runs too: `Carries` says
  that what a run read of the journal is still a prefix of it (for a purge, with its own
  row at the end), and `Recorded`, that the same is true of every build, whatever is
  journaled later.
- `Fetch_proofs`, for any crew, files, caps and bounds: `KeptInv` (the budget counts at
  least what it accepted) gives `KeptAlwaysFits`. `PoolInv` says that a path of the phase
  is waiting, in the hands of one thread, or settled; `DeliveryInv`, what the
  main thread was handed of it. Together they give `StagingAlwaysWhole`: nothing is
  promoted from a partial staging. `OvershootInv` counts the fetches past their check
  against the crew: `used` plus a file for each of them never exceeds the cap plus a file
  for each worker, from which `OvershootAlwaysBounded`. `ReuseAlwaysClean` says that an
  unread reply is in the cache only while its own fetch reads it; that a thread
  which takes up its next path left nothing behind needs `PoolInv`.
  `EveryFetchRunsOut` (attempts only ever run out) is about single steps.
- `ImportPipeline_proofs`, with the lemmas of `Candidate_proofs`, for any order of servers,
  any files, feeds and number of irregular files. `Candidate_proofs` proves of each
  importer, for every file, that its rows fit the candidate (`Fits`: every reference
  names a row of the same server, in the candidate or among the new ones, and every
  provenance is of the server that cites it), stay inside its tables and paths
  (`Within`), and contain what the file offers. `ImportPipeline_proofs` carries that through the run:
  - the plan: `PlanAt` and `PlanPlace` say which step stands where; a server's enemies
    come before everything that cites its snapshot, and no step comes twice;
  - `RefInv`: every row of the candidate is `Sound`, a server whose enemies were imported
    has its snapshot (`Opened`), and the gate promotes whatever was not failed before
    (`CommitPromotes`). From it `ReferencesResolve` and `CommitAlwaysPromotes`;
  - `Fought`: `CombatWhole` at every moment, hence `CombatAlwaysWhole`;
  - `Indexed`: after an indexing step every row of the indexed tables has its
    documents, and the ride-alongs between the two add only items, whence `AlwaysSearchable`;
  - `Told`: of each optional domain of each server, before its step the candidate holds
    nothing; after it everything the file offered, or nothing, and then a report or a
    file of a `Silent` shape (`OptionalAllOrReported`). It needs `Once`, that a
    domain's files are read once;
  - `Valued`: the inherited levels of enemies and the uniform texts of skills are those of the
    files (`ValuesAlwaysKept`);
  - `Story`: every row of a level's tables was read off the one level file of its stage,
    and `OneStory` says what the rows of one file owe each other. `LevelTells` proves it of what
    `InsertLevel` gives for any file, `TellsMore` that rows of other stages cannot
    disturb it, and the run carries it on: `LevelsAlwaysConsistent`.

  The totals of `stage_enemies` are folds, over the spawns of the waves in order in
  `Tally` and over the stored rows in `CountAll`. That they agree is proved without induction
  over data: a fold over subsets of a finite set satisfies an equation of its own
  (`FoldThere`, `Summed`), two such sums that pick in a different order can differ only from
  a least subset on, and there is no least one (`AnyOrder`, `SameSum`). The least subset
  (`LeastSubset`) and the least number (`LeastNat`) come from the library's facts that
  strict inclusion and `<` are well founded.

  `FilesAssumption` says that what JSON gives as a list is one (the levels of an enemy;
  the board, routes, enemy refs, waves and actions of a level), that the counts and times of
  actions and the starts of routes are numbers, where `Unset` is the number that stands for null,
  and that a file is absent, unreadable, not one of ours, an object without its list, or parsed.

- `Account_proofs`, for any number of overlapping commands and readers:
  `PhaseInv` is the type invariant with what each phase of a command fits (what was
  proven, confirmed, sent, told, and what its transaction holds); `AccountSent`
  follows from it. `Alone`: while a purge that ran alone removes the session, the
  roster is gone and no other command is between two steps; with it every
  step satisfies `PurgeLeavesNothing`, whose second half is that the session goes
  only when the roster has. `LockInv`: at most one open transaction has written, and
  what it deleted is still the row; `SwapInv`, from it: each committed sync follows in
  the log the row its own DELETE removed, and no row was removed twice. `LogInv` ties the log of committed rows
  to the row, each roster to its one sync, and what a sync was told to what it
  committed; `ReadInv` says that readers found rows of that log;
  `RemovalInv` counts removals against purges by cardinality, hence the assumption
  that the commands are finitely many. Together they give `AccountRoster`. The
  assumption `AccountAssumption` also keeps commands apart from the three names of rows
  that no command wrote.

- `Answers_proofs`, for any databases, requests, page sizes and failures. Of the lists no
  section of which has a shed plan (`Plain`: announcements, operators, roster, inventory):
  - each list is `Whole`: it has every row the request asks for, once and in order, and is
    the same whatever page is asked (`ListsWhole`, `SameList`). Each order is proved to be
    a strict total one, and a set listed in such an order has each member at its place
    (`Enumerated`). `WindowIsDays` says that comparing with `window_bound`'s day
    bounds is the window the caller means, for days and instants on either side;
  - each answer is `Sound`: a reason for having nothing, or a page of that list whose rows
    show the ids and ranks of its entries, whose `has_more` is right and whose
    `synced_at` is that of the account it was read from (`AnswerSound`, one lemma
    per tool, through cleaning, the cap and `run_guarded`);
  - `WalkInv`: what the client has read is the first rows of the list of the account the
    stamp names. It is inductive and `WalkWhole` is not: that one speaks of finished
    walks only, and a page adds the right rows only to what was rightly read of the same
    account. `TakeReads` is the step: a page taken with the stamp of the last one
    extends the same list, a page with another stamp is not taken (`StartOver`). Since
    these answers are never trimmed (`NeverTrimmed`), a page too large is halved from
    the first page on. Hence `PlainWalksWhole`;
  - `PageInv`: every answer is one to the page that was asked for, wherever the client
    began and whether or not that page exists. `PageRead` is what follows for an answer with
    rows: it is `Proper` (its rows, status and pagination are those of the page) and it
    `Says` of each row what the row of the store says, through cleaning. From it,
    for answers that are not withheld: `PlainPagesHonest` (`PageLength` counts a page,
    `Counted` the list), `PlainDiscloses` (`OnlyInverted` and `InvertedIsEmpty`: exactly
    the windows in which no moment lies are called invalid) and `PlainDecodes` (`SkillsTold`:
    each entry told is a stage of its operator that no unlocked one replaces).

  And of every tool, stages, drops, banners and search among them:
  - `ShallowestFits`: the bisection of the shed loop returns a depth that fits, or none, and
    the least one when deeper is never larger. Its recursive function is shown to have a
    value at every interval (`Bisection`, a least interval without one by `LeastNat`), so
    nothing rests on `CHOOSE`;
  - what a step of a plan comes to (`Spent`: the answer as it was, or one of its cuts), what
    each cut leaves (`CutImage`, `CutRefs`, `CutRows`) and what two steps of a plan leave
    (`TwoSteps`, `StepKeeps`): page blocks as they were, lists no longer, each trim with as
    many rows kept as it says, and fewer than there were;
  - `Usable`: an answer that is not withheld fits, recommends no page size but a smaller
    one from 1 on, has more pages only before some row n, and names the account it was read
    from. One lemma per tool (`StageUsable`, `BannersUsable`, `ItemDropsUsable`, ...,
    `AnswerUsable`); n is the length of the list, for every account one bound (`AllUsable`,
    by `OneBound`). `PageInv` needs it: a page size stays positive only because what a
    trim recommends is. Hence `AnswersUsable`;
  - `WalkProgress`: each step lowers, in this order, failures and syncs that are left
    (`Trouble`), the rows of a replaced roster the client has or is about to take
    (`Detour`), the page size, the rows left and the calls left (`Nearer`), all natural
    numbers (`Distances`). `Resync` alone causes a detour (`NoDetour`) and `StartOver`
    ends it (`DetourEnds`): an answer names the account that is stored when it is asked for,
    so a client does not start over twice for one sync. So no walk runs in circles, for any
    databases; that it goes on at all, the rest of `WalkEnds`, is fairness and left to TLC.

  `AnswersAssumption` says what the schema and the parser keep: finitely many rows, ids
  unique on a server (`UNIQUE (server, game_id)`), stages with keys that are numbers, base
  skills with a key of slot and stage, dates and rarities that are numbers or null, null
  being none of the values it stands beside, accounts in the order they were synced, pages
  and sizes from 1 (`PageParams`); a client gives up after some number of failures.

Only model-checked:

- `WalkWhole`, `Disclosed`, `Decodes` and, beyond `AnswersUsable`, `HonestPage` of the
  other lists: those are digested, merged or ranked by folds over their rows, each of
  which needs an argument like the one for `Tally`. That a trim is the least that fits
  (`NoRoomFor`) also needs that a list cut further is never larger;
- `HonestPage`, `Disclosed` and `Decodes` of answers withheld because even one row
  does not fit: those hold no row of the list;
- liveness (`ReaderConnects`, `TimeoutFreesSlot`, `RunEnds`, `WalkEnds`), which needs
  fairness and ENABLED; of `WalkEnds` the descending measure is proved (`WalkProgress`).
  TLC cannot evaluate the measure: its bound on rows is a choice over all pages.

No module declares a RECURSIVE operator.

## 5. Abstractions, and what is not modelled

- A build is what `_content_hash` tells apart. SQLite itself, hashing and TOML or
  JSON text are taken to work. `os.replace` and `unlink` are atomic and survive a
  crash (`atomic.py` syncs the file and its directory).
- Validation is a verdict. A failing build, failing ride-along core and failing
  validation all end a run in the same way.
- Time in the limiter is discrete, with any number of ticks to a second.
- The SDK's session manager is external: it may start a response, finish, or hang.
- `Fetch`: an attempt is two steps of its thread, the head of a reply and its body;
  bytes are counted as accepted or refused by the budget, files are model values.
- `Importers`: a row is its key, its references, its provenance and the columns a
  property tells apart. Left out: motion backfill, faction and subclass names,
  alias text, the seeding of `data_sources`, a crash during a build (the candidate
  is a temporary file), the smoke query of the full-text index. Which sources
  are enabled is `SourceAdmin`'s; here it is a constant.
- `Account`: one step per statement that another process can observe. The second
  granularity of `snapshot_id` and the SQLite URL that tests use are left out.
- `Envelope`: sizes count fields, limitations and provenance rows, not bytes. Ratios
  are compared by cross-multiplication. Texts are numbers, ordered as the code
  orders them.
- `SearchView`: the full-text engine is external: a document holds words, a token
  stands for the words it begins, and the score is the constant `Bm25`. Builds
  older than event names, and servers the input model refuses, are left out.
- `Answers`: the server does not restart onto another build between two pages.

Not modelled, and why:

- Token verification: `verify` keeps no state; the key cache is the library's.
  `RemoteStack` has its two outcomes.
- Configuration, diagnostics, the CLI's parsing: reading and printing; their values are
  the modules' constants.
- `get_operator`, `get_enemy`, `compare_operator_modules`, `analyze_stage`: each
  copies or compares fields of one entity in one answer, without state, paging
  or order; a model would restate the copies.
- The drawing of the SVG (only its size and presence count), tool registration and
  resources, which are fixed texts, and `mcp/cap_pressure.py`, test frames.

## 6. Plan

Done, in this order: `BuildStore` with `ActiveBuild`, `RateLimit` with `RemoteStack`,
`SourceAdmin`, `Fetch`, `ImportPipeline`, `Account`, `Answers` with its views; the
proofs of section 4. What is left, in order of importance:

1. Proofs for `Answers`: that the lists with a shed plan, and the merged ones, are
   whole too, on top of `Usable` and `ShallowestFits`.
2. Composing `ImportPipeline` with `SourceAdmin`'s build step, so that the rows a
   promotion brings in are those of its importers.
3. Pages read from a server that is restarted onto another build.
