# smman: a verification development

smman (Syslog Message MANager, version 2.0.2) is a daemon that watches log
files, matches every new line against rules, and stores the lines in an
ElasticSearch database as JSON documents over HTTP. It is one process on the
EFL main loop: timers, jobs, events and the callbacks of worker threads.
This directory holds TLA+ models of its parts, TLC runs that check them on
small instances, and proofs checked by TLAPS. Paths below are relative to
`src/src/`, the sources of the program.

## 1. The system

| part | sources | state | operations |
|---|---|---|---|
| libspy | `lib/spy` | per file: the size read so far, running and pause flags, the read in progress, the buffered beginning of a line; per spy: the list of its files | `spy_file_new/free/pause/resume`, the poll of a timer, the reading thread, the events with the lines |
| libstore | `lib/store` | per request: connection, answer, callbacks, two event handlers | `store_add`, the data and complete handlers, `store_add_free` |
| librules | `lib/rules` | the list of loaded rules, one structure per listing and per rule being read | `rules_load`, the callbacks of the listing and of each rule, `rules_purge` |
| libconf | `lib/conf` | the variables of one file being read | `conf_load`, the parser in a thread, its two ends |
| filters | `bin/filter.c` | the filters: a spied file and the rules for it | `filter_reload` on SIGUSR1, `filter_load`, `filter_load_done`, `filter_load_error` |
| matching | `bin/log.c` | none between two lines | `log_line_event`: match, merge the fields of the rules, send or drop |
| startup | `bin/main.c`, `bin/config.c` | the configuration, the store | four inits, `conf_load` and `rules_load` at once, the main loop |
| counts | `*_init`, `*_shutdown` of the four libraries | a count per library | init of the EFL modules below, undone on failure |
| helpers | `bin/utils.c`, `lib/store/store_utils.c`, `lib/extras/cJSON.c` | none | formatting |

### How the parts interact

- **smman and librules.** `main` and SIGUSR1 call `rules_load`. A thread of Eio
  lists the directory; for each file `rules_load_ls` runs on the main loop and
  gives the file to `conf_load`, which reads and parses it in a thread of its
  own; its end, on the main loop, makes a `Rule` and calls `filter_load`. The
  end of the listing calls `filter_load_done`. Nothing orders the end of the
  listing and the ends of the readings.
- **smman and libspy.** `filter_load` makes a `Spy_File` for each new path;
  `filter_reload` pauses all of them, `filter_load_done` resumes or frees them.
  libspy answers with `SPY_EVENT_LINE`, one event per line.
- **smman and libstore.** `log_line_event` sends what the rules do not delete
  with `store_add` and does not look at its result; one of two callbacks comes
  later and only logs.
- **libspy inside.** The timer and a job poll; a poll starts one thread; the
  thread reads, cuts the bytes into lines and asks the main loop for a call per
  line; the call queues an event; the end of the thread is a call too, which
  queues the job.
- **libstore inside.** Every handler sees the events of every request and knows
  its own by the address of its `Store_Add`.

### What is hard about it, and what makes it correct

- *Threads.* A reading thread shares all of `sf->read` and `poll.size` with the
  main loop, with no lock; `poll.running` is the only guard. Correct: one owner
  at a time.
- *A file that others change.* Between the `stat` on the main loop and the
  `pread` in the thread the log may grow, shrink, vanish or be replaced.
  Correct: nothing is reported twice or out of order, no complete line is lost
  from a file that only grows, and the spy catches up.
- *Failures.* `ecore_thread_run`, `open`, `pread`, `calloc`, each of the five
  steps of `store_add`, the listing and the reading of a rule may fail. Correct:
  what was taken is given back, and work goes on.
- *Order.* The ends of the listing and of the readings come in any order, and a
  second reload may start in the middle. Correct: one spy per file, no file left
  paused, no freed rule in use, and in the end every rule at its files.
- *Hashes.* The variables of a file and the rules of a filter come in the order
  of a hash, and a rule that deletes ends the loop. Correct: a line fares as the
  rule files say.
- *Pointers into a map.* Empty lines, `\r`, `\0`, a second `=`. Correct: each line
  of a configuration file is taken for what it says, and the loop ends.
- *The whole.* Lines come while the configuration loads and the rules reload.
  Correct: no line is read twice, or sent although a loaded rule deletes it, and
  each is handled in the end.
- *Counts.* Four libraries count their inits, one of them inside another, over
  modules that count theirs; `main` does not look at what failed. Correct: the
  counts balance, and nobody takes away what another still holds.
- *Addresses.* A `Store_Add` freed by its callback leaves its address to the
  next request. Correct: one callback per request, with its own answer.

The list in `PROJECT.json` under `hazards` gives each of these with its line.

## 2. The modules

| module | models | composed with |
|---|---|---|
| `LineFeed` | what libspy promises for one growing file | - |
| `SpyFile` | libspy on one file, the file, the pool of threads | implements `LineFeed` |
| `StorePromise` | what libstore promises to callers of `store_add` | - |
| `Store` | libstore: several requests, one event queue, reused addresses | implements `StorePromise` |
| `Reload` | librules, the loading half of libconf, the filters and the list of a Spy | - |
| `ConfParse` | the parser of libconf, on any file | - |
| `LogVerdict` | what the rule files promise of a line | - |
| `LogMatch` | from a rule file to the fate of a line: `rules_load_rule`, `log_line_event` | implements `LogVerdict` |
| `Lines` | the whole daemon, by the line: configuration, rules, filters, reading threads, events, `log_line_event` | extends `Reload` |
| `InitCount` | the init and shutdown functions of the four libraries, over the counts of EFL, with any client | - |
| `Main` | `main.c`, one such client | extends `InitCount`, implements its specification |
| `SpyFileProofs`, `SpyFeedProofs` | proofs about `SpyFile`; that it implements `LineFeed` | |
| `ReloadProofs`, `LinesProofs` | proofs about `Reload`; about `Lines`, on top of these | |
| `StoreProofs` | proofs about `Store` | |
| `MainProofs` | proofs about `InitCount`, and about `Main` | |
| `ConfParseProofs`, `LogMatchProofs` | proofs about `ConfParse` and `LogMatch` | |
| `MCSpyFile`, `MCStore`, `MCReload`, `MCConfParse`, `MCLogMatch`, `MCLines` | values and symmetry for TLC | |

### SpyFile

`pollSize`, `pollRunning`, `pollPause` are `sf->poll`; `readOffset`,
`readLength`, `readNbr`, `readBuf`, `readError` are `sf->read`. `pc` says what a
worker thread does for this file: nothing, about to open and read, extracting
lines. `calls` is the queue of `ecore_main_loop_thread_safe_call_async` and of
the ends of threads, `events` the event queue of Ecore. `lines` remembers every
`Spy_Line` allocated and `delivered` those the handlers were given.

A byte in a buffer or a line is a reference `<<incarnation, position>>` to the
file on `disk`: each truncation or creation starts an incarnation. The handlers'
view is thus exact without strings, and "twice" or "out of order" can be said.

- `TimerPoll`, `JobPoll` are `spy_file_poll`: one `stat`, the early returns
  (`NothingToDo`), the reset after a truncation (`StartOffset`,
  `PollTruncatedToNothing`), the start of a thread and its failure.
- `ReadChunk`, `ReadFails` are the open, seek and read of `_spy_file_cb`. The
  thread reads what is there when it reads, not what the `stat` saw.
- `SkipNewline`, `PostLine`, `NoMemory`, `ReadDone` are the loop of
  `_spy_file_line_extract`, one action per iteration, since the main loop runs
  in between. `NewlineAt` follows `strchr`: a NUL byte hides all that follows.
- `LineCall`, `EndCall`, `LineEvent` are `_spy_file_event`, `_spy_file_end_cb`
  and the handlers of the event; `Pause`, `Resume` the two functions.
- `WriteByte`, `Truncate`, `Remove`, `Create` are the world outside.

### Store

`pointer` is the data pointer of a connection, `owner` says whose `Store_Add`
lies at an address, `buf` its buffer, `handlers` the registered handlers, `held`
the allocations not yet freed. `StoreAdd` succeeds; `StoreAddFails` fails at any
of its six steps and runs the labels of the `goto`. `DataArrives` and
`ConnectionEnds` are Ecore_Con, which ends every connection with one complete
event, at the latest by the 10 s timeout `store_add` sets. `EventData` and
`EventComplete` run *all* registered handlers on one event, as Ecore does.

### Reload

`listing` has one entry per call of `rules_load` (a `Rules_Load`), `reading` the
`Rule_Load`s whose file libconf reads, `rules` is `rules->rules`, `filter` every
`Filter` ever allocated, and `filters` the list, which stands for
`smman->filters` and for `spy->files`: both are appended to, and lose their head,
in the same steps. A rule is known by the load and the file it comes from; its
content is the set of log files its glob matches and whether its regular
expressions compile.

`filter_load_done` and `spy_file_free` remove the *head* of their list where they
mean the element at hand. The model does the same, so a freed filter may stay in
the list and a filter at work may fall off it. From there on a walk of the list
may touch freed memory; such a step sets `undefined` and nothing more is said of
the behaviour. `FindUsesFreed` and `DoneUsesFreed` are the walks that do.

### ConfParse

One behaviour per file: `text` is the map, `s` the cursor, `variables` what
`conf_load_line_parse` has put in the hash, each string named by its place in the
file. `NoNewline`, `EmptyLine` and `NextLine` are the three ways through the body
of the loop, `EndOfMap` is the call back in the main loop. `IsLine` and `Said`,
which the property compares it with, know nothing of a cursor: a line has no
`\0` in it, stands between a newline (or `\0`, or the beginning) and a newline,
and says what stands around its first `=`. A last line without a newline is none.
`strchr` is taken to end at the end of the map: the pages behind the end of a
mapped file read as `\0`, unless the file fills its last page.

### LogMatch

`conf` gives for each rule file the values of each variable in it; `LoadRule` and
`DropRule` are `rules_load_rule`, where a variable given twice has either value,
as the hash decides. `log_line_event` is `LineEvent`, one `ApplyRule` per
iteration of its loop, in any order, and `LogEnd`; `todo` is the iterator, `log`
the `Log`. All this is the main loop, so `LoadRule` waits while `busy`. All the
files are about one log file: which filter a rule goes to is in `Reload`.
`LogVerdict` has no rules in memory, no order and no loop. It decides a line in
one step from the text of the files that have arrived.

### Lines

`Lines` adds to `Reload` what its filters are there for. A step of `Reload` is a
step of `Lines` (`Reloads`), and gives each new filter its `Spy_File` in `spied`:
where it began, how many of the lines are behind it, and what its thread does.
`written` holds every line put in any log file; `line` every `Spy_Line`, with
where it is: asked for as a call, an event, dropped, or given to `store_add`.
`calls` and `events` are the queues of `SpyFile`, shared by all the files.

- `ConfigDone`, `ConfigError` are `config.c`. There is no fairness for them: if
  `conf_load` finds no file, neither ever comes, and nobody is told.
- `TimerPoll`, `JobPoll`, `Read`, `LineCall`, `EndCall` are those of `SpyFile`, with
  whole lines and without rotation and failing reads. One step of `Read` hands
  over all the lines of a chunk: the main loop takes them one by one anyway.
- `LineEvent` is `log_line_event`: the rules the filter has now, the deletion, and
  `_log_send`, which needs a host and a store and asks for neither.

`spy_file_free` deletes the timer, but not the job, the thread, its end or the
events of a `Spy_File`. Each of these then works on freed memory: `Crash` ends the
behaviour with `undefined`, and so do the missing host, store and server.

### InitCount and Main

`count` is the static count of each library, `op` the function that is running,
`at` how many of its `Steps` stand, `efl` the counts inside EFL, `domains` the
registered log domains. `Enter` and `Leave` are the first lines of each init and
shutdown; then one action per step: `InitStep`, `InitFails` and `Unwind`, which is
both the `goto` labels and the shutdown, since they undo the same steps in the
same order. `rules_init` calls `conf_init` as its last step: while libconf runs,
librules waits (`Runs`), and a failure is handed over (`UndoDone`).

The client of `InitCount` may do anything but shut down what it does not hold.
`held` and `own` are what it counts on: an init that failed is not held. `Main`
is such a client with a program: `Calls` is what `main` does, in order, `next`
where it is. An init that fails does not stop it; a wrong option or a failed
`init()` makes it return early (`ReturnEarly`), with everything still up.

## 3. The runs

| run | instance | shows |
|---|---|---|
| `SpyRotation` | one text byte, lines up to 3 bytes, 2 incarnations, 2 threads, 1 fault of any kind; 1.05 M states | `TypeOK`, `OneReader`, `InOrderOnce`; `FeedSafety`: until the file is first truncated or removed libspy implements `LineFeed` |
| `SpyLive` | 3 bytes, 2 incarnations, 1 failing read, fair; 0.86 M states | `NothingHeldBack`, `CatchesUp`, `FeedLiveness` |
| `SpyGlued` | expected violation | `NoGluedLine` fails |
| `SpyThreadLost` | expected violation, fair | `EveryLineReported` fails |
| `Store` | 3 requests, 2 addresses, 2 codes, answers of up to 2 blocks, fair; 0.13 M states | `TypeOK`, `NoStaleHandler`, `OnlySentLeft`, `PromiseSafety`, `PromiseLiveness` |
| `Reload` | 3 rule files (two share a log file, one is broken), 1 subdirectory, 3 log files (one unreadable), 2 loads, 1 change of the directory, all faults, fair; 77 k states | `TypeOK`, `OneSpy`, `PausedOnlyWhileListing`, `RulesAlive`, `RulesReach`, `RulesArrive` |
| `ConfParse` | all files of up to 5 bytes over 7: another byte, blank, newline, `\0`, `\r`, `=`, `#`; fair; 0.12 M states | `TypeOK`, `AsWritten`, `Ends` |
| `LogMatch` | all pairs of rule files of up to 3 values over 2 expressions (one broken), 1 tag, 2 hosts, 1 path, `delete`; 3 results of `regexec`; 2.4 M states | `TypeOK`, `AsTheRulesSay`: `LogMatch` implements `LogVerdict` |
| `ReloadStaysListed` | 2 loads, no change of the directory; expected violation | `FreedLeavesList` fails |
| `Main` | `main`, every step of every init may fail; 1391 states | `CountTypeOK`, `Balanced`, `UpWhileHeld`, `CleanExit`; `CallsAreLegal`: `Main` implements `CountSpec` |
| `Lines` | 1 rule file, which deletes one kind of line of both of 2 log files, 2 loads, 2 lines of 2 kinds, failing loads of rules and configuration, fair; 0.21 M states | `LineTypeOK`, `ReadOnce`, `DefinedOnceConfigured`, `DeletedNotSent`, `LinesHandled` |
| `LineHost` | a server but no host, 1 load, 1 line, nothing fails; expected violation | `HostOptional` fails |

### Why the bounds are enough

- *SpyFile.* Three bytes hold an empty line, a line, and the beginning of the
  next; the second incarnation is where every confusion between an old and a new
  file shows; a second thread in the pool is what a second reader would need.
  Three bytes also let a line be split over reads, with a failure in between;
  `FeedSafety` is proved for every length and any number of failures.
  `NothingHeldBack` runs without failing allocations, and is proved without them:
  after one, a line does stay in the buffer until the file changes (`NoMemory`; `FeedSafety` shows it is then reported in order). NUL is
  not in `Text` in any run: a log with NUL bytes is stuck for ever, and no
  document promises otherwise. The proofs below have none of these bounds.
- *Store.* Three requests over two addresses: one is always made at an address
  that another gave up while events of a third are queued. Two blocks can be
  interleaved with those of another request.
- *Reload.* Two loads are the first overlap; two rules with a common file are
  what makes a filter shared; two filters in the list, one of them emptied, are
  all it takes for the wrong one to be removed. The safety part is proved for
  any number of loads, rules and files.

- *Main, InitCount.* `main` holds each library once. The proofs about `InitCount`
  let a client hold any number of inits.
- *Lines.* Two lines: one on its way while the next is written, and read by the
  job the first one's thread left. Two files: the wrong filter is freed. The
  directory does not change, but a `filter_load_done` that comes before the rules
  frees filters all the same, and they are made again. That several rules share
  a file is in `Reload`, that several match a line in `LogMatch`. With two files
  `filter_load_done` never walks into a filter it has freed itself; with three it
  may (see `LinesProofs`). The safety part is proved for any number of files,
  rules, lines and loads.

- *ConfParse.* Five bytes hold `a=a\r\n`, and two lines with something between.
- *LogMatch.* Three values are a condition of each kind and `delete`, or two
  values of one variable and a condition; two rules are what one can overwrite or
  hide of another. The proofs have none of these bounds, nor those of `ConfParse`.

### Fairness

- *SpyFile.* The timer goes on firing (`ECORE_CALLBACK_RENEW`), the main loop
  drains its two queues, a started thread runs to its end. Nothing is assumed of
  the writers, of faults, or of whoever pauses; a property that needs the file
  to be left unpaused says so.
- *Store.* Each connection ends, because of `ecore_con_url_timeout_set`, and the
  main loop handles its events.
- *Reload.* Each listing goes on, and some reading ends as long as there is one:
  Eio's threads end. A change of the directory or SIGUSR1 need not happen.
- *ConfParse.* Eio's thread runs on, and the main loop calls back.
- *Lines.* As in `Reload` and `SpyFile`: timers fire, threads end, the queues are
  drained. Nothing is assumed of `conf_load`, of the writers or of SIGUSR1.

All fairness is weak: no step is assumed that does not stay possible.

### What the violations say

1. **`SpyGlued`** (`spy_file.c:246`). After a truncation `poll.size` is reset but
   the buffer is not: the beginning of a line of the old content is reported in
   front of the first line of the new one. The documentation says that libspy
   resets its internals.
2. **`SpyThreadLost`** (`spy_file.c:267`). `poll.running` is set before
   `ecore_thread_run`, and not cleared when it fails: the file is never read
   again.
3. **`ReloadStaysListed`** (`spy_main.c:74`, `filter.c:135`). The wrong element is
   taken off the list.
4. **`LineHost`** (`log.c:75`). The host is called optional, with the name of the
   machine in its place, but nothing asks for that name: without a host, and
   without a rule that gives one, the first line to be sent passes a null string
   to cJSON, which takes its length. With a host the same instance is fine
   (`DefinedOnceConfigured`).

Two more disagreements have no run of their own. `store_add_free` does not free
the copy of the document (`data.sent`, `store_main.c:95`): in `OnlySentLeft`, which
is proved, it is the one thing that may be left. And `rules_load` calls its done
callback "when loading is over" (`rules_main.c:87`), but `rules_load_ls_done` runs
when the *listing* is over: `filter_load_done` then frees filters whose rules are
still being read. They come back when the rule arrives (`RulesArrive`), spying
from the end the file has by then.

## 4. The proofs

All theorems hold for every value of the constants, under the named assumptions
`SpyAssumption`, `StoreAssumption`, `ReloadAssumption`, `ConfAssumption`,
`MatchAssumption`, `LinesAssumption` and `CountAssumption` alone, which TLC
evaluates in the runs. One theorem, `NothingHeldBackAlways`, has two more
hypotheses.

### SpyFileProofs: `TypeCorrect`, `OneReaderAlways`, `InOrderOnceAlways`, `NothingHeldBackAlways`

`TypeInv == TypeOK /\ Ownership`, where `Ownership` is `OneReader` and "only a
thread that has read something extracts". The two need each other: that
`pollSize + readNbr` is a size rests on a failed read never reaching
`ReturnFromThread`, and on no second reader moving `pollSize`.

`InOrderOnce` only speaks of lines and deliveries. The inductive invariant adds

- `Placed`: everything read lies before the *cursor* (`pollSize`, plus the bytes
  just read while lines are extracted), and if anything of the current
  incarnation has been read the cursor is inside the file. This is why starting
  over at 0 when the file looks shorter cannot repeat a byte: shorter means a
  new incarnation of which nothing was read.
- `Ordered`: the buffer and each line go forward, each line before the next and
  before the buffer.
- `InFlight`: the lines allocated and not yet delivered are in the events, then
  in the calls, each once, in order.

`NothingHeldBack` is proved if no writer puts a NUL byte in the file and no
`Spy_Line` is refused: TLC refutes it without either hypothesis. All other faults,
truncations and removals stay. `BufferInv` says that each byte in the buffer is one
of a file that is or was on disk, and that there is no newline among them unless a
thread is extracting lines. `strchr` then sees them all, and the thread stops only
when none is left. That there is a *first* newline for `strchr` to find is
`LeastOf`, proved by counting, since a proof by induction is out of reach.

### SpyFeedProofs: `FeedRefinement`

`Spec => FeedSafety`, for any number of truncations and removals: as long as there
was none, every step of `SpyFile` is a step of `LineFeed` or leaves its variables
alone. `Growing` says that there was none yet; under it the invariant adds
that the buffer is exactly the text between the last extracted position and the
cursor, that only newlines lie between the last line and the buffer, and that
each line is the next line of the text. Once `Growing` is false it stays so
(`StillGrowing`). `LineEvent` is the step that maps to `Report`, `WriteByte` to
`Write`.

### ReloadProofs: `OneSpyAlways`, `PausedAlways`, `RulesAliveAlways`, `RulesReachAlways`, `ReloadTypes`

That a file is never spied twice is not obvious: `filter_load_done` takes live
filters off the list, and `filter_load` looks for a filter in the list only. The
inductive invariant has

- `Distinct`: the list names no filter twice;
- `NoneLost`: if every filter in the list is live, every live filter is in it.

The lemma `EmptiedFacts` is the heart: `filter_load_done` takes as many heads as
it frees filters, so if one of these heads was not to be freed, one of the freed
filters is behind them and stays. So a lost filter always comes with a freed one
in the list; to make a *new* filter, or to reload, the code walks the whole list
and meets it. The same invariant gives `RulesAlive`: whenever `rules_purge` runs
in a defined state, every live filter is in the list and is emptied.

`RulesReach` has an invariant of its own, `OnePerFile`: the list never names two
filters of one file, freed ones included. So no freed filter hides behind
another of its path, where the walk of `_filter_find` would not meet it, and the
filter that gets the rule is live. `filter_load_done` frees no filter that has rules, and
what it takes off the list goes on spying with its rules; only `filter_reload`
takes rules away, all of them.

### ConfParseProofs: `ParsesAsWritten`, `ParseTypes`

`AsWritten` is not inductive: it says nothing of a line the cursor stands in the
middle of. `AtLineStart` adds that it stands behind a newline or a `\0`, or that no
newline can be reached any more. Then the next newline ends exactly one line
(`OneLinePassed`), which begins at the cursor; cutting off its `\r` changes nothing
(`CarriageReturn`), and what is taken of it is what it says (`ParseIsSaid`).

### LogMatchProofs: `RulesDecide`, `MatchTypes`

Steps between `LineEvent` and `LogEnd` are invisible in `LogVerdict`, so the
invariant says what they have gathered: `Faithful` (a rule in memory is one its
file may become) and `LogSoFar` (the `Log` holds what those of the applied rules
say that are about the line, and nothing deletes, unless one of them does).
`ApplyKeeps` is its step; at `LogEnd` all rules were applied (`EndDecides`).

### StoreProofs: `StoreTypes`, `NoStaleHandlerAlways`, `OnlySentLeftAlways`, `StoreKeepsPromise`

An event is meant for whoever lies at its address *when it is handled*. The
promise is kept if that is whom it was queued for, with all of its answer:
`NoStaleHandler` says the first, `Queued` that the buffer of a pending request is
the beginning of its reply and its queued blocks are the rest, in order, `Ended`
that a complete event is the last of its request, and `Quiet` that the blocks of a
reply are numbered and a request not made yet has none. `CompleteStep` is the step
at which the promise is kept.

### MainProofs: `CountTypes`, `BalancedAlways`, `UpWhileHeldAlways`; `MainCallsLegally`, `MainBalanced`, `CleanExitAlways`

`Balanced` speaks of the moments between two calls. The invariant says it of
every step of every function: `EflCounts` (each count of EFL is what the client
holds plus the libraries that have *that step* standing), `Domains` likewise,
`Owners` (the count of a library is what is held of it, by librules too),
`Standing` (which counts and steps go with each state of a function) and `Nested`
(two functions run at once only if libconf works inside librules).

`MainCallsLegally` is the step simulation: each step of `main` is one of
`InitCount`. A shutdown of what is not held must find the count at 0, which follows
from the invariant above (`RestingFacts`) for every library but libconf, and for
libconf because `main` shuts librules down first: `Holds` says what `main` may hold
at each of its calls. `MainBalanced` then takes over what is proved of every
client, and at the end of `Calls` nothing is held, so `CleanExitAlways` follows.

### LinesProofs: `LineTypes`, `ReadOnceAlways`, `DefinedAlways`, `DeletedNeverSent`

A step of `Lines` that is a step of `Reload` keeps what `ReloadProofs` proves; the
others leave its variables alone. `LinesInv` adds

- `Spans`: the positions of each `Spy_File` lie in order within what is written;
- `FromSpied`: each `Spy_Line` was read between where its `Spy_File` began and
  where it is, from its file;
- `Succession`: of two filters ever made for a file, the earlier one is freed, and
  had stopped reading where the later one began, or before. It rests on `OneSpy`:
  a filter is only made when no live one has its path, and a freed one does not read;
- `Readable`: no filter is ever made for a file that cannot be read, so `filter_load`
  starts each new one at the end its file has.

`DeletedNotSent` is about the step of `log_line_event`: the `Spy_File` whose line it
handles is live, `OneSpy` makes it the one at work on that file, and by `RulesReach`
its filter holds every loaded rule that names the file.

`DefinedOnceConfigured` used to say that only freed memory met by `filter_load`, a
reload, or what a `Spy_File` left behind brings a configured smman down. The proof
did not go through: `filter_load_done` itself may meet a filter it freed a moment
before, and leave through `DoneUsesFreed`. This takes three filters, so the two log
files of the run do not show it. The property now names that way too.

### Only model-checked

The liveness properties (`CatchesUp`, `FeedLiveness`, `PromiseLiveness`,
`RulesArrive`, `Ends`, `LinesHandled`): liveness under fairness is beyond the
prover. Every other property of a passing run is stated by a theorem.

## 5. What is not modelled

- The content of lines, JSON, HTTP addresses, dates: formatting.
- cJSON: third-party code copied into the tree.
- The EFL, as far as the sources do not show it: its callbacks are taken to come
  as its documentation and the use in the sources say.
- What happens after freed memory was used.
- Which host wins if several rules give one, beyond that it is one of theirs:
  the order of a hash.
- What happens after a null pointer was used: `Lines` ends there.
- `spy_free`, `spy_file_get`, `store_free`, `store_data_set/get`: nothing calls them.
- The failure of allocations outside of libspy's reading and `store_add`: most of
  the code does not look at it.
- The answer of the store, in `Lines`: `log.c` only writes it to its log.

## 6. The plan

In the order of importance; all of them are done.

1. `SpyFile` with `LineFeed`, and their proofs.
2. `Store` with `StorePromise`, and their proofs.
3. `Reload`, and its proofs.
4. `ConfParse`, `LogMatch` with `LogVerdict`, and their proofs.
5. `Lines`: the composition of spied files, filters, rules, configuration and
   store around `log_line_event`.
6. `InitCount` and its proofs: the counts of the four libraries and of the EFL
   modules, with every failing step.
7. `Main`: the program that uses them.
8. Theorems about `Lines`, and that `Main` implements `CountSpec`.
