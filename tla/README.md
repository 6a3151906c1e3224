# A formal model of `notes`

`notes` is a command-line tool that keeps an archive of Markdown files,
`root/YYYY/MM/YYYYMMDD_id[_slug][.type].md`, next to an `id.json` with the last
ID given out. There is no server and no database: every command is a process of
its own that lists directories, reads, renames, writes and removes files, and
the archive may be synchronised by any other tool. Only the allocation of an ID
is under a lock. The interesting behaviour is therefore what overlapping
commands, failing system calls and dying processes make of the files.

## Inventory

| Component | State | Operations | What makes it correct |
|---|---|---|---|
| ID allocation (`note/id.go`, `id_unix.go`, `fsutil.go`) | `id.json`, `id.json.tmp`, the flock on the root | `NextID` | IDs are unique and increasing whoever fails or dies; `id.json` never tears; nobody keeps the lock |
| File store (`note/os_store.go`) | the note files, their `.tmp` files, the month directories | `Get`, `Put`, `Delete`, `All`, `Find`, `IDs`, `Reconcile` | one file per ID; a note disappears only by `Delete`; text written stays; a scan finds what is there |
| Worker pool of `All` (`readConcurrent`) | a job channel, an error group, the result slice | one call | every file is read once and put at its place; an error stops the pool and nobody blocks |
| Commands `new`, `update`, `append`, `rm`, `read` (`internal/cli`) | an `Entry` between two store calls | one process each | each command has the effect its documentation states |
| `new-todo` and the rollover (`new_todo.go`, `todo.go`) | two notes | `Find`, `Find`, `Put`, `Put` | no pending task is lost or carried twice; one todo per day |
| Atomic writes (`fsutil.go`) | a file and its `.tmp` | `WriteAtomic` | whoever dies or fails, the file holds a whole text |
| Queries (`query.go`, `refMatchesFilename`), `ls`, `resolve`, `new --upsert` | none | filters | the file-name filter never drops an entry the full filter would accept; one note of a type a day |
| Watcher (`watch.go`) | known IDs, pending events, timer, event channel | `Watch`, `Events`, `Close` | events tell a consumer that lists the store afterwards everything that changes |
| `Reconcile` | the caller's map of modification times | one call | the caller's map ends up describing the store |
| In-memory store (`mem_store.go`) | a map under a read-write lock | as the file store | after the same calls it has what the files have |
| `annotate` | an entry during a call of an external program | `Get`, run, merge, `Put` | only empty fields are filled, and nothing else changes |
| Frontmatter codec, names, tags | none | parse, format, extract, merge | what is written is read back |
| Configuration, root command, standard input | none | wiring | - |

Components interact through the files only: commands call the store, `Put`
calls `NextID`, and the watcher hears of files through fsnotify. There is no
shared memory between commands; inside a process only `readConcurrent` and the
watcher have goroutines.

Hard behaviours: the steps of two commands between the same files; a command
that stops half-way, by an error or by dying; a scan that is not atomic; an
`id.json` that is older than the archive; file names and frontmatter that
disagree; debounced, coalesced and bounded event delivery. `PROJECT.json` lists
them under `hazards`, each at its line.

## Modules

| Module | What it is |
|---|---|
| `IdCounter` | abstract: an atomic counter that gives out IDs |
| `IdAlloc` | `NextID`, one action per system call, with failures and crashes |
| `IdAllocProofs` | its theorems |
| `NoteFiles` | names and contents of note files and the conversion to and from an entry |
| `Store` | abstract: what the store promises to one command after another |
| `OSStore` | the commands on the file store, one action per system call |
| `MCOSStore` | its small instances |
| `OSStoreProofs` | its theorems |
| `Watcher` | `runWatch`, one action per branch of its select and per send, with fsnotify, other processes and the consumer |
| `WatcherProofs` | its theorems |
| `ReadPool` | `readConcurrent`: producer, workers, error group |
| `ReadPoolProofs` | its theorems |
| `Reconcile` | `Reconcile` between other processes, and the copy its caller keeps by it |
| `ReconcileProofs` | its theorems |
| `TodoRollover`, `MCTodoRollover` | `new-todo` over several days, and its small instances |
| `TodoRolloverProofs` | its theorems |
| `NoteFormat` | a note file line by line: frontmatter block, hashtags, the entry it stands for |
| `Query` | the filters, `All` and `Find` over such files |
| `MemStore` | the in-memory store |
| `Commands`, `MCCommands` | `new`, `update`, `append`, `annotate` and `rm` between one another, on the files and on the in-memory store, and a small instance |
| `CommandsProofs` | its theorems, and first that what is written is read back |
| `AtomicWrite`, `MCAtomicWrite` | `WriteAtomic`, one action per system call and per cell written, and a small instance |
| `AtomicWriteProofs` | its theorems |

`Commands` extends `MemStore`, that `Query`, and that `NoteFormat`. Each `...Proofs`
module extends the module it proves about, and only proofs extend it, so TLC never
loads one.

### How the modules correspond to the code

`PROJECT.json` maps every definition to its lines. In outline:

- **IdAlloc.** The variables are `id.json`, `id.json.tmp`, the flock and, for each
  call of `NextID`, its next step and its local `last_id`. The steps are the system
  calls in their order: flock, read, open with `O_TRUNC`, write, rename, unlock.
  Every one of them may fail and take the error path of the code, and the process
  may die before any of them. A content is a number, `Absent` or `Torn` (a file
  that was truncated and not written). `ImplementsCounter` says that all of this
  is one atomic increment, at the rename.
- **NoteFiles** is the vocabulary of the store: a path (date, ID, slug), a
  content (what the frontmatter says, the texts of the body), an entry, and
  `frontmatterToMeta`, `metaToFrontmatter`, `AbsPath` between them. The slug
  stands for slug and type, which behave alike here: a copy in the file name, the
  frontmatter wins.
- **OSStore.** A process runs one command: `nextid`, `list` and `scan` are
  `findFileRef` (the list of month directories, then one directory a step), `read`
  is `readEntry`, `mkdir`, `move`, `write`, `commit` are `Put`, `remove` is
  `Delete`. The entry lives in the process between `Get` and `Put`. What `new`,
  `update`, `append`, `rm` and `read` do to it is in `Start`, `Update`,
  `AppendText`, `AfterGet` and `Reread`. `Faults` says what may go wrong: a crash
  at any step, a failing system call, an unreadable month that the scan passes
  over, an `id.json` restored from an older copy. `Serial` lets a command start
  only when none is running.
- **Watcher.** `pc` is where the goroutine is: the scan, the arming of the
  watches, the select, the discovery in a new directory, a flush. `pending` and
  `order` are the maps of `runWatch`, `out` the channel, `armed` the timer. The
  file system is a set of paths; a notice carries a path as an fsnotify event
  does, and is classified by what the files are when it is *handled*. Other
  processes change the store at any moment from the first scan on, and the consumer's
  listing reads one month after the other (`ListMonths`, `ListMonth`) while they do and
  the goroutine goes on. `Gap` says whether there are changes between the scan and the
  watches too. Two histories serve the properties: `strayed`, the notes moved to or
  removed from a month that is not watched yet, and `unheard`, what the consumer has
  listed before the watcher told of it and has received no event of.
- **ReadPool.** One action per thing a goroutine does: hand an index to a
  worker that receives, read and store, fail and end, see the channel closed. The
  error group keeps the first error and cancels in one step, as its `sync.Once`
  does.
- **Reconcile.** A pass is a scan and then, for each file, a stat, and for one whose
  time is not the known one the read and the second stat of `readEntry`. A version
  of a note is a text and a modification time; `copy` is what the caller has, its
  `known` map with the texts. Between any two steps a note may be written, renamed,
  touched, removed, or put back in an earlier version with its earlier time. `slips`
  records what was written between the read and the second stat, which is the way
  `readEntry` pairs a text with a time that is not its own.
- **TodoRollover.** `FindToday`, `FindPrev`, `PutPrev`, `PutNew` are the store
  calls of `new-todo`; `UpdatedLines`, `Carried`, `NewLines` are `RolloverTasks`
  and `FormatTodoContent` on sequences of task lines. `LocalDay` is the date of a
  file name after its way through `time.Parse` (midnight UTC) and `sameDay`
  (local time).
- **NoteFormat.** A file is a sequence of lines: a delimiter, a blank line, a fence, a
  mapping (one line with the values of all its keys), or a text line with its hashtags.
  `FormatNote`, `HasBlock`, `FrontmatterEnd`, `BodyStart` and `Malformed` are
  `FormatNote` and `frontmatterEnd` on lines, with the optional blank line after the
  block; `ReadEntry` and `WriteEntry` are what `readEntry` and `Put` make of a file and
  of an entry, the name included. A slug stands for slug and type, a title for title
  and description, extra for aliases, the public flag and unknown keys: each pair is
  treated alike by the code.
- **Query.** `RefMatchesFilename` is the filter by name, `Matches` the one by entry;
  `All` and `Found` apply one after the other as `collect` does, a file that does not
  parse makes them fail. `Newer` is the order of both stores.
- **MemStore** is the map and its `max + 1`. `Shown` adds the hashtags, which the
  memory store does not look for, as its comment says.
- **Commands.** A process goes from its command line to `look` (`new --upsert`),
  `create`, `get`, `edit` or `delete`, one call of the store a step, and may fail or
  die before each; `annotate` stays at `edit` for as long as the external program
  takes. The same `Put` goes to `files`, as lines, and to `mem`, as an entry. A `Put`
  that renames may be cut off between the rename and the write (`CutPut`): the name is
  then the new one, the frontmatter the old one, and `halfway` records it until the
  note's next whole `Put`. No other process comes between the two; that is in
  `OSStore`. `overtaken` records, for the properties, whether somebody else has
  changed what a process has looked at.
- **AtomicWrite.** Names lead to inodes and a descriptor keeps its inode, so that a
  call may write to a file another call has renamed into place. A text is a number of
  cells, written one by one at the descriptor's offset; `O_TRUNC` empties the inode
  whoever has it open, and a write beyond its end leaves a hole. `alone`, `latest` and
  `overlap` are recorded for the properties.

## What is checked

| Run | Properties | Shows |
|---|---|---|
| `IdAlloc` | `TypeOK`, `IssuedIncreasing`, `IssuedContiguous`, `IdFileOnlyCounts`, `EveryCallReturns`, `ImplementsCounter` | IDs are unique, given out in order and without a hole unless a call fails or dies; `id.json` is never torn or set back; no call waits for ever; `NextID` is atomic |
| `OSStoreSerial` | `TypeOK`, `OneFilePerId`, `WrittenTextStays`, `FreshId`, `NotFoundMeansMissing`, `ImplementsStore` | commands that do not overlap keep every promise of `Store` whatever fails or dies |
| `OSStoreRaces` | `NoCrossTalk`, `NoteSurvives` | what remains true of overlapping commands with every fault |
| `Watcher` | `TypeOK`, `ViewConverges`, `PendingIsTimed`, `EventsMakeSense`, `EventsDelivered`, `CloseEnds` | whatever changes at whatever moment, a consumer that subscribes and then lists misses no note, and takes for a note besides only what it has listed before the watcher told of it and no event came of; created, updated and deleted alternate as they should for each ID; events arrive, and `Close` ends the goroutine |
| `ReadPool` | `WritesAreApart`, `AllRead`, `ErrorIsOfARead`, `CallReturns` | `All` gets every file in its place or a read's error, without a lock and without a leak |
| `Reconcile` | `QuietPassCatchesUp`, `EventuallyUpToDate` | however passes were disturbed, one pass in quiet makes the caller's copy the store, but for a note whose text changed between its read and the stat after it and whose file has kept that time |
| `TodoRollover` | `OneTodoPerDay`, `OpenTasksOnNewest`, `OpenTasksSurvive`, `OpenOnce`, `NewTodoIsComplete` | the rollover loses and doubles nothing over several days, wherever `new-todo` is cut off except between its two `Put`s; when two of them overlap there may be two todos, and the newest without tasks, but each open task is still open on one of them |
| `Commands` | `TypeOK`, `DoubleAgrees`, `QueriesComplete`, `UntouchedFieldsStay`, `UpsertReuses` | after any commands, overlapping, cut off inside a `Put` or neither, files and in-memory store agree field by field; the queries by file name miss a note only if its own last `Put` was cut off or its type is one a name cannot carry; a command changes only what it is for, of the file as it is, and one that was overtaken of what it has seen; `--upsert` creates only what is not there |
| `AtomicWrite` | `TypeOK`, `WholeUnlessOverlapped`, `LoneCallFindsItsFile` | no failure and no death leaves a torn file; only overlapping calls on one path can, until one writes it alone |

Every property has a mutant, a plausible bug in one mapped definition, under
which its run fails; the mutants stand in the modules under a heading of their
own, and no specification uses them.

### Disagreements between the code and what the repository says of it

Three have a run of their own, in which TLC finds the property violated; they are
listed with the quoted lines under `findings`:

| Run | What happens |
|---|---|
| `OSStoreInterruptedRename` | after a crash between rename and write, `read` fails on a note that exists |
| `WatcherListing` | a note that the consumer's listing has read and that is removed inside the window it was made in gives no event, so the consumer keeps it |
| `TodoWest` | west of UTC today's todo is never found, and each run writes another |

The modules show more of them when a passing configuration is changed by one
constant, or a property stated without its premise. These are limits of the
properties above, to keep in mind when reading them:

| Change | What TLC then finds |
|---|---|
| `Serial = FALSE` in `OSStoreSerial` | two overlapping `append`s lose the text of the one that finished first (`WrittenTextStays`); two overlapping `Put`s leave two files of one ID (`OneFilePerId`); a note that moves to another month during a scan is reported as not found (`NotFoundMeansMissing`) |
| `"idlag"` in `Faults` of `OSStoreSerial` | with an `id.json` older than the archive, `new` is given the ID of an existing note and replaces it (`FreshId`), so that its text is gone (`WrittenTextStays`) |
| `"skip"` in `Faults` of `OSStoreSerial` | a scan passes over a month it cannot read, so that a note that exists is not found (`NotFoundMeansMissing`); where it happens to the scan of `Put` only, an `update` writes a second file of the ID (`OneFilePerId`), and a later `Put` moves the older over the newer (`WrittenTextStays`) |
| `ViewConverges` without `unheard` | what `WatcherListing` shows; and a note written between the watcher's scan and its watches is unknown to the watcher, so that its later removal goes unreported to a consumer that has listed it |
| `ViewConverges` without `strayed` | a note moved into a month directory that is not watched yet is reported deleted, and never again, although it is there; one that is removed from such a directory after the discovery for another has found it (`discoverWatchCreates` walks all of them) is reported created, and stays so (four changes) |
| the properties of `TodoRollover` without `overlap` | two overlapping `new-todo`s write two todos of one day (`OneTodoPerDay`), both with the tasks (`OpenOnce`), or the newer one without them (`OpenTasksOnNewest`), so that the next `new-todo`, which looks at the newest only, does not carry them over |
| `RolloverKeepsTasks` in place of `OpenTasksOnNewest` | `new-todo` dies or fails after it has marked the open tasks as moved and before it writes the new todo: no todo has them any more, and no later run carries them over |
| `QuietPassCatchesUp` without `Slipped` | a note written after `readEntry` has read it and before it asks for its time is told with the old text and the new time, and no later pass reads it again |
| `QueriesComplete` without `InName` in `Listed` | a type with a dot stays out of the file name, so that `ls --type a.b` and `resolve --type a.b` never find the note although its frontmatter has the type (`src/SCHEMA.md:31`: "on mismatch, frontmatter wins") |
| `QueriesComplete` without `halfway` | an update that was cut off after its rename leaves a name that is not the frontmatter's: a query by the type that the frontmatter still has drops the note by its name, and a type the name was given is read back where the frontmatter has none, against the same sentence |
| `DoubleAgrees` and `UpsertReuses` without `halfway` | the same name stands in for a date or a type which the frontmatter does not have: the note has moved to another day or type although the update failed, and `new --upsert` makes a second note beside one whose name it does not find |
| `UntouchedFieldsStay` without `halfway` | of an overtaken update that is cut off, the note has the new name over what another command has written |
| `UpsertReuses` without `slug \in InName` | since such a type is never found, `new --upsert --type a.b` makes another note each time |
| `DoubleAgrees` without `Plain` | a body that begins with a delimiter line, in a note with no metadata, is read back as a frontmatter; if it does not parse as one, the note can be neither read nor removed by a command, and every unfiltered `All` fails (`tags`, `ls --tag`) |
| `UntouchedFieldsStay` without `overtaken` | what another command wrote between `Get` and `Put`, up to a minute apart in `annotate`, is overwritten, and a note removed meanwhile comes back |
| `UpsertReuses` without `overtaken` | two overlapping `new --upsert` make two notes |
| `WholeUnlessOverlapped` without `overlap` | of two calls on one path, one renames what the other has truncated and not yet written, against "so partial writes don't leave a corrupted file behind" (`src/note/fsutil.go:20`) |

One sentence is contradicted without any of that: a deletion and a creation of one
ID in a window become an update (`Coalesce`), where the comment on `Watch` says that
the last event wins. Another is the comparison of tags, which `src/SCHEMA.md:53` calls
case-sensitive and `hasAllTags` makes case-insensitive; `MergedTags` gives them back in
lower case.

### Bounds, and why they are enough

- `IdAlloc`: three callers, one of whom may hold the lock while another waits and
  a third has died with its temporary file left behind; four initial contents of
  each of the two files: zero, another number, missing, torn.
- `OSStore`: one note in one of two months, or with frontmatter that disagrees with
  its name, and the IDs `new` then gives out; three slugs, the empty one among them,
  so that a rename can change month, slug or both; three commands in sequence, or
  two that overlap. Every pair of system calls of two commands then meets in every
  order. A third overlapping command is beyond TLC in minutes. All properties of both
  runs are proved for any number of commands, notes, months and slugs.
- `Watcher`: two IDs, two months, one name in each, a channel of one event (the code
  has `watchBufSize`; one makes every second event of a flush wait) and three changes
  by others, before, during and after the listing: enough for a note to be created,
  changed, moved and removed inside one window, and for two windows. The safety
  properties are proved without the bounds; the run says what the liveness ones rest
  on. `WatcherListing` needs one note, one month and two changes.
- `ReadPool`: four files and three workers, so that workers are busy, idle and
  ended at the same time, and some files are never handed out.
- `Reconcile`: two notes with two names and three changes or failures: one to spoil a
  pass, one to bring back what it saw and one more in the next pass. The
  invariant is proved without the bounds.
- `TodoRollover`: two tasks, one of them daily; a first todo of up to two lines with
  all marks, so that it may hold a task twice; four days, two processes, three runs, so that
  two overlap before or after a third, and two edits. All of it is proved without these
  bounds.
- `Commands`: two processes, two IDs, two days, eight command lines and five queries
  (`MCGiven`, `MCAsked`), chosen so that a file is renamed, re-dated, annotated,
  removed and created again while another command holds its entry; bodies that
  begin with something that parses as a frontmatter and with something that does not;
  a type that a name carries and one that it cannot; a tag in upper and in lower case, in
  the frontmatter, in the body, and behind a fence. Bodies stop growing at five lines
  (`MaxLines`), which is two appends. The store may hold a note to begin with, of
  the one type or the other, or be empty (`MCArchives`), and `last_id` may be ahead
  of it. All of it is proved without these bounds.
- `AtomicWrite`: three calls and four inodes, so that a call can find a leftover, lose
  it to a second and meet a third; texts of one and of two cells, so that one can be
  longer than what it overwrites. Proved without the bounds.

### Fairness

`IdAlloc` assumes that the kernel grants a flock that stays free to a caller that
waits, and that a caller which holds it is run; it assumes neither failures nor
their absence. The number of calls is finite, so no caller can be overtaken for
ever. `Watcher` assumes that the goroutine runs and that its armed timer expires
(weak fairness of `Watch`), and, strongly, that a select with a closed `done`
channel will sometimes choose it: Go picks among the ready cases at random, and
other notices keep coming between. Nothing is assumed of other processes, nor of
the consumer, except in `EventsDelivered`, which says so. `ReadPool` assumes that
the scheduler runs a goroutine that can run, and that a read ends.
`EventuallyUpToDate` assumes a caller that goes on calling `Reconcile`, and says so
itself. `OSStore`,
`TodoRollover`, `Commands` and `AtomicWrite` have safety properties only: their
programs are straight lines with no wait but the flock, and `annotate`'s for a program
of which nothing can be assumed.

`CHECK_DEADLOCK FALSE` stands where the system may stop: all calls returned, all
commands ended, the watcher closed, the bounds used up. `ReadPool`, `Commands` and
`AtomicWrite` keep the deadlock check.

## What is proved

The TLA+ proof system proves these for every value of the constants, that is, for
any number of processes, notes, files and workers. They rest on the `ASSUME`s of the
modules, which give the constants their types and keep the special values apart (TLC
evaluates them in each run). `OSStore` and `TodoRollover` have a constant that says
what the environment does, and some of their theorems have a hypothesis on it. Each
excludes something under which the property is false, as the table of changes above
shows, and is named in the theorem's row:

- `Serial`: commands do not overlap; `"skip" \notin Faults`: a scan can read every
  month directory; `"idlag" \notin Faults`: no older `id.json` comes back. A command
  may still fail at each system call and die before each step.
- `"west" \notin Exposed`: the local time is not behind UTC.

| Theorem | States | Argument |
|---|---|---|
| `IdAllocProofs!TypeCorrect`, `IdsUniqueAndIncreasing`, `IdsContiguousWithoutCrash`, `IdFileCounts` | the invariants and the action property of `IdAlloc` | `IndInv`: the one caller past the lock is its holder; its local value is `id.json` plus one until the rename and `id.json` from then on; every ID issued is below what the holder will write |
| `IdAllocProofs!Refinement` | `Spec => ImplementsCounter` | from `IndInv`, the rename is the abstract `Take`, `ReturnId` is `Return`, a crash after the rename is `Lose`, and everything else stutters |
| `OSStoreProofs!TypeCorrect` | `TypeOK` | by the types of the conversions, then one step per action |
| `OSStoreProofs!NotesSurvive` | `NoteSurvives`, with overlaps and every fault | `Ready`: a process at `remove` is an `rm` and has the file of its own ID, and a process about to rename moves a file to a path of the same ID; so only `remove` reduces the files of an ID to none |
| `OSStoreProofs!TextsInTheirNotes` | `NoCrossTalk`, with overlaps and every fault | `TextInv` adds the temporary files and the entries the processes hold to the note files: a text is only ever in places of the ID it was written for, and each step moves content between places of one ID |
| `OSStoreProofs!NewNotesAreNew` | `FreshId`, with overlaps and every fault but an old `id.json` | `FreshInv`: every ID of a file or of a `Put` under way has been counted, and no two `Put`s under way share the ID of a new note; a command comes to a `Put` of an ID only by taking a new one or by reading a file that has it |
| `OSStoreProofs!OneFile`, `NotFoundIsMissing` | `OneFilePerId`, `NotFoundMeansMissing`, if `Serial` and no month is skipped | `SerialInv`: a scan has found each file of its ID or still has its month to read; what it ended with, a file or none, is still so when the command acts on it; from the rename on, the new path is the only file of the ID; and every file is in a month that the scan lists |
| `OSStoreProofs!WrittenTexts` | `WrittenTextStays`, if `Serial`, without `"skip"` and `"idlag"` | `FitInv` adds `EntryFits`: from `Get` to the end of `Put` the entry a command holds is the note as the file has it, with the command's own change and no more; and `FreshInv`, so that what a `new` writes to is nobody's |
| `OSStoreProofs!Refinement` | `ImplementsStore`, under the same hypotheses | from `FitInv`: the rename of the temporary file is `Create`, `AppendText` or `Rename`, the rename of the note itself is a `Rename` (cut off after it, an update has changed what the file name decides and not the rest), `remove` is `Delete`, `NextID` is `TakeId`, a `new` that fails or dies is `LoseId`, and everything else stutters |
| `WatcherProofs!HeldEventsAreTimed` | `PendingIsTimed` | `Timed`: before the loop nothing is held back, and each way back into the loop starts the timer or has sent everything |
| `WatcherProofs!TypeCorrect`, `EventsAlternate` | `TypeOK`, `EventsMakeSense` | `IndInv`: the event held back for an ID and not yet sent is the difference between what the events sent so far say (`told`) and what the watcher knows (`known`), and each event held back has exactly one place in the order |
| `WatcherProofs!ViewIsRight` | `ViewConverges`, with changes at any moment | two invariants on top of `IndInv`. `StoreInv`: for each note the watcher knows and that is gone, a notice of its removal is still to be taken, unless it was removed before the watches; each note there is, is known or will be by a notice still to be taken, or was written before the watches, where the listing finds it; behind every notice of a removal of a note that is there, there is one that makes it known again; and each month that is not watched has its notice. `ReadInv`: the last event of an ID in the channel is what was told of it, and where there is none the consumer has what was told or what it has not heard of; what its listing missed was moved while it ran and will be told |
| `ReadPoolProofs!TypeCorrect`, `NoSharedWrites`, `EveryFileRead`, `FailsForARead` | the three invariants of `ReadPool`, and its types | `Inv`: each index handed out is with one worker, or read, or failed; each one not handed out is untouched; and the group has an error as soon as a read failed or the context is cancelled |
| `TodoRolloverProofs!OneADay`, `NewestHasOpenTasks`, `OpenOnOne`, `CompleteTodo` | `OneTodoPerDay`, `OpenTasksOnNewest`, `OpenOnce`, `NewTodoIsComplete`, without `"west"` | `AloneInv`: until two runs overlap, one is under way at a time, the days of the todos increase, all but the newest have nothing open, what a run has read is what the newest todo says, and, once it has marked that, exactly what its new todo will have open |
| `TodoRolloverProofs!NoTaskLost`, `TypeCorrect` | `OpenTasksSurvive` with overlaps and in any time zone, and the types | `SurviveInv`: each open task is open on some todo, or some process between its two `Put`s carries it. A `Put` of the previous todo may overwrite what another run has written meanwhile, but whatever is open there is open in the lines it was computed from, and its run then carries it |
| `CommandsProofs!RoundTrip` | for every entry, `ReadEntry(WriteEntry(e))` is the entry, with its hashtags and, where the frontmatter has none, the name's slug | `ReadBack`, the same under any name: the delimiter found is the second line `FormatNote` wrote, since a mapping is not one; the blank line it added is the one `BodyStart` skips |
| `CommandsProofs!TypeCorrect`, `Doubles`, `Queries`, `EditsAreApart`, `UpsertsReuse` | the invariants and action properties of `Commands`, for any number of processes, notes, days and command lines, any `Put` of which may be cut off | `Inv`: the text of each file is that of `WriteEntry` of the entry in memory, and its name too unless its last `Put` was cut off; every ID in use is at most `last_id`; what a process holds was read from a file; and, of a process not overtaken, that file is still so, or what it has looked for is still not there. `ReadBack` then carries every statement about entries over to files under whatever name |
| `AtomicWriteProofs!TypeCorrect`, `WholeFiles`, `LoneCalls` | the three invariants of `AtomicWrite`, for any number of calls | a call that is alone has the inode that `tmp` leads to, and no other call has it open; `path` and `tmp` are different inodes; until two calls overlap, a call in progress is alone |
| `ReconcileProofs!QuietPasses` | `QuietPassCatchesUp`, with changes at any moment | `Inv`: a time stands for one text of a note; what has been read and what the caller has are versions the note had, or have a time that is in `slips`; and in an undisturbed pass each note is still to be looked at, being read, or settled |

None of the invariants is inductive as the run states it. Uniqueness of IDs, for
example, says nothing of the callers between the read and the return, and the sense
of an event depends on what has been merged into it since the last one.

**Only model-checked.** Liveness (`EveryCallReturns`, `EventsDelivered`,
`CloseEnds`, `CallReturns`, `EventuallyUpToDate`): it needs `ENABLED`, which the prover does not handle.
Every safety invariant, action property and refinement of the passing runs is stated
by a theorem, and of each hypothesis of a theorem TLC shows that it is needed. The
invariants of these proofs were checked by TLC on the same instances first. A
definition by recursion could not be proved about by induction over data,
so the modules have none: that a sequence of lines has a first delimiter, and that
the carried lines can be put in order, comes from the well-foundedness of the
naturals and the size of finite sets. For the same reason the sorted lines of a new
todo are chosen as the one increasing enumeration and not computed by `SortSeq`,
whose definition the prover cannot use.

## What is not modelled

- The texts themselves: the syntax of YAML, dates, slugs and inline hashtags, line
  endings, command-line parsing, output. What they decide (is there a block, does it
  parse, which tags has a line) is in `NoteFormat` as data.
- What `annotate` asks the external program, and how its output is parsed: it answers
  anything of the right shape or the command fails.
- Times of day. In `Commands` a date is a day; the in-memory store orders by the
  time and the file store, after the date was set or read from a name, by midnight, so
  that the order of notes of one day may differ between them.
- The `Reconcile` of the in-memory store and `WithPublic`, which are a comparison each.
- Durability: `WriteAtomic` does not sync, and the models take a rename that was
  seen as kept after a crash of the *process*; a crash of the machine is not there.
- `lockStoreRoot` on systems other than Unix, which locks nothing; it is the first
  mutant of `IdAlloc`.
- Time: the debounce window has no length, so that notices which keep the timer
  from ever expiring are outside the model, and every write has a
  file time of its own, which `Reconcile` asks for in its comment.
- The printing of `ls`, `resolve`, `read` and `tags`, configuration and the root
  command: they only pass things on.

## Plan

The components are modelled as far as they have state, and every safety property that
a run checks is proved. What is left, in this order:

1. What the files promise to commands that do overlap: an abstract store beside
   `Store`, in which a `Put` replaces an entry by one that was read earlier, which
   `OSStore` without `Serial` implements.
2. The agreement of `NoteFiles` and `NoteFormat`, the two vocabularies of a note file,
   where they speak of the same: that the entry of the one is an abstraction of the
   entry of the other.
