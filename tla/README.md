# Tripwire: a TLA+ verification project

Tripwire compares a file system with a database made of it earlier, by the
rules of a policy, and reports what was added, removed and changed. This
directory models the parts of it that keep state over many steps, checks them
with TLC on small instances, and proves with TLAPS, for every instance, what is
checked of the storage layers, the policy language, the check, the modes, the
mailing and the administration.
The parts are the storage layers, the check and the modes that keep a database
true to what the user accepted, the policy language that says what is checked,
the mailing of reports and the administration of keys and signed files.
Paths below are relative to the repository's `src/`.

## 1. The system

| Component | State it keeps | Operations | Talks to |
|---|---|---|---|
| block file, `db/blockfile.cpp`, `block.h` | pages of 4096 bytes with block number, dirty flag, time stamp; a request counter; the number of blocks | `Open`, `GetBlock`, `CreateBlock`, `Flush`, `Close`, writes through a page | an archive below; record arrays above |
| block record array, `db/blockrecordarray.cpp` | the layout of one block: header, index table growing up, data growing down; copies of the header's two numbers | `InitNewBlock`, `InitForExistingBlock`, `AddItem`, `DeleteItem`, `GetDataForReading/Writing` | asks the block file for its block at every call |
| block record file, `db/blockrecordfile.cpp` | one array object for each block, the block added to last | `Open`, `AddItem`, `RemoveItem`, `GetDataFor...`, `Close` | arrays below; the hierarchical database above |
| hierarchical database, `db/hierdatabase.cpp`, `hierdbnode.h` | root, directories, entries and data as linked items; each iterator a copy of one directory | `CreateEntry`, `DeleteEntry`, `SetData`, `RemoveData`, `Create/DeleteChildArray`, `SeekTo`, `Descend`, `Ascend` | items below; the database data source above |
| policy language, `parser/policy.y`, `tokens.l`, `twparser/` | while a text is read: the lexer's start condition, a stack of accepting states, a stack of attribute lists, variables, rules and stop points | one action for each kind of statement; `CreateFCOSpecs` at the end | gives rule specifications to every mode |
| rule specifications, `fco/fcospechelper.cpp` | start point, stop points, recurse depth | `Add`, `SetStartPoint`, `SetRecurseDepth`, `Clear`, `Clone`; `ContainsFCO`, `ShouldStopDescent` | asked by every mode of the program |
| data source iterators, `fco/fcodatasourceiterimpl.cpp`, `fs/fsdatasourceiter.cpp`, `tw/dbdatasource.cpp` | the names of one directory, a position | `SeekToFCO`, `Next`, `Descend`, `Ascend`, `CreateFCO`; on the database also `CreatePath`, `SetFCOData`, `RemoveFCOData` | operating system, hierarchical database |
| integrity check, `tripwire/integritycheck.cpp` | the two iterators of each directory on the way down, the report | `Execute`, `ExecuteOnObjectList`, `ProcessDir`, `ProcessAdded/Removed/ChangedFCO` | both iterators, the rules, the report |
| database update, `tripwire/updatedb.cpp`, `tripwireutil.cpp` | the database being changed | applies a report's additions, removals, changes, where the database is as the report says | report, database |
| policy update, `tripwire/policyupdate.cpp` | old and new rules, the database | checks by the new rules, rewriting the database; updates from the report; prunes what the new rules do not contain | check, update, database |
| database generation, `tripwire/generatedb.cpp` | the database being filled | walks the file system | iterators, database |
| files, `tw/fcodatabasefile.cpp`, `tw/twutil.cpp`, policy, configuration, reports | contents of files, signed or not | read, write in place, back up | all modes |
| notification, `tripwire/twcmdlineutil.cpp`, `smtpmailmessage.cpp`, `pipedmailmessage.cpp` | the addresses still to serve, a connection and the answer awaited on it | `EmailReport`, `Send`, `GetAcknowledgement` | the report; a mail server or mail program |
| administration, `twadmin/twadmincl.cpp`, `tw/filemanipulator.cpp`, `twcrypto/keyfile.cpp`, `util/fileutil.cpp` | key files, signed files, their backups; the passphrases already asked for | generate keys, change passphrases, sign, remove signatures, create configuration and policy files | the files of all modes |
| object names and properties, core library, `twprint`, `siggen`, ciphers | none between calls | compare, convert, print | all modes |

A check goes like this: for each rule, `Execute` puts a file system iterator
and a database iterator at the start point, and `ProcessDir` merges the two
sorted lists of names, asking the rule before each object and going down into
directories on either side. The database iterator reads entries through the
hierarchical database, record file, record arrays and block file, in memory;
the whole archive is read from a file first and written back whole. Nothing
runs in parallel inside the program. What is concurrent is the file system,
which everybody else changes while the program looks at it, and the mail server
it talks to. A check with names on the command line goes through them one by one
instead (`ExecuteOnObjectList`). When a check is over, the report is mailed
first and written afterwards.

What is hard here:

* **stale copies** at every layer: pages of an archive, headers in array
  objects, directory copies in iterators, names read before objects;
* **layout arithmetic** in a block, which tests reach only with the sizes they
  happen to use;
* **links that several writes keep up to date** in the hierarchical database;
* **a file system that moves** under a walk of two merged lists;
* **rules that overlap**, stop points written in any order, blocks and branches
  nested in each other and in text that is skipped;
* **old reports** applied to a database that has changed since;
* **a mail server** that answers late, in pieces, with a refusal or not at all,
  in front of a report that is not written yet;
* **deaths and failures between two files**: a key file and its backup, one of
  several files to sign, a policy and the database made with it.

`PROJECT.json` lists each hazard at its line with the property that covers it,
or says why none does.

What makes each component correct:

* block file: the cache is invisible, and nothing is lost by replacing a page;
* record array: an item is found at its index, whatever happens to the others,
  and table and data never meet;
* record file: an item is found at its address until it is removed, across
  closing and opening, and the file grows only when it must;
* hierarchical database: an iterator's operations change the tree at its path
  and name and nothing else, every item has exactly one owner, and no cached
  directory is stale in a place where it is used;
* policy language: what is read is what the text means on this machine, every
  object belongs to the nearest rule above it, and a policy is refused for its
  faults only;
* check: objects nobody touched are judged right, no object is judged twice,
  the check ends;
* update: after an update from a fresh report a second check finds what the
  user did not keep and nothing else; an old report never overwrites a newer
  value;
* policy update: the new database fits the new policy and the file system, and
  in high security mode hides no change that both policies are about;
* files: wherever the program is killed, what it was about to overwrite is still
  there in a whole copy;
* notification: everyone concerned is tried once, an exit code without error
  means that everyone's message was accepted, and mailing ends;
* administration: nobody signs without the passphrase of the key, a key pair is
  never lost by one command, and exit code 0 means that all was done, as long as
  a failed write is noticed.

## 2. Modules

`RecordTable`, `BlockStore`, `ItemStore` and `HierTree` are abstract: what a
layer promises to the one above. The layer above is modelled over the promise,
so that the state space of one layer is not multiplied by that of the next.

| Module | Models | Implements |
|---|---|---|
| `BlockFile` | the page cache. `pages` is `mvPagedBlocks`; `current` is the pointer the last `GetBlock` returned: clients ask again at every call. `GetBlock(b)` is a `Hit` or a `Miss`, which picks the page of the smallest stamp, writes it back if dirty and reads the block; `Tick` is the wrapping `mTimer`; `Open` keeps the pages of an earlier opening as `mvPagedBlocks.resize` does | `BlockStore` |
| `BlockRecordArray` | one block, byte by byte: the header, the table of `(offset, main index)` and the data from the end backwards, with `memmove` as a move of bytes. `AddItem` reuses the first free index (`DataWith`) or appends; `DeleteItem` is `DeleteLast`, with the trailing invalid entries, or `DeleteMiddle` | `RecordTable` |
| `BlockRecordFile` | the array objects and their headers over blocks seen as tables; `FindRoom` asks the block of `mLastAddedTo`, then all from the first; `Touch` is the lazy reading of a header | `ItemStore` |
| `HierDatabase` | `heap` holds the items by address, reusing the first free one; `iters` are the iterators, each with its copy of a directory: those of the functions that called with a copy (`Call`, `Return`) and, last, the one at work (`it`). While a check runs (`checking`), `ProcessChangedFCO` is handed a copy of its caller's iterator in the same directory, and in a policy update gives the object other data through it (`RewriteFCO`), which leaves the callers' copies of that entry stale; `visited` are the entries it has been at. Each operation does its reads and rewrites on the heap from the copy as the code does | `HierTree` |
| `StopPointSet` | a rule's specification as a record of start, stop points and depth: the adding of a stop point (`WithStop`) and the two questions asked of it | |
| `PolicyText` | what a policy text means, read off the text as a whole with no parser's state: which statements this machine reads, the value of a variable or attribute at a place, the rule an object belongs to, the faults | |
| `Policy` | the parser. `open` is its own stack of unfinished blocks, `lexer` the lexer's condition, `accept` and `ignoring` are `mStateStack` and `mfIgnoreSection`, `scopes` is `mScopedAttrs`; the genre's tables are `locals`, `rules`, `stops`, and `defined` says that the genre has them. One action reads one statement; `Finish` is `Finit` with `CreateFCOSpecs` | `PolicyText`, by its invariants |
| `IntegrityCheck` | `dirs` is the stack of `ProcessDir` calls with the names each side has left, `enter` a directory about to be read, `fs` a file system that `Write`, `Create` and `Unlink` change. A step is one directory listing or one object and the verdict on it; with a list of names, `CheckObject` is one turn of the loop of `ExecuteOnObjectList` | |
| `Baseline` | what the modes compute, as operators over a database, a policy and a file system. A database is its objects (`tree`), its entries without data (`ways`) and the entries that have a child array (`dirs`); `CreatePath` and `RemoveFCOFromDb` change all three. On these: the verdicts of a check (`Verdicts`), the database after an update (`Updated`, with `Conflict` and `Stored`), after a policy update (`PolicyUpdated`) and after generation (`Generated`) | |
| `Tripwire` | the modes and the files between their runs. `disk` and `bak` are policy file, database file and their backups, `reports` the report files, `job` what the running mode holds in memory and has yet to write. A mode begins with the conditions under which it refuses, computes its result, and then takes the steps of `Save` for each file it writes: remove the backup, copy, open (which truncates), write. `Die` may come between any two of them | |
| `Mail` | the end of a check. `pending` is what is left of the list of recipients, `waiting` the command whose answer is awaited (0 between messages), `link`, `session`, `sent` and `replies` the connection seen from both ends. `Client` is the program, `Environment` the server and the network; `stage` says where `EmailReport` and `Execute` are | |
| `Admin` | twadmin. `key`, `file` and their backups `keyBak`, `fileBak` are what is on disk; `cmd` is the command that runs, with the files it has yet to do, the passphrases its user knows and the private keys it has already opened. Each write may succeed, fail with the file torn, be torn without the command noticing, or be the last thing the process does | |
| `BlockFileProofs`, `BlockRecordArrayProofs`, `TripwireProofs`, `MailProofs`, `AdminProofs` | the theorems on the module of the name, each with its inductive invariant `IInv` | |
| `DatabaseProofs` | the theorems on the two upper layers of the database, `BlockRecordFile` (`IInv`) and `HierDatabase` (`HierInvariant`) | |
| `RuleProofs` | the theorems on what a policy means: on the check of its rules, `IntegrityCheck` (`IInv`), and on the parser that makes them, `Policy` (`ParserIInv`) | |
| `DataLemmas` | what these proofs share: induction, loops and folds as functions, lists, products and least numbers | |

`Baseline` and `Tripwire` look at what the layers below are for: a database is a
tree of names, some with an object, as `HierTree` promises it, an object a function
from its valid properties to values, and a check takes place at one moment, as
`IntegrityCheck` shows is right for objects that hold still. What they keep is
which object a report shares with the database: `AddChangedFCO` stores the
pointer it is given, so the check of a policy update, which rewrites that
object afterwards, also rewrites the report (`PolicyReport`). The update that
follows compares the database with the report's old values and succeeds only
because of it; a copy instead of the pointer breaks `BaselineSettles`.

`MC...` modules give constants their values. Operators marked `Mutant:` beside
a definition are the plausible wrong versions of it against which the
properties are tried out; no specification uses them.

## 3. Runs

| Run | Question | States | Bounds, and why they suffice |
|---|---|---|---|
| `blockfile` | is the cache invisible, is nothing lost, does the page in use survive? | 70,487 | 3 blocks on 2 or 3 pages: with 2 pages every miss replaces; 3 pages never do, once filled. Two contents. A timer of 4 values wraps within any long enough run |
| `blockrecordarray` | do table and data stay apart and items intact? | 5,118 | a block of 25 bytes with a margin one byte larger than a table entry as in the code, items of 1, 2 and 3 bytes: a block fills up, slots are reused by smaller and larger items |
| `blockrecordfile` | are items found again, does the file grow only when full? | 10,521 | 3 blocks of two small items or one large, so that the search goes over blocks before and after the one added to last before the file grows |
| `hierdatabase` | does the linked structure stay a tree, and the iterators' copies true? | 96,854 | 3 names, so that an entry has neighbours on both sides; 2 levels; 6 items, so that freed addresses come back at once; up to 4 iterators, two for each level. A check may begin on any tree, and change data under its callers' copies on both levels |
| `integritycheck` | right verdicts, once each, while objects change; does it end? | 922,217 | two rules, one inside the other's directory; three names in a directory, so one can be before and one after another; every pairing of 17 file systems and 32 databases; a check of all rules or of one of three lists of names, in the parent's rule, in a rule of their own, twice the same, and of names no rule contains; two changes at any moments of the check, so that one object vanishes and another is written or appears |
| `integritycheck_skip` | is what is reported removed gone? **violated** | | as above, with one change |
| `tripwire` | does each mode leave a database that is right for the next, whatever came before, and is there always a whole copy of what is overwritten? | 1,811,427 | a directory with two files, one of them perhaps absent at first; two properties of two values. Two policies between which every object gains or loses a property, one object leaves and one changes rules. One report is kept and used any number of times, at any time later; one change of the file system, before or after it. Any number of runs and deaths |
| `policy` | do the stacks and tables of the parser come to what the text means? | 682,920 | every grammatical text of up to 5 statements and an end, from some two dozen statements: two rules of one name, rules below each other, stop points above and below rules, both branches of a host directive, three sections, a variable that is predefined and one that is not. Five statements hold a rule in a branch of a block with a variable given before, and a section after both |
| `mail` | is everyone tried once, does success mean acceptance, does it end? | 345,226 | a host with a name or without; two addresses of rules, one named twice, and `GLOBALEMAIL` with one of these and one more, named twice; every subset of them with violations; both methods; `MAILNOVIOLATIONS` on and off. A server that answers in any order of good and bad codes, or never |
| `mail_fatal` | does a mail error keep the report from being written? **violated** | | as above |
| `admin` | who can sign, what survives, what does exit code 0 mean? | 3,556,631 | a file of the local key and two of the site key, one of which tells its key; before or after installation, any of the files made, any signed. Lists that mix keys and repeat a file. Two commands, so that one meets what the other left, failing, with and without a notice, or killed at any step; 2 passphrases; 4 key pairs: two of the installation and one for each key of a command |
| `admin_backup` | is what was being written in a backup? **violated** | | as above |

Deadlock is checked except where the program comes to its end: a check, a policy
that was read or refused, a report that was mailed, the last of a number of
twadmin commands (`integritycheck`, `policy`, `mail`, `admin`).

The properties that take most to violate, and what they say:

* `ImplementsBlockStore`, `ImplementsRecordTable`, `ImplementsItemStore` and
  `ImplementsHierTree`: every operation of a storage layer is one step of its
  abstract specification or none.
* `StableObjectsJudgedRight`: an object that nobody touched from the beginning of
  the check to its end has the verdict that its two sides call for, whatever
  happens beside it, but for the one name moved over after an object that
  vanished, and what is below it; when names are given, one of a name in the
  database and on disk, and none for others. `OneVerdictEach`: no object has two.
* `UpdateSettles`, `BaselineSettles`: after an update from a fresh report, or a
  policy update, a second check finds what the user left out and nothing else.
  `OnlySeenIsChanged`: no update changes an object of which the database holds
  something else than its report. `PolicyUpdateHidesNothing`: in high security
  mode no difference in what the rules of both policies come to is lost in a
  policy update. (Not in what they contain: `ContainsFCO` says yes to names
  below the recurse depth, which no walk comes to.)
* `FitsPolicy`: every object in the database has a rule of its policy and the
  properties that rule asks for, and every entry without data leads to one.
* `SpecsFollowText`, `NearestPointDecides`, `RefusedForAFault`: the parser and
  `CreateFCOSpecs` agree with the text, statement by statement and object by
  object, also on what is refused and when.
* `CachesAreCurrent`: an iterator can be used as it is, whatever those it was
  passed to have done: what it has cached is on file, but for where the data is of
  entries a check is done with, which nothing reads or rewrites from it again.
* `CleanExitMeansDelivered`: with every answer in time and in one piece and a host
  that has a name, an exit code without `ERROR_IC` means accepted messages for
  all. `Ends` for mailing, and for the check while no object vanishes.
* `SignaturesNeedThePassphrase`, `OnlyBackupsForgetPairs`, `ExitOkMeansDone`: of
  steps of twadmin, over all files and both keys. A full disk that only `fclose`
  notices is a step that fails without a notice (`cmd.unseen`), and the last two
  name what it may leave torn.

### What the violated runs show

* **`integritycheck_skip`**. If an object that is in the database is listed and
  then cannot be read (it vanished, or is a mount point), the iterator is
  advanced twice, and the next name is never compared: reported as removed if
  the database has it. If the vanished name was the last, the iterator is past
  its end and what follows is undefined (`ReadPastEnd`). The passing run states
  what remains true: `StableObjectsJudgedRight` excludes the one name that was
  moved over, and what is below it, and nothing else (`passed`, `Skipped`); `Ends`
  promises the end of a check only while no object vanishes.
* **`mail_fatal`**. A connection that is reset makes `recv` return -1, which is
  used as the length of a string; `std::length_error` is no `eError`, passes
  every handler up to `main` and ends the program before the report is written.
  A comment in `EmailReportTo` says that mail errors are non-fatal, and those it
  catches are.
* **`admin_backup`**. twfiles(5) says that backups are made whenever a Tripwire
  file is overwritten. `twadmin --encrypt` and `--remove-encryption` pass `false`
  for it; killed while they write, nothing is left of the file.

What no run calls wrong, though the documents promise otherwise:

* twpolicy(4) says that after a `@@section` of another system *"Tripwire will skip
  all policy file text down to the next valid @@section directive"*
  (`twpolicy.4:391-397`). A variable in text that is skipped is the empty string, so
  that a severity given by one refuses the policy all the same
  (`parserobjects.cpp:257`). `RefusedForAFault` allows this refusal by name
  (`SkippedVariable`).
* `hierdatabase.h:164-166` says that `CreateEntry` adds an error if the entry exists;
  it returns without a word (`hierdatabase.cpp:504`), and so do the model and
  `HierTree`.
* twfiles(5) speaks of backups, and the exit code of success: both on the
  assumption that what was written is there. `cFile::Close` and `~cFile_i` drop
  `fclose`'s result (`core/file_unix.cpp:92`, `200`), and a key file fits in one
  buffer, so on a full disk a backup or a file may be torn, and the command goes on
  over the original, or exits with 0. `OnlyBackupsForgetPairs` and
  `ExitOkMeansDone` name these files (`cmd.unseen`), and promise all others.

What no run calls wrong, since nothing promises otherwise:

* A mode killed while it writes leaves a broken file, and the next mode that
  writes the same file makes a copy of the broken one over the last whole
  backup. Killed twice like this, only creating the policy and the database anew
  goes on. `CopyBeforeOverwrite` therefore speaks of whole files. The same holds
  of twadmin's key files: a second command after a torn write, a generation or
  a change of passphrase, copies the torn file over the good backup, and the key
  pair is gone (`OnlyBackupsForgetPairs` allows just this).
* An update from a report made under another policy is accepted: objects no rule
  is about can get into the database until the next policy update prunes them,
  which is why `FitsPolicy` asks for a report of the same policy. An object that
  a policy update leaves with an empty child array is no dead end until a
  later update removes it: `RemoveFCOFromDb` stops at an entry that can be
  descended into. So of an update `FitsPolicy` asks for no dead ends only if
  there were none of this kind before (`Tidy`).
* A policy update prunes what the new rules do not contain, and `ContainsFCO`
  ignores the recurse depth: objects beyond the depth of a new rule stay in the
  database with their old properties, and no check ever looks at them. So
  `FitsPolicy` is true of rules without a depth, which are the ones of the run.
* For a removal in a report `cUpdateDb` looks only at whether the database has
  the object, also in high security mode (`updatedb.cpp:141`), where
  tripwire(8) speaks of comparing properties.
* `tripwire --check` with names: an object that is gone from disk is an error
  and no removal; one that is not in the database is an error and no addition;
  nothing below a named directory is looked at; a mount point is accepted when it
  is named, since `SeekToFCO` without descent forgets the device. An object that
  is named twice is compared twice and may be in the report twice: what
  `OneVerdictEach` says is that the two agree.
* Policies: a `GLOBAL` section after a skipped section is skipped with it; a
  second `@@section GLOBAL` is taken for an unknown genre and skipped.
* Mail: the report is mailed before it is written; `GLOBALEMAIL` is not served
  once an address of the rules failed; the value of `Send` is not looked at, only
  its exceptions, so that mail that is not sent since `gethostname` fails
  (`smtpmailmessage.cpp:338-341`) counts as sent; after the sixty seconds' timeout
  an uninitialized buffer is read for an answer, and a greeting in two pieces
  shifts every answer by one (`untimely`), so that success then means nothing.
* twadmin: `--create-cfgfile` with a configuration that names no site key file,
  or another one, queues an error and exits with 0 (`CreateQueuesError`).
* Found while reading, of parts no other code in the program uses this way: a
  block file that is reopened on another archive serves the first one's pages
  (`blockfile.cpp:106`); a record file opened by file name is not open
  (`blockrecordfile.cpp:77`); `ContainsFCO` ignores the recurse depth, where a
  comment calls it interchangeable with `ShouldStopDescent`
  (`fcospechelper.h:73-76`); a clone loses the recurse depth
  (`fcospechelper.cpp:235`).

### Fairness

Two modules have a liveness property, both named `Ends`. `IntegrityCheck`
assumes weak fairness of `Step`, the disjunction of the program's own steps: a
single thread that runs whenever it can. Nothing is assumed of the processes that
change the file system, whose number of changes is bounded by `MaxChanges`: a
file system that grows a deeper directory for ever would keep any walk busy.
`Mail` assumes weak fairness of `Client`: the one blocking wait of the program is
the `select` of `GetAcknowledgement`, which returns after sixty seconds at the
latest. Nothing is assumed of the server: it may never answer. (`SIGPIPE` is
ignored, `tw/twinit.cpp:278`, so that writing to a closed connection is no end of
the program.)

## 4. Proofs

Every theorem is of the form `Spec => []Inv`, `Spec => [][A]_vars` or `Spec =>
Abstract!Spec`, for all values of the constants that satisfy the named
assumptions of the module. For each module there is an `IInv` (`HierInvariant`,
`ParserIInv`) that is inductive and implies the invariants, and a lemma for each
action that it keeps it; action properties and refinements come from the same
invariant. TLC checked the invariants proved on the bounds of the module's run, and
each `IInv` that can be evaluated. `HierInvariant` and `ParserIInv` say that
functions or texts exist, over sets TLC cannot enumerate; of these it checked the
properties they imply.

| Module | Invariants | Action properties | Refinement |
|---|---|---|---|
| `BlockFileProofs` | `TypeOK`, `OnePagePerBlock`, `CleanPagesMatchArchive`, `AssertValid` | `MruStaysResident` | `ImplementsBlockStore` |
| `BlockRecordArrayProofs` | `TypeOK`, `LayoutIsSound` | | `ImplementsRecordTable` |
| `DatabaseProofs`, on `BlockRecordFile` | `TypeOK`, `ArraysAreSound` | `GrowsOnlyWhenFull` | `ImplementsItemStore` |
| `DatabaseProofs`, on `HierDatabase` | `HierTypeOK`, `TreeIsSound`, `CachesAreCurrent` | | `ImplementsHierTree` |
| `RuleProofs`, on `IntegrityCheck` | `TypeOK`, `StableObjectsJudgedRight`, `OneVerdictEach` | | |
| `RuleProofs`, on `Policy` | `ParserTypeOK`, `SpecsFollowText`, `NearestPointDecides`, `RefusedForAFault`, `SpecsAreRules` | | |
| `TripwireProofs` | `TypeOK` | `CopyBeforeOverwrite`, `UpdateSettles`, `BaselineSettles`, `OnlySeenIsChanged`, `PolicyUpdateHidesNothing`; `FitsPolicy` of rules without a recurse depth | |
| `MailProofs` | `TypeOK`, `ConcernedAreTriedOnce`, `CleanExitMeansDelivered` | | |
| `AdminProofs` | `TypeOK` | `SignaturesNeedThePassphrase`, `OnlyBackupsForgetPairs`, `ExitOkMeansDone` | |

### Why the invariants are what they are

* **`BlockFile`**: the properties are not inductive without these three: the
  client's pointer is to a page that holds a block of an open file
  (`CurrentIsResident`), or a write through it could dirty an unused page; nothing
  waits to be written while the file is closed (`ClosedIsClean`), or the next
  opening, which may drop pages, could lose a write; only a new object has an
  empty archive (`EmptyIsNew`), since `Open` writes the first page's data into an
  empty one. For recency, `CurrentIsNewest` comes on top; the wrapping of the timer
  is the case the property leaves out. For the refinement, `ContentsShown`
  identifies `Contents`, written with `CHOOSE`, with the data of any page that
  holds the block.
* **`BlockRecordArray`**: offsets are right when each is the one before plus the
  item's bytes (`OffsetsAreRight`), from which they are increasing by induction
  over the indexes (`Increasing`). That there is always room for one more index
  below the data (`TableClearOfData`) is what lets the guard be written; it
  needs the margin to be no smaller than an index. That there are no more than
  `MaxRecords` records follows from the bytes only when all are in use, which they
  are when one is added (`AllUsed`); deleting leaves indexes without bytes, so
  the bound is a part of the invariant. For the refinement an item that moves
  as a whole is the same item (`ItemStays`).
* **`BlockRecordFile`**: a block is a sound table (`TableIsSound`) when its top is
  the sum of its items, stated as a function of partial sums, so that a word
  for each item bounds their number again. An array object is as it was made or
  says what its block's header says; no operation looks at one that says
  neither. `FirstFree`, `Trimmed` and the block found by `FindRoom` are `CHOOSE`s,
  identified by the least or greatest number of a set.
* **`HierDatabase`**: `HierInvariant` says that three functions exist which the
  file does not have: for each directory the addresses of its entries (`list`)
  and its path (`way`), for each entry its directory (`home`), and that the heap
  agrees with them (`Shape`). `IsHeap`: each item has its kind's fields and the
  root is at its place. `ListsAreRight`: `list` follows the links from the
  directory's first entry and is in the order of names, and every entry is in one
  list once. `WaysAreRight`: a directory below an entry knows its parent and has
  the entry's path, no two directories have one path, and each but the first is
  below an entry. `DatasAreRight`: data has one owner. The iterators cache what
  the lists say, each one directory below its caller (`IsStack`), so a
  rewrite by the innermost is in no directory another has cached. That is the
  invariant outside of a check (`EditState`). During one (`IsWalkState`) an iterator
  is nearly such a view (`IsNear`): an entry the check has been at may name data
  it no longer has, but not in the copy that `ProcessChangedFCO` was handed
  (`Holds`), and no two of these copies are at the same entry (`IsWalk`), so a
  rewrite by one leaves the entries of the others right. Each
  operation changes one entry of one list or adds or drops one (`ChangesEntry`,
  `EntryIsAdded`, `EntryIsDropped`), and the functions after it are given in
  terms of those before. `TreeOf`, written as the closure that it is, is
  identified depth by depth (`AtDepthIs`, `TreeIs`) with the map from paths to
  what entries show, on which the abstract specification's `EXCEPT`s are plain.
* **`Policy`**: `SpecsFollowText` is about the end, and says nothing a step could
  keep. `ParserIInv` says which text `t` the parser has read without a fault:
  the whole text while it is reading, all but the last statement when it is over
  (`Outcome`: refused, and that statement is at fault, or done, and it is the
  end). Of `t`, of any length, it says what the parser holds (`Parsed`). The
  blocks open have places in the text at which their levels begin (`Blocks`), and
  the stacks are at each depth what is live, and what is given, up to that place
  (`Stacks`); this is more than the types of the stacks, which are as deep as there
  are blocks, and is needed because a `}` or `@@endif` brings back what was under the
  top. The section that is read, and whether the genre has been asked for, are
  functions of the text (`SectionIsRight`), the tables hold the latest live assignment
  of each variable (`TablesAre`), and rules and stop points are the live ones in
  order (`PointsAreRight`), each rule with the attributes the text gives it there.
  Each kind of statement then has a lemma that it extends `t` by one statement
  (`RuleIsRead`, `ScopeIsRead`, ...). That what the definitions of `PolicyText` say of
  a place does not change when the text grows (`SameLive`, `SameAttrs`, `SameFault`)
  makes up the first part of the proof. For the last, `StopsAdded` identifies what the loop over
  the stop points leaves with the topmost of the points below a rule, from which
  the nearest point decides whatever the order of the lines was.
* **`IntegrityCheck`**: at every moment each object of a rule that is not
  disturbed is judged, and judged right, or it is ahead: in a directory of the
  stack, below a name that directory has left (`Ahead`), or below the one about to be
  entered. The directories on the stack lie on one way down (`Inside`), so that a
  name passed in one is not met again in another; what was passed is less than
  what is to come, in the order both lists are sorted by. Verdicts are only about
  what was passed, which is why none comes twice. All this is said of objects
  that are not among those moved over (`passed`), nor below one (`Steady`). Of named objects, those at the
  positions before what is left are judged.
* **`Tripwire`**: what a mode is about to write is what it computes from the
  database it read (`JobIsRight`), and that database is on disk, or its copy in the
  backup while the file is being written (`SourceIsWhole`, `PlanIsSafe`: the rest of
  the steps of `Save` is the tail of a plan in which no file is opened before it is
  copied). Every report was made by a check of the trees and files it comes with.
  The properties of `Updated`, `PolicyUpdated` and `Generated` are lemmas on
  `Baseline`'s operators; each is a fold over the report, or over the names in
  any order, and the lemmas say what it makes of each name. `Tidy` is kept by
  each step of that fold whose object is as the report has it (`StepTidy`). The one
  that could break it is a removal: `RemoveFCOFromDb` goes up the path of the name
  while entries are left with nothing, a loop that `RemoveFCOIs` shows to end;
  an entry that goes takes all there is below it along (`GoneIs`), and one that
  stays without data still leads to another object (`StaysFor`), so that
  nothing is left hanging and nothing that is needed is gone (`RemoveTidy`).
* **`Mail`**: announced, failed, served and pending recipients add up to the lists
  (`RulesAreTried`, `Delivered`), nobody is pending twice or announced and pending,
  but for the one a connection is open for (`PendingIsFresh`), and with every
  answer in time there is one for one command (`InStep`).
* **`Admin`**: a command that has its backup has a target left whose file, if whole,
  equals the backup (`BackedUpIsReady`, `KeyIsBackedUp`); a key whose passphrase
  is not asked for again is one its user can open now (`UnlockedAreOpened`); what
  is neither failed nor left to do is done, or torn by an `fclose` that nobody looked
  at (`RestIsDone`). A torn file does not always end the command, so what `--encrypt`
  accepted may be torn when its turn comes; it cannot be read then, and the
  command fails (`EncryptCannotRead`).

### What is assumed

The `ASSUME`s are named, stand in the modules that declare the constants, and
TLC evaluates them in each run. The ones that say something of the program:

* `BlockFile`: pages are two or more (`GetBlock` asserts it), the timer has two
  values or more.
* `BlockRecordArray`, `BlockRecordFile`: the margin holds the guard
  (`MarginHoldsGuard`, 10 and 8 bytes in the code); a block holds header, guard and
  margin; no item is smaller than a word (`blockrecordarray.h:145-148`) or larger
  than a new block offers, which `FindRoomForData` asserts.
* `HierDatabase`: names are numbers, for their order (`NamesAreOrdered`); the file
  holds the two items that `OpenImpl` makes (`RoomForTheRoot`); the tree may have a
  first level (`DepthIsNumber`).
* `IntegrityCheck`, `Tripwire`: stop points are below their start point, which
  `SetStartPoint` and `AddStopPoint` see to, and no object belongs to two rules
  (`RulesAreDisjoint`, `PoliciesAreDisjoint`): `CreateFCOSpecs` makes each start
  point a stop point of the rules above it. That the parser makes such rules of
  any policy is the theorem `RulesAreMadeDisjoint`. Names are paths of at least
  one part (`NoNameIsEmpty`; the root directory has an empty part,
  `fconame.cpp:248`), and what is in a file system lies in directories that are
  in it too.
* `Policy`: a text has some bound (`TextIsBounded`), names are lists of parts,
  attributes are among the three that are modelled and a recurse depth is a number,
  which `Validate` sees to (`RulesAreWritten`, `ScopesAreLists`, `StopsAreNames`),
  and an assignment is to one of the variables (`VariablesAreSet`). Nothing is assumed
  of the order or the nesting of statements.
* `Mail`, `Admin`: lists are lists of addresses and files; the installation makes two
  key pairs; a torn or missing file is no whole one.

### Induction

The provers cannot instantiate the library's induction theorems, whose
hypothesis is an operator. `DataLemmas` restates what is needed with a set in
its place, as lemmas: `NatSetInduction` for numbers and `FiniteSetInduction` for finite sets. A
loop or a fold is then a function that exists: `IteratedFunction` gives the states
of a loop by the number of its turns, `FoldedFunction` the value of a fold by the
sets already folded in any order. With these `Unique` of `Mail` and the
folds of `Baseline` behind `Updated`, `PolicyUpdated` and `Generated` are proved about
for lists and reports of any length.

### What is only model-checked

* Liveness: the two `Ends`. Fairness and `ENABLED` are beyond the prover.
* The violated properties, which are false.

`FitsPolicy` is proved with a hypothesis: rules have no recurse depth
(`DatabasesFit`), as in the run. With one its first half is not true (section 3).
Its second half, that no entry without data is a dead end, is proved of all
policies (`NoDeadEnds`).

## 5. Not modelled

* Archive and storage calls that fail. Block file, record file and database are
  left in between states by them (listed as a partial failure in the hazards),
  which nobody writes to disk: every caller lets the exception end the program.
* The reset of access times, and genres other than one.
* In `Tripwire`: a file system that changes in the middle of a check
  (`IntegrityCheck` has it), two runs of the program at once, passphrases and
  signatures (`Admin` has them), and a copy or write that fails in an `fclose` alone
  (`Admin` has that too). The editor in which the user chooses verdicts is
  any subset of them.
* In `Policy`: tokens, property masks, the attributes rulename, match and
  onviolation, `@@print`, and that the token after the host list of an `@@ifhost`
  may be read before the list is acted upon.
* In `Mail`: what a server does with a connection the program gave up, resolving
  the server's name, the test message and GMMS alerts. In `Admin`: two commands
  at once, the modes that only print or examine, names of files that are
  directories or key files, which are passed over like files that do not exist,
  and liveness.
* Ciphers and large integers, object properties and signatures of file contents,
  printing, command lines, the core containers: sequential handling of data
  without state between calls, out of TLC's reach or vendored. They are a
  large share of the source: the `cryptlib` and `core` directories alone hold
  more than a third of it.

## 6. Done and left

Done, in this order: block file and its proofs, record array, record file,
hierarchical database, check, the modes over the files they leave, the entries
without data in a database, checks of named objects, the policy language, mail
and administration; then the proofs of administration, mail, the modes, the
check, record array, record file, hierarchical database, policy language, and
what a database holds after an update.

Left:

1. What a database holds when rules have a recurse depth: a property that tells
   objects that a walk comes to from those that `ContainsFCO` says yes to.
2. Calls of the storage layers that throw, with the state they leave behind.
3. Two runs of the program over the same files at once.
