# A verification project for piglit

piglit runs tens of thousands of small test programs against an OpenGL/OpenCL
implementation and reports what each of them did. The programs under `tests/`
are independent of each other; what has behaviour worth verifying is the Python
framework that schedules them, survives their crashes, survives its own, and
keeps the results, and the Python generators that compute what a driver is
judged by. This directory models both in TLA+, checks them with TLC and proves
with TLAPS nearly every safety property that is checked.

Files without a directory are those of `framework/`, at the commit this project
sits beside; generators are in `generated_tests/`, the GL registry in
`registry/`. `PROJECT.json` maps every definition to the lines it stands for.

Contents: [inventory](#1-inventory), [what is hard](#2-what-is-hard-here),
[modules](#3-the-modules-and-how-they-correspond-to-the-code),
[runs](#4-the-runs), [fairness](#5-fairness), [proofs](#6-what-is-proved),
[disagreements](#7-where-the-code-and-its-documentation-disagree),
[not modelled](#8-what-is-not-modelled), [plan](#9-plan).

## 1. Inventory

| component | state it keeps | operations | correct when | modules |
|---|---|---|---|---|
| **Result store** (`backends/abstract.py`, `json.py`, `__init__.py`, `programs/run.py`) | the results directory: `metadata.json`, `tests/N.json`, `.tmp`, `results.json[.bz2]`; a file counter | `initialize`, `write_test`, `finalize`, `load`, `piglit resume` | a result once recorded is never lost, never invented, never run again; what is published is what was recorded | `ResultStore`, `TestRecord` |
| **Runner** (`profile.run`) | two thread pools, their queues, the hooks' place | submit, `test()`, `terminate`, `close`/`join` | every test is tried once, serial tests never together, the end is waited for, an abort stops the pool | `PoolRunner` |
| **Subtest processes** (`ReducedProcessMixin`, `MultiShaderTest`) | `cur_sub`, `subtests`, output of all processes | start, resume behind a stop, mark, interpret | each subtest ends with its own status, none is repeated without need, the loop ends | `ReducedProcess` |
| **Test execution** (`test/base.py`, classes in `test/`) | `TestResult`; a child process group | run, time out, retry, interpret, check dmesg and monitors, log | whatever happens, one result; no failure becomes a pass; no process left behind | `TestExecution`, `Interpretation` |
| **Loggers**, **HTTP log server** (`log.py`) | `complete`, `running`, `summary` under one lock | `start`, `log`, `GET /summary` | counts match what ran; the server ends with the run | `TestExecution` |
| **Monitoring** (`monitoring.py`), **dmesg** (`dmesg.py`) | last line seen; `_abort_error` | `update`, `check` | every new error is seen once, an old one never again | `Monitoring`, `PoolRunner` |
| **Statuses, results** (`status.py`, `results.py`) | none / a `TestResult`, group totals | compare, `TestResult.result`, `get_result`, totals | an order; totals add up | `Statuses`, `TestResults`, `Summary` |
| **Profiles, filters** (`profile.py`) | `TestDict`, filters, forced list | load, filter, iterate, resume | each test once, none that is filtered out, a resume runs the rest | `Profiles` |
| **Summaries** (`summary/*`) | lazily computed names | compare runs | the pages agree with each other and with the statuses | `Summary` |
| **Results updates**, **compression** (`backends/json.py`, `compression.py`) | one results file and its old copy | 7→8→9→10 | the results can always be had, at the current version | `JsonUpdate` |
| **JUnit backend** | an element for each test, expected failures | write, finalize, load | red when something went wrong, or did not go wrong as expected | `JUnitFiles` |
| **Replay** (`replay/*`) | a directory of traces, images | fetch, replay, compare | a trace in the directory is whole; a pass is for one's own image | `ReplayTrace` |
| **wflinfo** (`wflinfo.py`, `core.py`, `test/opengl.py`) | lazily computed, shared by threads | read, skip | computed once, skips deserved | `WflInfo` |
| **Uniform block generator** (`random_ubo.py`) | the members of a block, the names used | choose members, lay out, write | std140: no byte twice, three declarations of one layout | `UniformBlocks` |
| **Built-in function generators** (`builtin_function.py`, `_fp64`) | the test suite, by signature | simulate, filter, vectorize, store | vectors cover scalars; types and values are those of GLSL | `BuiltinVectors`, `BuiltinFunction`, `BuiltinFunctionFp64` |
| **Packing generator** (`gen_builtin_packing_tests.py`) | a table of inputs and accepted outputs | pack, unpack, write | an accepted output is one of the permitted roundings of the float32 that is rounded | `PackingTests` |
| **GL registry** (`registry/gl.py`) | ring and map of ordered sets, classes of aliases, requirements, groups of enums | `add`, `pop`, sort; repair, parse | an ordered map; alias classes; a total order of enums; whatever names an element finds the right one | `KeyedSet`, `OrderedSet`, `AliasMap`, `GLOrder`, `Registry` |
| **Configuration, other commands, other generators, templates** | none over time | | | not modelled |

How they interact. `programs/run.py` builds profiles and a backend, calls
`backend.initialize`, then `profile.run`, then `backend.finalize`. `profile.run`
submits a closure `test()` per test to one of two `multiprocessing.pool.ThreadPool`s;
`test()` opens `backend.write_test(name)` (a context manager that puts the
placeholder down), calls `Test.execute` (command, dmesg, monitors, log), calls
the writer's `finish` with the result, and asks the profile's `Monitoring` whether
to terminate the pool. A second *process*, `piglit resume`, reads the directory that
the first left behind; `piglit summary` reads (and may update) it later. Threads
share the log state (one lock), the file counter (`itertools.count`), the monitors
(no lock; concurrency is forced off), `WflInfo` (a lock per property) and the
directory; replaying processes of several runs share a directory of traces. The
generators and the registry run at build time and share nothing with a run but the
files they leave.

## 2. What is hard here

* **Kills.** Test runs bring machines down; resume is the normal way to finish one.
  Between any two file operations of `write_test`, `finalize` and `_update_results`
  the process may be gone.
* **Threads.** Any number of pool threads write numbered files, log, ask for one
  description of the GL, and may terminate their own pool while the main thread is
  still submitting.
* **Exceptions nobody reads.** The results of `apply_async` are dropped; whatever
  a thread raises ends that `test()` only.
* **Processes that stop early,** with or without their output: a child's standard
  output is a pipe, flushed with a subtest's result, so the *name* of the subtest
  that killed it is usually lost. Or that do not stop: a timeout, a signal that is
  obeyed or not, a helper that keeps the pipe open.
* **Sources that only grow, rotate, or forget.** What is new in a log is what follows
  the last line one remembers, if it is still there.
* **One story in many places.** A status is turned into fixes and regressions,
  into elements of XML, into expected failures; a layout is computed by mutually
  recursive rules for members, arrays and matrices; test vectors are cut into
  partitions. Each is a pure function of many cases that must agree with the others.

`PROJECT.json` ("hazards") lists each of these at the line where it bites, with the
properties that cover it.

## 3. The modules, and how they correspond to the code

### ResultStore — the results directory, run, kill and resume

Variables `meta`, `testsDir`, `files`, `tmps`, `results`, `published` are the
directory. Files have a content of three kinds: *torn* (opened and truncated, not
flushed; json does not parse), *incomplete* (the placeholder), *done*. `phase` is
the main thread; `todo`, `counter`, `work`, `aborted` are the pools and the
`FileBackend`; `saved` and `recorded` are history: tests whose result was moved in
place by this session, by any session.

Each system call that a kill can separate from the next is an action:
`OpenMetadata`, `WriteMetadata`, `MakeTestsDir` (`JSONBackend.initialize`); `Take`,
`Number`, `OpenPlaceholder`, `WritePlaceholder`, `Execute`, `OpenTmp`, `WriteTmp`, `Move`
(`FileBackend.write_test` around `Test.execute`); `OpenResults`, `WriteResults`,
`UnlinkMetadata`, `RemoveEntry`, `RemoveTestsDir` (`JSONBackend.finalize`);
`Kill`; `Resume` and `ResumeRefused` (`programs/run.py:resume` with
`backends.load` and `load_results`). `Faults` selects what can go wrong:
`"kill"`, `"raise"` (an exception out of `execute`), `"io"` (a failing open, write
or move), `"abort"` (a monitoring rule terminates the pool). `Streams` is the
presence of `jsonstreams`, which changes the order of `finalize`; `Compressed`
whether the results file has a compression suffix, which changes what
`load_results` looks for.

Abstractions: a kill ends the process, not the machine, so flushed data stays
(`fsync`, `OPTIONS.sync` are left out); contents of results are one value; one pool
instead of two (PoolRunner has both); `abort` here lets no further task slip
through. `piglit run -o` over an old directory removes it and is the initial state
again.

### TestRecord — what the directory promises

An abstract specification: per test a record that only moves `none → incomplete →
done`, and a report that is a snapshot of the records, or absent. `ResultStore`
states `ImplementsRecord == Record!Spec` with the mapping `Visible`: the files of
`tests/` while `metadata.json` is there, the results file afterwards.

### PoolRunner — profile.run

`phase`, `prof`, `next` say where the main thread is in `run_profile`/`run_threads`;
`poolState`, `queue`, `pc`, `item` are the two pools (external: `multiprocessing`);
`abort` is `Monitoring._abort_error` per profile, `complete` the log's counter;
`ran`, `hit`, `late`, `unwritten` are history. `Skip` and `Submit` are the body of the loop of
`run_threads`; `Wanted(q, i)` is the filter `run_profile` passes; `SecondPass` and
`Teardown` end the passes; `CloseSingle`, `CloseMulti`, `Finish` are the two
`close()`/`join()` pairs, the summary and the final look at the monitors. A worker's
`Take`, `Run`, `Check`, `Log`, `EndTest` are `test()` with `Test.execute` inlined at
the points where other threads can see a difference. `test()` enters
`backend.write_test` before it calls `execute`: where the placeholder cannot be
written (`TakeFails`) the test is never executed, and where the result cannot be
(`WriteFails`) the monitor is not asked. A `DummyTest` does nothing when it is executed
and never calls the log (`RunDummy`). `terminate()` drains the queue
but for at most one task that the pool's task handler had already taken out of it
(`Leftover`).

A remark rather than a property: `Teardown` is called when the tests of a profile
have been *queued* (`profile.py:681`), not when they have run.

### ReducedProcess — several subtests in one process

`N` is `len(self._expected)`. `fate` and `quiet` are what the environment chose: how
each subtest ends, and whether a subtest that stops the process does so before its
name is out. `pc`, `resumed`, `cur`, `first`, `status`, `verdict` are the Python side
(`cur_sub`, the kept `returncode`, `result.subtests`), `at`, `named`, `exit`,
`reported`, `raw` what the output says, `starts` is history. `RunSubtest`, `Stop`,
`Hang`, `Finish` are the process (`shader_runner.c`, `piglit_report_result`);
`Cherry`, `Resume`, `MarkLast` are `_run_command`; `Interpret` is
`PiglitBaseTest.interpret_result` followed by `Test.interpret_result`.

Assumptions about the process, read off `shader_runner.c`: with `-report-subtests`
it exits with 0 and no skip message only after its last subtest; a subtest that
reports for the whole process does so as skip (exit 0) or as a failure (exit 1).
A timeout gives up the whole test, and every subtest becomes `timeout`, as in
`Test.run`.

### TestExecution, Interpretation, Statuses, TestResults — one test, its processes, the loggers

One thread per test walks through `Test.execute`. `at` is where it is; `leader` and
`helper` are the process `Popen` started (in a session of its own) and at most one it
forked, which may hold the pipes that `communicate()` reads. `Prepare`, `CheckSkip`,
`Spawn`, `Communicate`, `Timeout`, `Terminate`, `Poll`, `Kill`, `Drain`, `Interpret`,
`Check` and `Log` are the steps at which an exception, a signal or another process can
make a difference; `Fork`, `LeaderExits` and `HelperExits` are the processes. `Start`
and `Log` are the logger's, under its lock; `ServerCheck`, `Request` and `Reply` the http
server's loop. A retried command (`WindowResizeMixin`, `DEQPBaseTest`) goes back to
`Spawn`. A status the assertion of `_log` refuses ends the test in `lost`.

`Interpretation` has `interpret_result` of each class as an operator from a return code
and lines of output to a result; `Interpret` picks one of `Classes[t]`. Lines are
records, not text. `TestResults` is `results.py` (the worst subtest, crash before
all, the lookup by name), `Statuses` the order of `status.py`.

### Monitoring — what is new in a log

One thread (monitored runs have no second) reads every rule's source before and after
each test, while the system writes, rotates, hides and shows files and the kernel's ring
forgets its oldest line. A line is written as two pieces, because a locked file is read in
chunks that need not end where a line does. A line's `id` is its identity for the
properties; the program sees it only in the sources whose lines carry a timestamp.
`Begin`, `UpdateMonitoring`, `UpdateResult` and `Check` are the four calls `Test.execute` makes.
PoolRunner keeps the abstract view: a check may match.

### WflInfo — one lazy value, many threads

`Ask` is the attribute lookup, `Enter` the locked flag, `Call` one run of the program
`wflinfo` with each of its endings, `Again` the second build of `compat`, `Leave` the
return and `Store` the assignment that `lazy_property` makes later, outside the lock;
`Decide` is `FastSkip.test`. Python's recursion limit is `MaxDepth`.

### ReplayTrace — a directory of traces that runs share

`Ensure` to `Receive` are `download_utils.ensure_file`, with every chunk of a download a
step; `Dump` and `Compare` replay the trace and judge the first image that `glob` finds,
which an earlier replay may have left. `Kill` is the timeout of a replay.

### Profiles, Summary, JsonUpdate, JUnitFiles — the files piglit reads and writes

`Profiles`: from a command line and the files that exist to the tests of a run; then a kill
at any moment and the filters `piglit resume` makes of the results. What a profile yields is a
function from places to tests, without an order, since the threads take them in any. Forced lists behave
differently in the two classes of profile (section 7). `Summary`: results files are filled
test by test with every outcome, and every page is evaluated in every state. `JsonUpdate`:
several processes load one file of version 7, each renames, creates and writes; files are
inodes, so that a rename does not disturb those who hold one open. `JUnitFiles`: the element
of each test under every table of expected failures and crashes, `finalize`, `load`.

### UniformBlocks, BuiltinVectors, BuiltinFunction(Fp64), PackingTests — the generators

They are pure; the state is what the generator has made so far. `UniformBlocks` adds members
(a behaviour is one block) and derives layout, declarations, test vectors and comparisons;
`Drawn` are the descriptions `generate_ubo` can draw, and `EmitShaderTest` is the file that is
written. `BuiltinFunction` takes one call of `f` after another and stores its test vectors by
signature; `BuiltinVectors` has the values, the simulated functions, the filters
(`match_*`), `_vectorize_test_vectors`, and the reference definitions that the results are
held against; `BuiltinFunctionFp64` is the copy for doubles. Floats are samples, a function
whose values are no samples yields `Real`. `PackingTests` computes with fractions: `Round`
in both modes, the packing functions, the tables and the tests written from them. `Float32` is the
conversion of `FuncOpts.round`, of the inputs and of what is unpacked: to the nearest fraction with
`FloatBits` significant bits and at most `FloatPlaces` binary places. The doubles between a float32
and what is rounded are taken as exact, which a product of a float32 and a limit is. A float is a
fraction with a sign of its own, since `packHalf2x16(-0.0)` is not that of 0.0; `Exponent` is
`frexp`, and `Carried` the overflow of a rounded mantissa into the exponent. The widths are
constants: the runs have words of 4 and 8 bits, halves with 3 bits of exponent and floats with 12
significant bits and 16 places, the proofs 8, 16, 5, 24 and 149.

### KeyedSet, OrderedSet, AliasMap, GLOrder, Registry — the GL registry

`KeyedSet` is the ring of nodes with a map of `OrderedKeyedSet`, each method an action, and
implements `OrderedSet`, a sequence of keys and values, under the mapping "walk along the
links"; the sorting methods (section 7) and the unions, which make other sets, are not among them.
`AliasMap` adds commands in every order. `GLOrder` parses requirements in every order and sorts enums into a list, in every order. `Registry` extends the last two and is
`parse`: `Repair` is `_repair_xml`, `ParseCommand`, `ParseEnums`, `ParseFeature` and
`ParseExtension` take the elements in the order of the four loops, `EndRegistry` is the removal of
`None` from the vendors. An exception anywhere is `Raise`, after which there is no registry. An
`Enum` is its name, value, api and suffix: two objects with the same ones, in two groups, would each have
requirements of its own, but no document has them (`DocumentsAssumption`), as `gl.xml` has not. The
inputs are a small `gl.xml` and the same with something missing, renamed or unknown.

### MCParts, MCInputs — the parts side by side

The parts that share no state with the run of the tests nor with each other stand side by side
in `MCParts`, most of them extended, the blocks and the built-in functions as instances; the variable
`subject` names the one at work, so that a state of a behaviour belongs to one part and nothing is
multiplied. It is a way to check them in one run, not a composition: interleavings of two subjects
would show nothing, since they have no variable in common. `MCInputs` holds their inputs.

## 4. The runs

| run | expects | question |
|---|---|---|
| `ResumeOnce` | pass | Three tests, two threads, a kill anywhere, one resume (killable as well). Does anything recorded get lost, repeated, overwritten or misreported? Does the directory implement `TestRecord`? |
| `ResumeFaults` | pass | Two tests, two threads, all four kinds of fault, compressed results (the default): does whatever a kill leaves load, but for the two directories of section 7? Does every session that is not killed end by itself, whatever raises? |
| `PoolSome` | pass | Concurrency "some", two profiles that share a test, tests and writes that raise, a dummy: serial tests alone, all tried once, all that were executed counted but the dummies. |
| `PoolMonitored` | pass | Monitoring and failing hooks: `terminate()` stops the pool, `run()` ends. |
| `CrashResume` | pass | All fates of four subtests: each judged by its own, none repeated, the loop ends. |
| `TestRuns` | pass | A native test with subtests and a timeout and a test of any other class, with every way out of `execute` and both loggers: do the counts match, is no process left behind, does no failure become a pass but behind subtests that passed, do a killed test and the http server end? |
| `Parts` | pass | The subjects of `MCParts`, one at a time: do new errors abort and only new ones; is a kernel message put down to the right test; has every thread one answer; is a trace whole and a pass one's own; does a resume run the rest; do the pages agree; do results survive updates; is green expected; are layouts disjoint and agreeing; do vectors cover scalars, are types and values those of GLSL, are packed words permitted; is the ring an ordered map, the alias map one of classes, the list of enums sorted, the parsed registry linked? |
| `ResumeTwice`, `MonitoredAbort`, `RefusedStatus`, `CrashHidden`, `ForcedResume` | violation | see section 7 |

Bounds, and why they are enough.

* `MaxSessions = 2`: one run and one resume. Every file operation of both can be the
  last one. With three sessions `ResultsNotOverwritten` and with it
  `RecordedSurvives` are *false* of the code; that is the run `ResumeTwice`, not a
  bound that hides it. Likewise with `"io"` faults the counting in
  `file_start_count` breaks after one session, which is why those properties are in
  `ResumeOnce` and the weaker ones in `ResumeFaults`.
* Three tests on two threads: the numbering hazards need a finished file, an
  incomplete one, and one not begun; collisions between threads need two. Two is also
  the *largest* number of threads for which the numbering holds with one resume and
  kills only. With three, `0.json` and `1.json` can be torn (opened, not flushed) when
  the third thread has finished `2.json`; the resume then counts one test, starts at 2
  and truncates it. That is the same miscount as in `ResumeTwice`, and not hidden by
  the bound: what is claimed of resumed sessions is claimed for two threads.
* `PoolSome`: two serial tests, one of them a dummy, and two concurrent tests and two concurrent threads fill
  both pools; the shared test shows that items, not names, are scheduled once.
  `PoolMonitored`: three tests in a profile, so that tests wait in the queue when it
  is terminated, and a second profile whose submission is refused.
* `N = 4`: two stops in a row, one before and one behind a subtest that reports,
  in every combination of named and quiet. The proofs cover every `N`.
* `TestRuns`: `Attempts = 2` (5 in the code) has a retry and a last attempt. Outputs: each
  class's word for a pass with every kind of return code, silence, a signal, its words for a
  failure, a garbled line, a subtest that passed in front of a signal.
* `Parts`. Monitoring: three lines, two tests, a ring of two, so that the line remembered can
  be rotated away, forgotten by the ring, or repeated. WflInfo: three threads, one of them
  unaffected by any answer; a recursion limit of 2, since a limit only has to be reached.
  ReplayTrace: two processes, two chunks (a file empty, in part, and whole), four replays.
  Profiles: two files of two tests with one in common, every selection with and without
  filters, lists and missing names. Summary: two results files, one test with every status,
  or with one or two subtests. JsonUpdate: two loaders of a file whose update has its name, one
  killed: with two kills the results can be lost, when both have read the file, one dies before it
  has written its copy, and the other, which renames that over the old file, before it has created
  its own. JUnitFiles: two tests, one of a
  name that is escaped, all tables for one test and one subtest. UniformBlocks: two members (a
  third adds a gap of a kind two have), a matrix, a vector of doubles, arrays of 2, structures
  in arrays in structures. Built-ins: `Width = 3` bits for `int` and 6 for `int64_t`, with the
  least and greatest `uint`; the vectors, matrices and calls are those of the code, the samples
  a few. Packing: words of 4 and 8 bits, halves with 3 bits of exponent and 4 of mantissa, with
  subnormals, the step to normal numbers, and the steps around the greatest; floats of 12 bits, so that
  the conversion shifts numbers of both widths (the proofs are of the real widths). GL: five commands
  in two chains of aliases, one to a name that is no command; six enums, three requirements of
  a kind; fourteen documents, one that needs nothing but the two repairs and thirteen with one
  thing changed, among them the order of the groups and each way of raising; an extension names one
  enum in two of its elements, for different apis.

Deadlock checking is off in all runs: each models something that ends.

Every property of a passing run is shown to depend on the code by a mutant
(`PROJECT.json`, "mutants"): the definitions named for what a plausible bug would
do — `StartAtZero`, `NoBump`, `NotDrained`, `AtStop`, `SignalLeader`, `KeepsAll`,
`RenameNothing`, `JoinedByName`, ... — stand before the definition they would replace.

## 5. Fairness

`ResultStore!Fairness` and `PoolRunner!Fairness` give weak fairness to the main thread
and to each worker: the operating system schedules the threads of a live process, and
a test ends because it ends or because of `Test.timeout`. Nothing is assumed of kills,
faults or of the user who may resume. In `ReducedProcess` a single thread alternates
with one process; `WF(Next)` says the process ends or is killed.

`TestExecution` looks into that assumption: its `FairSpec` has fair threads and timers, and
none for processes - a leader may never exit, a helper may hold the pipe for ever. What then
holds is weaker, and `TestsEnd` says it: from `killpg` on a test ends; with a timeout it ends or
waits in the second `communicate()` for a helper that survived because its leader had obeyed
`SIGTERM`. The http server ends if somebody keeps asking it (`WF(Request)`), because it
looks at the counts only between two requests.

In `Parts` only the threads that ask for `WflInfo` are fair, each on its own.

A test with `timeout = None` and a child that never exits violates the assumption of the
runner; such a run does not end, and the models do not claim it does.

## 6. What is proved

All proofs are checked by TLAPS; they hold for every number of tests, threads,
profiles, sessions, subtests, commands, results files and chunks, and for every choice of faults,
under the named assumptions on the constants only. What those ask, beyond the shape of the
constants:

| assumption | says | because |
|---|---|---|
| `CommandsAssumption` (AliasMap) | a command is declared once; following aliases never comes back | `gl.xml` |
| `DocumentsAssumption` (Registry) | an enum is declared in two groups only where a repair is for it; every provider supports an api | `gl.xml`, in which `GL_ACTIVE_PROGRAM_EXT` is the one name declared twice |
| `DeclaredOnce` (GLOrder) | no enum or provider is declared twice | the `OrderedKeyedSet`s of the registry |
| `SummaryAssumption` (Summary) | no test has the name of a subtest of another; the subtests of a test have names of their own | subtests are keys of a dict; test names are paths of groups |
| `NamesComeBack` (JUnitFiles) | no name is loaded as another's | not so in general: `junit_escape` turns `.` into `_` and adds a `_` to the names `api` and `search`, and loading strips a `_` at the end of any name, so that two names can become one; results with such names are outside the theorem |
| `ReadersAssumption` (Monitoring) | `options['dmesg']` is none of the rules, and its log has timestamps | `LinuxDmesg.__init__` refuses one without |
| `OutputsAssumption` (TestExecution) | a process that was waited for has a return code | `Popen.returncode` |

**ResultStoreProofs.** The inductive invariant `IInv` is `DirectoryInvariant` and
`FilesBounded` (there is a greatest file number, so that "the highest number" of a test
exists). `OneWriterPerFile` is not inductive on its own:
it needs that every busy thread's number is behind the counter (`BusyNumbered`).
`SavedResultsStay` needs `TmpReady` (the thread that moves has a finished `.tmp`) and
`SavedSettled` (a saved result sits in a file behind the counter that no busy thread
owns). Theorems: `TypeCorrect`, `NoSharedFile`, `SavedStays`, `NothingInvented`
(`OnlyRecordedIsReported`), `FinalStays` (`FinalResultsKept`), which has
`Streams = FALSE` as a hypothesis, because with jsonstreams it is false (section 7), and
`KilledLoads` (`KilledIsLoadable`), for compressed results files and others: `backends.load` with the
detection of the extension gives a resume what a killed session recorded, whatever entry the directory
lists first, exactly when neither of two things is in its way (section 7): a `.tmp` that a thread was
killed over, while there is no results file (`TmpInTheWay`), or a torn `results.json.bz2`
(`ResultsInTheWay`). `LoadInv` says at which steps of `finalize` which of `metadata.json`, `tests/` and the
results file are there. With jsonstreams the order of these steps is another, and it is left out here too.

The second part is about the first session, what one `piglit run` is worth, under
`NoRepetition` (in the profile no test has the name of another; two profiles of one run that
share a test are outside the theorems). `FirstSessionInvariant` adds to `IInv`, for
`session = 1`: `OneFilePerTest` - a test waits, or one thread has it, and only that thread's
file is about it, so "the higher number wins" never has to decide;
`FileFollowsThread` - a thread's file holds what its place in `write_test` says, and a file it
is about to open is not there; `StageOfDirectory` - which of `metadata.json`, `tests/` and the
results file is there in which phase; `RecordedIsThere` - where the recorded results are.
Theorems: `RunLosesNothing` (`RecordedSurvives`), `RunIsFaithful` (`PublishedIsFaithful`), and
`RunImplementsRecord` (`ImplementsRecord`): with no resume the directory implements
`TestRecord`, whatever fails and wherever the run is killed. Under the mapping
`WritePlaceholder` is `Begin`, `Move` is `Finish`, `WriteResults` is `Publish`, and everything
else, the removal of `metadata.json` and `tests/` included, changes no record.

The third part is what a run and any number of resumes are worth. In general they lose
results (`ResumeTwice`), so the theorems have a hypothesis about each session, `SoundSession`:
while it runs with `metadata.json` there, its next number is beyond every file that can be
read; without `metadata.json` it has nothing to run (and no jsonstreams). That is what
`FileBackend` asks of its caller (`abstract.py:160`) and what `resume` does not ensure
(`run.py:447`). A first session is always sound, and within a session soundness is never lost
(`SoundStep`), so it is a condition on the moment of a resume only.

* *Any number of sound sessions,* of any threads, faults and kills, with or without jsonstreams.
  A test may now have several files, torn and incomplete ones of earlier sessions among them,
  and the highest number decides. `SessionsInvariant`, beside `IInv`: `TestsApart` - what waits or
  is at work has no result yet; `OwnFileIsNewest` - a thread's file is the newest about its test and
  takes the place of nothing that can be read; `RecordedIsNewest` - of a recorded test the newest
  file says "done"; `StageOfSession` and `RecordedIsPublished` - as before, but a resume may find
  each of the places a kill can leave. `StaleIsOutnumbered` is the one that is not obvious: a kill in
  front of `unlink(metadata.json)` leaves a complete results file beside the files, which a resume
  may load in their place (`Compressed`), also after a later session has written files it does not
  know of. It is then out of date, and its count is too small; what saves the session that loads it
  is that a newer file has a number beyond that count, so that a session that starts at the count
  is not sound, and one that is sound has a current file. The lemma `ViewByNewest` says that `View`
  is what the newest files say, and `ViewStays` when it cannot change. Theorems:
  `SoundSessionsLoseNothing` (`RecordedSurvives`), `SoundSessionsAreFaithful`
  (`PublishedIsFaithful`), `SoundSessionsOverwriteNothing` (`ResultsNotOverwritten`, which the run
  `ResumeTwice` violates with sessions that are not sound), `SoundSessionsKeepFinalResults`
  (`FinalResultsKept`; a sound session never gets to `finalize` without `metadata.json` under
  jsonstreams), `SoundSessionsImplementRecord` (`ImplementsRecord`: a placeholder written for a test
  an earlier session left incomplete is a stutter, `OpenResults` over a stale results file `Retract`).
* *The first resume is sound* for every profile and wherever the run was killed or aborted, if the run
  has at most two threads, its tests raise nothing, its writes succeed, and jsonstreams is not
  installed. `FirstRunInvariant`: each number that was given out is that of a file that can be read or
  of a thread that has not written its placeholder, and of two such threads one has the last number
  (`NumbersUsed`); so below a file that can be read at most one number is missing
  (`AtMostOneGap`, where two threads are needed), and there are as many tests in the files as the
  greatest number says (`CountReachesNumbers`, by an injection from numbers to names): the count
  plus one is beyond it. `EveryTestSomewhere` and `EverythingPublished` say that a run which got as far
  as a results file has nothing left to resume. Theorems: `OneResumeIsSound`, and from it and the above
  `OneResumeLosesNothing`, `OneResumeIsFaithful`, `OneResumeImplementsRecord`, which are what
  `ResumeOnce` checks of three tests. Each hypothesis is needed: TLC finds results lost after one
  kill and one resume with a third thread, with `"raise"`, and with `"io"`, and jsonstreams
  truncates what was published.

**PoolRunnerProofs.** `PoolInvariant` with `TypeOK`. Its heart is `Handed`, what has been
given to a pool at each point of the two passes, and `Home`, the one pool an item goes
to: an item that waits is handed, at home and has not run; a busy thread holds an item
nobody else holds and that waits nowhere; a handed item that has not run waits or is
held. An item leaves a queue without a thread holding it only if it is `unwritten`, and then never
runs. `Counted` ties the log's counter to the items past `log.log` that are no dummies. The property says by
how much the counter then misses the total it was created with. Theorems:
`TypeCorrect`, `SerialTestsAlone`, `EveryTestRan`, `EveryTestCounted`,
`TerminationStops`, `AbortIsJustified`.

`AbortIsJustified` says that `PiglitAbort` has a reason. The converse, that a match ends in
`PiglitAbort`, is what the code promises and does not keep (the run `MonitoredAbort`).
`MatchesAbortButForTwo` says how far it goes: where no exception leaves a test or a hook, it
fails in two ways only. One more test got past the check for termination, and its own check of
the rules replaced what had been found; or the main thread was still submitting, and
`apply_async` raised on the terminated pool. Its invariant `MatchKept`: a monitored run has one
thread (`OneThread`), so as long as nothing slips through, the monitor remembers what it found, and
the thread that found it is on its way to `terminate()` or has been there, after which only a
submission can raise.

**ReducedProcessProofs.** `SubtestInvariant`: everything up to `cur` is *settled* - its
status stands or its result is in the output, which will replace a wrong mark - and what
the running process has named since has reported. It is needed because the mark
`_run_command` writes may be on the wrong subtest: after a quiet stop it sits on the one
before. The lemma `Advance` says where the next process begins. Theorems: `TypeCorrect`
(with `cur_sub` in range), `EveryoneJudged`, `NobodyRepeated`.

**TestExecutionProofs.** `Inv` is `LogCounts` with `Where`, which ties the state of the leader
and the helper to the place of the thread: in front of `killpg` the leader is running or not yet
waited for, so its group still has its name. Almost every step is *quiet* (it neither begins nor
ends a test); the lemma `QuietCounts` says what such a step leaves alone, and only `Log` has to
be argued. `PassesAreEarned` (`PassIsEarned`) is another induction: `ResultsInv` says that a result
is as it was made until it is interpreted, that it is interpreted only with the return code of a
process, and that from then on a pass is earned. The `except` clause of `execute` stores a fail over what
was there and keeps the subtests (`ExceptEarns`), behind which `TestResult.result` can still be a pass:
the property has exceptions within it, and says of a crash that valgrind and this clause are the two
ways in which passing subtests hide it. For each class a lemma (`NativeEarns`,
`PlainEarns`, `DeqpEarns`, ...) says that its `interpret_result` makes no pass out of a signal or of
a return code other than 0; `OutputRead` is the induction over the lines of an output, `DmesgEarns`
what `update_dmesg` may still do. Theorems: `LogsCountTests`, `NoProcessLeft`, `PassesAreEarned`.

**StatusProofs.** The comparisons of `status.py` and `max()` of a sequence of statuses.
`StatusesAreOrdered`: `<`, `<=`, `>` and `>=` are those of one total order, in which skip and notrun,
whose fraction counts for nothing, are the least; `==` is not part of it, because `NoChangeStatus`
compares names (skip is not notrun, nor is either equal to pass). `WorstIsOne` and
`WorstIsGreatest` are what the proofs about summaries need of the recursive function `Worst`, by way
of `NoLeast` (a set of naturals without a least element is empty), which stands in for
induction where the library's theorems cannot be used; `SumIsCardinality` is the same for a sum over
a set of statuses.

**SharedProofs** is about what threads and processes share.

* *wflinfo.* `BuilderAlone`: who builds is alone, and nobody else has an answer that is not stored; the
  flag, set under the lock and never reset, keeps everybody else out while the lock is free and the
  value not yet there. `Truthful`: what was read is what the implementation has, or was not read.
  Theorems: `OneAnswerForAll` (`OneAnswer`), `AskedOnceForAll`, `SkipsDeserved`.
* *Traces.* `LastWriter`: unless a download has ended early, the file is whole or some process that
  writes has all it wrote since in it - whoever truncated it last. `ImagesInv`: an image with the
  expected checksum is always the one the next replay overwrites. Theorems: `CacheIsComplete`,
  `PassIsForOwnImage`.
* *Updates.* Under another name (`FirstKept`) the file that was loaded first is never written again.
  Under its own (`OneKill`) at most one file is left half written by somebody who is gone, and
  while it is there the old one is, or somebody who lives has the results. `UpdatesSurvive` has one kill
  as its hypothesis in the second case, and none in the first.
* *Monitoring.* A reader knows only the text of the last line it read. `ReadUpTo`: no line that has
  been read stands behind the last one that says the same; where lines are all different, only
  lines that have been read stand in front of it. It has to hold through writing, rotation, the
  forgetting of the kernel's ring and hidden files. Theorems: `DmesgBlames`
  (`LogBlamesTheTest`), `MonitorAborts` (`NewErrorsAbort`), both for files that are not locked; a
  locked one is read in chunks that need not be lines.
* *JUnit.* `ElementsFollow`: each element is that of the result recorded last under its name, and what is
  loaded is the status of an element of its own. `RedIsUnwanted` is the table of `_make_result`.
  Theorem: `ExpectedOnesAreGreen` (`ExpectedIsGreen`).
* *Summaries.* The state is any number of results files with any outcomes (`FilesInv`), so that the argument is
  about operators: `PagesOfTwo` compares two statuses, `PagesMirror` exchanges the two files,
  `OneStory` is a name's place on the four pages, `FeatureWithoutProblems` the rate of a feature,
  `ChangesOfAll` the lists over all pairs of neighbours, `ColumnsCount` the columns of the console,
  by a bijection between the occurrences that are counted and the names. Theorem: `PagesTellOneStory`
  (`PagesAgree`).
* *Profiles.* `FewerYielded`: a profile to which resume adds the names it excludes yields what it did
  without them, less those names, and fails if it failed before. `LengthSuffices`: `__len__` is no less
  than the tests that are yielded. With that the invariant (`ProfilesInv`) only has to carry the
  command and the results from one session to the next. Theorem: `ResumesRunTheRest`
  (`ResumeRunsTheRest`), under the hypothesis `NoListOverXML`: without it the resume can fail or run
  dummies (section 7, `ForcedResume`).

**RegistryProofs** is about `registry/gl.py`.

* *Aliases.* Two names are `Related` when no set of names closed under the commands separates
  them, which says "a chain of aliases" without a recursive definition. `AliasInv`: each set of the map
  is the one all names of its commands are mapped to (`MappingComplete`, what the code asserts),
  contains nothing unrelated, and no command was lost. The early return of `add` (both names
  already have one set) is the step that needs the assumption on `gl.xml`: a chain that came back
  would drop a command (`NoEarlyReturn`). Theorems: `MapComplete`, `SetsAreAliasClasses`.
* *The ordered set.* `RingInv`: some sequence of nodes is linked both ways from the root to the root,
  and the map leads from each key to its node. There is one such sequence (`OneWalk`), so it is what
  `iteritems` walks along, and each method changes it as the ordered map changes. Theorem:
  `RingIsOrderedSet`, the refinement `ImplementsOrderedSet`, for what adds, changes, pops and clears; there is
  no step for sorting, which is broken (section 7).
* *The order of enums.* `LessIsBefore` turns the cases of `Enum.__lt__` into an order by value, rank of the
  vendor and name; the list stays in it although `sorted()` looks at two neighbours only
  (`InsertInv`). Theorem: `EnumsAreSorted`.
* *The parser.* `RepairMakesOne`: after `_repair_xml` no name is in two groups with different values,
  the one thing that a later group could spoil of an earlier one. `RegistryInv` then says of each
  loop what the elements parsed so far have left: `CommandsIn`, `EnumsIn`, `ProvidersIn`,
  `VendorsIn`. `AllLinked` is the induction over the elements of one provider. Theorem:
  `RegistryLinked` (`RegistryIsLinked`).

**GeneratorProofs.** The expected words of the packing tests, at the widths the tests have. TLC can check the
model with words of 4 and 8 bits; to compare every input with the 31745 halves of its sign is out of
its reach, and so is every float that is not an input. `ExpectedWordsAreRight`: with words of 8 and 16 bits,
an exponent of 5 and float32, the specification of `PackingTests` keeps `PackingSound`, the invariant that the
run `Parts` checks with smaller ones. The five hypotheses are the widths of the code; the lemmas are stated
of the instance `Packing`, which has them, and `RealConstants` to `RealSound` carry them over. What it rests on is stated of any float and any word: `WordsAreNearest` and
`WordsRepack` for snorms and unorms of 8 and 16 bits and every fraction or infinity, `HalvesAreNearest`
and `HalvesRepack` for halves and every float that is a multiple of a quarter of the least half
(`HalfFloats`; the table has no finer ones).

A word is not always the nearest one, because `FuncOpts.round` converts to float32 first. Of the input 0.9 the
product with 255 is just below 229.5, its float32 is 229.5, and 230 is expected in either mode; with 65535,
58982 for a number just below 58981.5. The comment at `gen_builtin_packing_tests.py:113` expects
such shifts. What holds, and is what `NearestWord` says, is that a word is within one half and
half a place of a float32 as large as a word can be (2^-(24-w) of a unit).

For words the argument is one about `FuncOpts.round` (`Rounds`: rounding returns a number within one half,
and says which at a tie; `Converted`, and `TwiceRounded` for both), `Clamped`, and the two's complement of what it
returns (`SnormWord`, `UnormWord`). That a word packs into itself again needs that the conversions of what is unpacked and of its product
with the limit together move it by less than one half (`UnitConverted`, `SameAgain`). `PlacesFound` is
that a float32 has its last place somewhere; the powers up to 2^149 are a recursive function (`DoublingExists`),
whose values the solver never sees. For halves, floats are counted in quarters of the least half, and a half is a multiple of
the step of its exponent (`ValueOf`). A float that is not too large lies in one binade (`Binades`,
`OneBinade`), where `frexp` finds it (`SomeExponent`, `ExponentFits`); there the mantissa is the float in
steps, rounded (`PackedSmall`, `PackedNormal`), which is a multiple of the step that no other is nearer than
(`Closest`); a carry is the first half of the next exponent and has the same value (`CarriedIs`); and
no half of another exponent is nearer than all multiples of this step (`Grid`). A value too large for the
carry to be finite is nearest to infinity, counted as the first value there would be. Powers of two are kept behind
`Pow` and taken apart with `PowSum` and `PowGrows`, because the products are not linear.
`FieldOfWord` takes a word apart into the components it was put together from.

The operators of the built-in function tests, the same way: `Builtins` is `BuiltinVectors` at 32 bits, with
samples that are left open. `OperatorsGiveTheirType`: whatever two values a filter lets through, of any
base type and shape (`Types`), the function that simulates the operator returns a value of the type
GLSL says, unless it refuses them. `AssignmentsKeepTheType`: with the filters of the assignments, that of the
variable; for products this is what `match_assignment_multiply` must exclude. `IntegersRoundRight`:
for every two arguments of ints and uints, a quotient is rounded toward zero and a shift to the right
down, although the code divides absolute values and multiplies by the signs (`Truncated`,
`DividedRight`), wraps three times (`WrapKeeps`) and changes the sign of what is shifted by
(`Amount`). The least int is left out of the hypothesis: it has no absolute value, and no sample of
an operator is it. The rules of types have a case for each kind of argument; proving them showed that guards
of `CASE` expressions overlapped in `BuiltinVectors`, `Profiles` and `UniformBlocks`, where TLC
takes the first and TLA+ any of them. They are disjoint now, as the code's if/elif chains are.

**Model-checked only.**

* Liveness (`SessionsEnd`, `RunEnds`, `Terminates`, `TestsEnd`, `ServerStops`, `AskersEnd`): the
  prover has no rule for fairness.
* `MembersDisjoint`, `BlocksAgree`: the layout of a block is defined by mutually RECURSIVE operators
  over types, which have no bound that a recursive function could have as its domain. `UniformBlocks` is
  for TLC alone, and no module with a theorem reaches it.
* `BuiltinsSound`: which test vectors there are is the result of folds over the concrete samples, an
  evaluation. What its `OverloadsSound` says of the types and values of one vector is proved of every
  pair of arguments (`OperatorsGiveTheirType`, `AssignmentsKeepTheType`, `IntegersRoundRight`).

## 7. Where the code and its documentation disagree

Each of these is a run with a counterexample and an entry under "findings".

* `ResumeTwice`: `file_start_count = len(results.tests) + 1` counts distinct tests, not file
  numbers (`run.py:447` against `abstract.py:160`). A second resume truncates a finished
  result (with three threads, the first resume can).
* `MonitoredAbort`: a rule that matched can end the run by `ValueError`, or be forgotten
  (`profile.py:659`, `monitoring.py:153` against `monitoring.py:30`), and in no other way
  (`MatchesAbortButForTwo`).
* `RefusedStatus`: a native test that returns 0 and reports nothing stays `notrun`, which the
  assertion of the loggers refuses (`log.py:139`, `piglit_test.py:111`): the exception leaves
  `execute` and the result is never written.
* `CrashHidden`: a test that crashes after its last subtest is on no page of a summary
  (`summary/common.py:97` against `results.py:172`).
* `ForcedResume`: the resume of a run with a test list over an XML profile fails, or makes the
  completed tests dummies (`profile.py:397` against `run.py:450`).

Others were met while modelling and are described here only. In the result store:

* With jsonstreams, `finalize` truncates the results file before it reads `metadata.json`
  (`json.py:178` against "This class is atomic", `json.py:82`). This is `Streams = TRUE`, under
  which `FinalResultsKept` fails.
* A kill while the compressed results file is written hides the intact per-test files from
  resume (`json.py:231`): `ResultsInTheWay`, an exception of `KilledIsLoadable`.
* `get_extension` looks at one entry of `tests/` (`backends/__init__.py:147`), a stray `.tmp` perhaps:
  `TmpInTheWay`, its other exception. Nothing is lost in either; the directory has to be tidied by hand.
* A test whose placeholder cannot be written is not executed, and neither a message nor the count of the log
  says so (`profile.py:643`, `:659`).
* A results file of an old version that is given by path is rewritten under a name that
  follows the compression mode (`json.py:354`): `JsonUpdate` with `SameName = FALSE`.
* `resume` sets `p.dmesg`, which nobody reads, in place of `p.options['dmesg']` (`run.py:463`).
* The JUnit backend writes subtests that it does not load (`junit.py:408` takes the testcases of
  the first level only).

In the execution of tests:

* With concurrency "some" the serial tests do not wait for the concurrent ones
  (`profile.py:673` against "first the thread safe tests then the serial tests", `:625`).
* The teardown of a profile is called when its tests are queued (`profile.py:681`).
* A helper survives a timeout if the leader obeys `SIGTERM`, because `poll()` then skips
  `killpg` (`base.py:305` against "so that it's children can be killed if it times out", `:47`).
* After a timeout the output of all earlier processes of a test with several is overwritten by that of the
  last one (`base.py:311`).
* The class of valgrind tests makes a test that was skipped with return code 0 a pass (`base.py:404`).
  A crash becomes a stored skip (`base.py:407`), behind which the result is that of the subtests
  again: if these had passed, so has the test (`results.py:178`).
* After an exception `execute` stores a fail (`base.py:159`), and `TestResult.result` is again that of the
  subtests: of a test that reported its subtests as passed before, it is a pass, and a crash is hidden. The
  unit test has no subtests: "Test.execute (exception): Sets the result to fail."
  (`unittests/framework/test/test_base.py:211`).
* A dummy of a test list never calls the log (`base.py:338`), but is among the tests the log was created for:
  `complete` does not reach the total, and the http server of such a run does not stop.
* The http server writes a `str` to a byte stream (`log.py:281`), so that a request for the
  summary ends in an exception after the status line.
* "If no extensions were calculated then run all tests" (`opengl.py:72`): a version that wflinfo
  could not tell is 0.0, not None, and skips every test that requires one.
* An image that was kept because it did not match can be found first by `glob` and fail a later replay
  that rendered the right one (`compare_replay.py:64`).

In profiles and summaries:

* Without process isolation a name with an extension makes `load_test_profile` call itself
  without end (`profile.py:571`).
* `TestProfile.copy` copies the `TestDict`, which shares its container (`profile.py:513`).
* `allow_reassignment` has no `finally` (`profile.py:260`): an exception inside leaves it on.
* A test that is skipped in one results file and missing from the other is enabled or disabled
  and not among the changes; one that is skipped in one and notrun in the other is among both
  (`summary/common.py:109`).

In the generators and the registry:

* `random_ubo.py:69` divides with `/` where `//` is meant: under Python 3 no offset is rounded to
  a multiple of its alignment. The model follows the code; that no byte is shared and that the
  three blocks agree holds all the same.
* The shader of a uniform block test compares every fifth member (`i % 5 == 0`, `random_ubo.py:1296`);
  the members between are only queried. `TYPE_ENUM` gives `uint` and its vectors the enums of 64
  bit integers (`random_ubo.py:1708`).
* `random_ubo_trim.py` is Python 2.
* `builtin_function.py:386`: `np.abs` of the least integer is itself, so `_divide` of it has the wrong
  sign; it is not among the inputs. Shifts and integers are copied into the generator for doubles
  and never used there.
* `gl.py:636`: `Requirement.__lt__` is not antisymmetric, and a second requirement by the same
  provider is dropped with its apis, because `__eq__` does not look at them.
* `gl.py:1089`: a group without a type is `small_index` before the test for "SpecialNumbers" is
  reached, so no group has the type that the comment in `gl.py:1022` reserves for that one.
* `gl.py:826`: the vendor namespace of a command is looked for behind an underscore, which the
  names of commands do not have; it is always None.
* `gl.py:251`: `sort_by_key` and `sort_by_value` clear the set and then add its nodes in place of
  its values. Nothing calls them.

## 8. What is not modelled

See "components" in `PROJECT.json` for each part with its reason. In short: command lines,
configuration, HTML and text output, the syntax of XML, the external tools of replay and the test
programs themselves keep no state that a model checker could say something about; the other
generators (`gen_conversion.py`, `gen_cl_math_builtins.py`, `gen_builtin_uniform_tests_fp64.py`, ...) fill
templates from tables. Within the modelled parts: power loss and `fsync`; the aggregation of several
results directories; the parsers of shader files; `TestDict` and its switch; Windows; the shared
and packed layouts of uniform blocks; the values of floating-point functions and their tolerances.

## 9. Plan

What is left, in the order of what it would add:

1. A numbering for resume that makes every session sound (the greatest number in `tests/` plus one),
   checked against `SoundSession`, should the code be changed to it.
2. `TestDict` and `copy`, as the state that profiles share.
3. The aggregation of several results files, and the totals of groups below the root.
4. The conversion rules of `gen_conversion.py` as a second instance of `PackingTests!Round`.

The number of properties and runs stays what it is: each of these replaces one of lesser interest.
