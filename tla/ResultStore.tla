---------------------------- MODULE ResultStore ----------------------------
(***************************************************************************)
(* The results directory of a piglit run: what JSONBackend writes there    *)
(* (one N.json per test, metadata.json, and the final results file), and   *)
(* the sessions that work on it - "piglit run", then any number of "piglit *)
(* resume" - each of which may be killed between any two file operations.  *)
(*                                                                         *)
(* A kill ends the process, not the machine: what was flushed stays.       *)
(***************************************************************************)
EXTENDS Integers, Sequences, FiniteSets

CONSTANTS
    Tests,        \* names of tests
    NoTest,       \* the "test" of a worker that has none
    Profile,      \* the order in which the profiles yield the tests
    Workers,      \* threads of the pools
    Streams,      \* TRUE iff the jsonstreams library is installed
    Compressed,   \* TRUE iff the results file has a compression suffix
    Faults,       \* what may go wrong: see FaultKinds
    MaxSessions   \* bound on run + resume calls

\* "kill": the process dies; "raise": Test.execute lets an exception out;
\* "io": a write of a test's file fails; "abort": a monitoring rule asks
\* for the end of the run.
FaultKinds == {"kill", "raise", "io", "abort"}

ASSUME TestsAssumption == NoTest \notin Tests /\ Profile \in Seq(Tests)
ASSUME OptionsAssumption ==
    /\ Streams \in BOOLEAN /\ Compressed \in BOOLEAN
    /\ Faults \subseteq FaultKinds
    /\ MaxSessions \in Nat
ASSUME FiniteAssumption == IsFiniteSet(Tests)

VARIABLES
    meta,       \* metadata.json: "absent", "torn" (opened, not flushed), "ok"
    testsDir,   \* does the directory tests/ exist?
    files,      \* tests/N.json: N -> [name, body]
    tmps,       \* tests/N.json.tmp: likewise
    results,    \* the results file: "absent", "torn", "ok"
    published,  \* what a results file that is "ok" says: test -> status
    phase,      \* where the main thread is; "down": no process
    todo,       \* tests the pools have not started
    counter,    \* FileBackend._counter
    work,       \* worker -> the write_test context it is in
    aborted,    \* a worker terminated the pool
    session,    \* number of run and resume calls so far
    saved,      \* tests whose result was moved in place by this session
    recorded    \* ... by any session

disk == <<meta, testsDir, files, tmps, results, published>>
pools == <<todo, counter, work, aborted>>
ghosts == <<saved, recorded>>
vars == <<disk, phase, pools, session, ghosts>>

Bodies == {"torn", "incomplete", "done"}
Phases == {"down", "init", "meta", "mkdir", "run", "finalize", "write",
           "unlink", "rmtree", "done", "failed"}
PCs == {"idle", "number", "open", "placeholder", "execute", "opentmp", "writetmp", "move"}
Entry == [name : Tests, body : Bodies]

Empty == [x \in {} |-> x]
Idle == [pc |-> "idle", test |-> NoTest, idx |-> 0]
AllIdle == [w \in Workers |-> Idle]

Put(f, i, v) == [j \in DOMAIN f \cup {i} |-> IF j = i THEN v ELSE f[j]]
Drop(f, i) == [j \in DOMAIN f \ {i} |-> f[j]]

-----------------------------------------------------------------------------
\* What _resume and finalize make of tests/: files that are not valid json are
\* ignored, and of two files about one test the higher number wins.

Readable == {i \in DOMAIN files : files[i].body # "torn"}

About(t) == {i \in Readable : files[i].name = t}

FirstFile(t) == CHOOSE i \in About(t) : \A j \in About(t) : i <= j

LastFile(t) == CHOOSE i \in About(t) : \A j \in About(t) : j <= i

View == [t \in {files[i].name : i \in Readable} |-> files[LastFile(t)].body]

\* The next file number and the one after it.
NoBump(n) == n
Bump(n) == n + 1

\* file_start_count of a resumed run.
StartAtZero(loaded) == 0
StartAtLast(loaded) == Cardinality(DOMAIN loaded) - 1
StartCount(loaded) == Cardinality(DOMAIN loaded) + 1

\* The tests a resumed run leaves out.
NothingExcluded(loaded, noRetry) == {}
Excluded(loaded, noRetry) ==
    {t \in DOMAIN loaded : noRetry \/ loaded[t] # "incomplete"}

\* The positions of Profile that such a run submits to the pools.
Remaining(loaded, noRetry) ==
    {p \in DOMAIN Profile : Profile[p] \notin Excluded(loaded, noRetry)}

-----------------------------------------------------------------------------
\* A run: JSONBackend.initialize, in the three steps a kill can separate.

Init ==
    /\ meta = "absent" /\ testsDir = FALSE
    /\ files = Empty /\ tmps = Empty
    /\ results = "absent" /\ published = Empty
    /\ phase = "init"
    /\ todo = DOMAIN Profile /\ counter = 0
    /\ work = AllIdle /\ aborted = FALSE
    /\ session = 1
    /\ saved = {} /\ recorded = {}

OpenMetadata ==
    /\ phase = "init"
    /\ phase' = "meta" /\ meta' = "torn"
    /\ UNCHANGED <<testsDir, files, tmps, results, published, pools, session, ghosts>>

WriteMetadata ==
    /\ phase = "meta"
    /\ phase' = "mkdir" /\ meta' = "ok"
    /\ UNCHANGED <<testsDir, files, tmps, results, published, pools, session, ghosts>>

MakeTestsDir ==
    /\ phase = "mkdir"
    /\ phase' = "run" /\ testsDir' = TRUE
    /\ UNCHANGED <<meta, files, tmps, results, published, pools, session, ghosts>>

-----------------------------------------------------------------------------
\* The pools: test() of profile.run around FileBackend.write_test.

At(w, pc) == phase = "run" /\ work[w].pc = pc

Step(w, pc) == work' = [work EXCEPT ![w] = [@ EXCEPT !.pc = pc]]

\* An exception leaves test(): the pool keeps it in a result nobody reads.
GiveUp(w) == work' = [work EXCEPT ![w] = Idle]

FileOf(w) == work[w].idx

Take(w) ==
    /\ At(w, "idle")
    /\ \E p \in todo :
         /\ \A q \in todo : p <= q
         /\ todo' = todo \ {p}
         /\ work' = [work EXCEPT ![w] = [pc |-> "number", test |-> Profile[p], idx |-> 0]]
    /\ UNCHANGED <<disk, phase, counter, aborted, session, ghosts>>

\* next() on the shared counter: by then another thread may have been faster.
Number(w) ==
    /\ At(w, "number")
    /\ work' = [work EXCEPT ![w] = [@ EXCEPT !.pc = "open", !.idx = counter]]
    /\ counter' = Bump(counter)
    /\ UNCHANGED <<disk, phase, todo, aborted, session, ghosts>>

OpenPlaceholder(w) ==
    /\ At(w, "open")
    /\ IF testsDir
       THEN /\ files' = Put(files, FileOf(w), [name |-> work[w].test, body |-> "torn"])
            /\ Step(w, "placeholder")
       ELSE GiveUp(w) /\ UNCHANGED files
    /\ UNCHANGED <<meta, testsDir, tmps, results, published, phase,
                   todo, counter, aborted, session, ghosts>>

\* The status of __INCOMPLETE, and one that would pass for a result.
PlaceholderPass == "done"
Placeholder == "incomplete"

WritePlaceholder(w) ==
    /\ At(w, "placeholder")
    /\ files' = Put(files, FileOf(w), [name |-> work[w].test, body |-> Placeholder])
    /\ Step(w, "execute")
    /\ UNCHANGED <<meta, testsDir, tmps, results, published, phase,
                   todo, counter, aborted, session, ghosts>>

\* An open, a write or the move raises OSError: what was there stays.
WriteFails(w) ==
    /\ "io" \in Faults
    /\ phase = "run"
    /\ work[w].pc \in {"open", "placeholder", "opentmp", "writetmp", "move"}
    /\ GiveUp(w)
    /\ UNCHANGED <<disk, phase, todo, counter, aborted, session, ghosts>>

Execute(w) ==
    /\ At(w, "execute")
    /\ \/ Step(w, "opentmp")
       \/ "raise" \in Faults /\ GiveUp(w)
    /\ UNCHANGED <<disk, phase, todo, counter, aborted, session, ghosts>>

OpenTmp(w) ==
    /\ At(w, "opentmp")
    /\ tmps' = Put(tmps, FileOf(w), [name |-> work[w].test, body |-> "torn"])
    /\ Step(w, "writetmp")
    /\ UNCHANGED <<meta, testsDir, files, results, published, phase,
                   todo, counter, aborted, session, ghosts>>

WriteTmp(w) ==
    /\ At(w, "writetmp")
    /\ tmps' = Put(tmps, FileOf(w), [name |-> work[w].test, body |-> "done"])
    /\ Step(w, "move")
    /\ UNCHANGED <<meta, testsDir, files, results, published, phase,
                   todo, counter, aborted, session, ghosts>>

\* shutil.move, and the look at the monitor that ends test().
Move(w) ==
    /\ At(w, "move")
    /\ files' = Put(files, FileOf(w), tmps[FileOf(w)])
    /\ tmps' = Drop(tmps, FileOf(w))
    /\ work' = [work EXCEPT ![w] = Idle]
    /\ saved' = saved \cup {work[w].test}
    /\ recorded' = recorded \cup {work[w].test}
    /\ \/ UNCHANGED <<todo, aborted>>
       \/ "abort" \in Faults /\ todo' = {} /\ aborted' = TRUE
    /\ UNCHANGED <<meta, testsDir, results, published, phase, counter, session>>

-----------------------------------------------------------------------------
\* The end of a session: profile.run returns, then JSONBackend.finalize.

\* pool.close() and pool.join() wait for the queue and for the threads - not
\* for the queue alone, and not for every test to have a result.
JoinedOnResults == \A p \in DOMAIN Profile : Profile[p] \in saved
Joined == todo = {} /\ \A w \in Workers : work[w].pc = "idle"

RunReturns ==
    /\ phase = "run"
    /\ Joined
    /\ phase' = IF aborted THEN "failed" ELSE "finalize"
    /\ UNCHANGED <<disk, pools, session, ghosts>>

\* What finalize needs to get as far as opening the results file: tests/ can be
\* listed and, without jsonstreams, everything was read and checked first.
CanListTests == testsDir

CanOpenResults ==
    /\ testsDir
    /\ Streams \/ (meta = "ok" /\ View # Empty)

\* ... and what a finalize would do that deletes metadata.json too early.
OpenResultsUnlinked ==
    /\ phase = "finalize" /\ CanOpenResults
    /\ phase' = "write" /\ results' = "torn" /\ published' = Empty
    /\ meta' = "absent"
    /\ UNCHANGED <<testsDir, files, tmps, pools, session, ghosts>>

OpenResults ==
    /\ phase = "finalize"
    /\ IF CanOpenResults
       THEN phase' = "write" /\ results' = "torn" /\ published' = Empty
       ELSE phase' = "failed" /\ UNCHANGED <<results, published>>
    /\ UNCHANGED <<meta, testsDir, files, tmps, pools, session, ghosts>>

\* With jsonstreams a missing metadata.json, or not one test, raises here; the
\* library may have closed the object it was writing or not.
WriteResults ==
    /\ phase = "write"
    /\ IF meta = "ok" /\ View # Empty
       THEN phase' = "unlink" /\ results' = "ok" /\ published' = View
       ELSE /\ phase' = "failed"
            /\ \/ results' = "torn"
               \/ meta = "ok" /\ results' = "ok"
            /\ UNCHANGED published
    /\ UNCHANGED <<meta, testsDir, files, tmps, pools, session, ghosts>>

UnlinkMetadata ==
    /\ phase = "unlink"
    /\ phase' = "rmtree" /\ meta' = "absent"
    /\ UNCHANGED <<testsDir, files, tmps, results, published, pools, session, ghosts>>

\* shutil.rmtree removes the entries in the order the directory lists them.
RemoveEntry ==
    /\ phase = "rmtree"
    /\ \/ \E i \in DOMAIN files : files' = Drop(files, i) /\ UNCHANGED tmps
       \/ \E i \in DOMAIN tmps : tmps' = Drop(tmps, i) /\ UNCHANGED files
    /\ UNCHANGED <<meta, testsDir, results, published, phase, pools, session, ghosts>>

RemoveTestsDir ==
    /\ phase = "rmtree"
    /\ files = Empty /\ tmps = Empty
    /\ phase' = "done" /\ testsDir' = FALSE
    /\ UNCHANGED <<meta, files, tmps, results, published, pools, session, ghosts>>

-----------------------------------------------------------------------------
\* The process is killed: all that is left is the disk.

Kill ==
    /\ "kill" \in Faults
    /\ phase \notin {"down", "done", "failed"}
    /\ phase' = "down"
    /\ todo' = {} /\ counter' = 0 /\ work' = AllIdle /\ aborted' = FALSE
    /\ UNCHANGED <<disk, session, ghosts>>

-----------------------------------------------------------------------------
\* piglit resume: backends.load, then the same pools over what remains.

\* get_extension: a results file decides, else any one entry of tests/.
MayDetect == results # "absent" \/ DOMAIN files # {}
MayNotDetect == results = "absent" /\ (DOMAIN tmps # {} \/ DOMAIN files = {})

\* load_results.  The name it looks for when nothing is compressed,
\* results.json.none, is never there.
LoadsPartial == meta # "absent" /\ ~(Compressed /\ results # "absent")
Loadable == IF LoadsPartial THEN meta = "ok" /\ testsDir ELSE results = "ok"
Loaded == IF LoadsPartial THEN View ELSE published

CanResume == phase \in {"down", "done", "failed"} /\ session < MaxSessions

Resume(noRetry) ==
    /\ CanResume
    /\ MayDetect /\ Loadable
    /\ session' = session + 1
    /\ phase' = "run"
    /\ todo' = Remaining(Loaded, noRetry)
    /\ counter' = StartCount(Loaded)
    /\ work' = AllIdle /\ aborted' = FALSE
    /\ saved' = {}
    /\ UNCHANGED <<disk, recorded>>

\* backends.load raises, and the session ends before it began.
ResumeRefused ==
    /\ CanResume
    /\ MayNotDetect \/ ~Loadable
    /\ session' = session + 1
    /\ phase' = "failed"
    /\ todo' = {} /\ counter' = 0 /\ work' = AllIdle /\ aborted' = FALSE
    /\ saved' = {}
    /\ UNCHANGED <<disk, recorded>>

-----------------------------------------------------------------------------
Worker(w) ==
    \/ Take(w) \/ Number(w) \/ OpenPlaceholder(w) \/ WritePlaceholder(w)
    \/ WriteFails(w) \/ Execute(w) \/ OpenTmp(w) \/ WriteTmp(w) \/ Move(w)

Main ==
    \/ OpenMetadata \/ WriteMetadata \/ MakeTestsDir
    \/ RunReturns
    \/ OpenResults \/ WriteResults \/ UnlinkMetadata \/ RemoveEntry \/ RemoveTestsDir

User == ResumeRefused \/ \E noRetry \in BOOLEAN : Resume(noRetry)

Next == Main \/ (\E w \in Workers : Worker(w)) \/ Kill \/ User

Spec == Init /\ [][Next]_vars

\* Threads of a live process are scheduled; nobody has to resume or to kill.
Fairness == WF_vars(Main) /\ \A w \in Workers : WF_vars(Worker(w))

FairSpec == Spec /\ Fairness

-----------------------------------------------------------------------------
(***************************************************************************)
(* Properties.                                                             *)
(***************************************************************************)

\* Type correctness of the state (the variables of FileBackend and the disk).
TypeOK ==
    /\ meta \in {"absent", "torn", "ok"}
    /\ testsDir \in BOOLEAN
    /\ \A f \in {files, tmps} :
         /\ DOMAIN f \subseteq Nat
         /\ f \in [DOMAIN f -> Entry]
    /\ results \in {"absent", "torn", "ok"}
    /\ DOMAIN published \subseteq Tests
    /\ published \in [DOMAIN published -> {"incomplete", "done"}]
    /\ phase \in Phases
    /\ todo \subseteq DOMAIN Profile
    /\ counter \in Nat
    /\ work \in [Workers -> [pc : PCs, test : Tests \cup {NoTest}, idx : Nat]]
    /\ aborted \in BOOLEAN
    /\ session \in Nat
    /\ saved \subseteq recorded /\ recorded \subseteq Tests

Busy(w) == work[w].pc # "idle"

\* The thread has a file number.
Numbered(w) == work[w].pc \notin {"idle", "number"}

\* Two threads of the pools never write the same N.json: next() on the shared
\* counter hands every write_test a number of its own (abstract.py:211).
OneWriterPerFile ==
    \A v, w \in Workers :
        v # w /\ Numbered(v) /\ Numbered(w) => work[v].idx # work[w].idx

\* What this session moved in place stays readable as a finished test until
\* finalize has published it: no later write of the session, by any thread,
\* touches that file.
SavedResultsStay ==
    phase \in {"run", "finalize", "write", "unlink"} =>
        \A t \in saved : \E i \in DOMAIN files :
            files[i] = [name |-> t, body |-> "done"]

\* Why it does: numbers in use are behind the counter, a thread about to move
\* has the result in its .tmp, and a file with a saved result is behind the
\* counter too and belongs to no busy thread.
BusyNumbered ==
    \A w \in Workers : Busy(w) =>
        /\ phase = "run"
        /\ work[w].test \in Tests
        /\ Numbered(w) => work[w].idx < counter

TmpReady ==
    \A w \in Workers : work[w].pc = "move" =>
        /\ work[w].idx \in DOMAIN tmps
        /\ tmps[work[w].idx] = [name |-> work[w].test, body |-> "done"]

SettledFile(t, i) ==
    /\ i \in DOMAIN files
    /\ files[i] = [name |-> t, body |-> "done"]
    /\ i < counter
    /\ \A w \in Workers : Numbered(w) => work[w].idx # i

SavedSettled ==
    phase \notin {"rmtree", "done", "failed", "down"} =>
        \A t \in saved : \E i \in DOMAIN files : SettledFile(t, i)

\* The inductive invariant of ResultStoreProofs, part by part.
DirectoryInvariant ==
    /\ TypeOK
    /\ OneWriterPerFile
    /\ BusyNumbered
    /\ TmpReady
    /\ SavedSettled

\* Nothing on disk says a test finished unless its result was written: neither
\* a placeholder nor a file a kill left half written can pass for one.
OnlyRecordedIsReported ==
    /\ \A i \in DOMAIN files : files[i].body = "done" => files[i].name \in recorded
    /\ \A t \in DOMAIN published : published[t] = "done" => t \in recorded

\* A result that was moved in place, in whatever session, can be found again:
\* among the files of tests/ or in a complete results file.
Recoverable(t) ==
    \/ meta = "ok" /\ t \in DOMAIN View /\ View[t] = "done"
    \/ results = "ok" /\ t \in DOMAIN published /\ published[t] = "done"

RecordedSurvives == \A t \in recorded : Recoverable(t)

\* When a session ends well its results file says "done" of exactly the tests
\* whose result was recorded, those of earlier sessions included.
PublishedIsFaithful ==
    phase = "done" =>
        {t \in DOMAIN published : published[t] = "done"} = recorded

\* No thread opens, and so truncates, a file that holds a finished result: the
\* file numbers of a resumed run and those of the sessions before it do not
\* overlap where it matters (abstract.py:160).
ResultsNotOverwritten ==
    \A w \in Workers : work[w].pc = "open" /\ work[w].idx \in DOMAIN files =>
        files[work[w].idx].body # "done"

\* Once metadata.json is gone the results file is all there is, and it stays
\* as it is whatever later sessions do.
FinalResultsKept ==
    [][results = "ok" /\ meta = "absent" => results' = "ok" /\ published' = published]_vars

\* backends.load gives the next resume what the directory holds, in whatever
\* order the directory lists its entries.
Loads == ~MayNotDetect /\ Loadable

\* Two things stand in its way.  A thread was killed in front of the move, and
\* get_extension may take the .tmp for the kind of the results; or finalize was
\* killed over results.json.bz2, and load_results prefers that file to tests/.
TmpInTheWay == results = "absent" /\ DOMAIN tmps # {}
ResultsInTheWay == Compressed /\ results = "torn" /\ meta = "ok" /\ testsDir

\* A directory in which a killed session recorded something is loaded by the
\* next resume but for these two, in which what was recorded is still in tests/:
\* no kill inside finalize leaves less than one of tests/ and results.json.
KilledIsLoadable ==
    phase = "down" /\ recorded # {} =>
        (Loads <=> ~TmpInTheWay /\ ~ResultsInTheWay)

\* Every session that is not killed ends by itself, whatever tests raise and
\* writes fail: an exception in a thread never keeps the main thread waiting in
\* join().
SessionsEnd == (phase = "run") ~> (phase \in {"done", "failed", "down"})

\* In the first session every test is in one place, and in one file at most:
\* it waits, or one thread has it, and only that thread's file is about it.
OneFilePerTest ==
    /\ \A i, j \in DOMAIN files : files[i].name = files[j].name => i = j
    /\ \A i \in DOMAIN files, p \in todo : files[i].name # Profile[p]
    /\ \A w \in Workers : Busy(w) =>
         /\ \A p \in todo : work[w].test # Profile[p]
         /\ \A v \in Workers : v # w /\ Busy(v) => work[v].test # work[w].test
         /\ \A i \in DOMAIN files :
              files[i].name = work[w].test <=> Numbered(w) /\ i = work[w].idx
    /\ phase = "run" => \A i \in DOMAIN files : i < counter

\* What a thread's own N.json holds at each step of write_test.
FileFollowsThread ==
    \A w \in Workers :
        LET own(body) == FileOf(w) \in DOMAIN files /\ files[FileOf(w)].body = body IN
        /\ work[w].pc = "open" => FileOf(w) \notin DOMAIN files
        /\ work[w].pc = "placeholder" => own("torn")
        /\ work[w].pc \in {"execute", "opentmp", "writetmp", "move"} => own("incomplete")

\* Which of metadata.json, tests/ and the results file is there when.
StageOfDirectory ==
    /\ phase \in {"init", "meta", "mkdir"} => files = Empty
    /\ phase \in {"mkdir", "run", "finalize", "write", "unlink"} => meta = "ok"
    /\ phase \in {"init", "meta", "mkdir", "run", "finalize"} => results = "absent"
    /\ phase = "write" => results = "torn" /\ published = Empty
    /\ phase = "unlink" => results = "ok" /\ published = View
    /\ phase = "rmtree" => meta = "absent"

RecordedIsThere ==
    /\ recorded = saved
    /\ meta = "ok" =>
         \A t \in recorded : \E i \in DOMAIN files :
             files[i] = [name |-> t, body |-> "done"]
    /\ (meta # "ok" /\ recorded # {}) \/ phase \in {"unlink", "rmtree", "done"} =>
         /\ results = "ok"
         /\ \A t \in recorded : t \in DOMAIN published /\ published[t] = "done"

\* The strengthening ResultStoreProofs needs, of the first session.
FirstSessionInvariant ==
    session = 1 =>
        OneFilePerTest /\ FileFollowsThread /\ StageOfDirectory /\ RecordedIsThere

-----------------------------------------------------------------------------
\* What the directory amounts to for whoever reads it through backends.load:
\* the files while metadata.json is there, the results file afterwards.
Visible == IF meta = "ok" THEN View
           ELSE IF results = "ok" THEN published ELSE Empty

AsRecord(f) == [t \in Tests |-> IF t \in DOMAIN f THEN f[t] ELSE "none"]

Record == INSTANCE TestRecord
    WITH rec <- AsRecord(Visible),
         report <- AsRecord(IF results = "ok" THEN published ELSE Empty)

\* The directory implements a durable record of each test: through kills and
\* resumes no test goes back from "done" or "incomplete", and a results file
\* that can be read is a snapshot of the records.
ImplementsRecord == Record!Spec
=============================================================================
