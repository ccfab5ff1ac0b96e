----------------------------- MODULE SharedProofs -----------------------------
(***************************************************************************)
(* What threads and processes share: the answer of wflinfo, the cache of   *)
(* traces, a result file that is brought up to date while others load it,  *)
(* the logs that a monitored run reads while the system writes them, the   *)
(* elements of tests from which one JUnit file is made, the pages of       *)
(* summaries, and the profile that resume builds from what a killed run    *)
(* has left.                                                               *)
(***************************************************************************)
EXTENDS Monitoring, WflInfo, ReplayTrace, JsonUpdate, JUnitFiles, Summary, Profiles,
        StatusProofs, FiniteSetTheorems

(***************************************************************************)
(* wflinfo.  For any number of threads and any tests: one thread at most   *)
(* asks, all that are answered have its answer, and nobody skips a test    *)
(* for something the answer does not lack.  Before the value is stored     *)
(* only the thread that built it has it; the flag keeps every other thread *)
(* from building, also after a build that failed.                          *)
(***************************************************************************)
LookupPlaces == {"idle", "again", "wait", "build", "store", "got", "done", "raised"}
Builders == {t \in Askers : lookup[t] \in {"build", "store"}}

LookupTyped == lookup \in [Askers -> LookupPlaces] /\ DOMAIN value = Askers

\* Who builds is alone, and nobody but him has an answer that is not stored.
BuilderAlone ==
    /\ info # NoInfo => init
    /\ Builders # {} => init /\ info = NoInfo
    /\ \A t, u \in Builders : t = u
    /\ \A t \in Askers : value[t] # NoInfo => value[t] = info \/ lookup[t] = "store"
    /\ \A t \in Askers : lookup[t] \in {"got", "done"} => init /\ value[t] = info /\ Builders = {}

AskersInv == LookupTyped /\ BuilderAlone

LEMMA AskersInitInv == WflInfoInit => AskersInv
BY DEF WflInfoInit, AskersInv, LookupTyped, BuilderAlone, Builders, LookupPlaces

LEMMA AskerStepInv ==
    ASSUME AskersInv, NEW t \in Askers, Asker(t)
    PROVE  AskersInv'
<1>. USE DEF AskersInv, LookupTyped, BuilderAlone, Builders, LookupPlaces
<1>. HIDE DEF NoInfo
<1>1. CASE Ask(t)
  BY <1>1 DEF Ask
<1>2. CASE Enter(t)
  BY <1>2 DEF Enter
<1>3. CASE Again(t)
  BY <1>3 DEF Again
<1>4. CASE Leave(t)
  <2>1. PICK new : /\ value' = [value EXCEPT ![t] = new]
                   /\ lookup' = [lookup EXCEPT ![t] = "store"] /\ lookup[t] = "build"
                   /\ init' = init /\ info' = info
    BY <1>4 DEF Leave
  <2>. QED  BY <2>1
<1>5. CASE Store(t)
  BY <1>5 DEF Store
<1>6. CASE Decide(t)
  BY <1>6 DEF Decide
<1>7. ASSUME NEW how \in Calls, Call(t, how)  PROVE  AskersInv'
  BY <1>7 DEF Call, Abandon
<1>. QED  BY <1>1, <1>2, <1>3, <1>4, <1>5, <1>6, <1>7 DEF Asker

LEMMA AskersNextInv == ASSUME AskersInv, [WflInfoNext]_wflinfoVars  PROVE  AskersInv'
<1>1. CASE UNCHANGED wflinfoVars
  BY <1>1 DEF wflinfoVars, AskersInv, LookupTyped, BuilderAlone, Builders
<1>. QED  BY <1>1, AskerStepInv DEF WflInfoNext

\* What an answer says of a field is what the implementation has, or that a
\* call for it failed.
Says(read, f) == read = Has[f] \/ (read = Unknown(f) /\ f \in failures)
Told(v) == Says(v.shader, "shader") /\ Says(v.api, "api") /\ Says(v.extensions, "extensions")

Readings == {Has[f] : f \in {"shader", "api", "extensions"}} \cup {0, {}}

Truthful ==
    /\ built \in Seq(Readings) /\ Len(built) <= 3
    /\ \A k \in 1..Len(built) : Says(built[k], Fields[k])
    /\ \A t \in Askers : lookup[t] \in {"store", "got", "done"} => Told(value[t])
    /\ info # NoInfo => Told(info)
    /\ skipped \subseteq {t \in Askers : lookup[t] = "done"}
    /\ \A t \in skipped : Unmet(value[t], Needs[t])

LEMMA InitTruthful == WflInfoInit => Truthful
BY DEF WflInfoInit, Truthful

LEMMA AskerTruthful ==
    ASSUME AskersInv, Truthful, NEW t \in Askers, Asker(t)
    PROVE  Truthful'
<1>. USE DEF AskersInv, LookupTyped, BuilderAlone, Builders, LookupPlaces, Truthful
<1>. HIDE DEF NoInfo, Unmet
<1>1. CASE Ask(t)
  BY <1>1 DEF Ask, Told, Says
<1>2. CASE Enter(t)
  BY <1>2 DEF Enter, Told, Says
<1>3. CASE Again(t)
  BY <1>3 DEF Again, Told, Says
<1>4. CASE Leave(t)
  BY <1>4 DEF Leave, Told, Says, Fields
<1>5. CASE Store(t)
  BY <1>5 DEF Store, Told, Says
<1>6. CASE Decide(t)
  BY <1>6 DEF Decide, Told, Says
<1>7. ASSUME NEW how \in Calls, Call(t, how)  PROVE  Truthful'
  BY <1>7 DEF Call, Abandon, Told, Says, Fields, Field, Readings, Unknown
<1>. QED  BY <1>1, <1>2, <1>3, <1>4, <1>5, <1>6, <1>7 DEF Asker

\* Whatever calls of wflinfo fail, a test is skipped only for a requirement the
\* implementation does not meet, or because no version could be told.
THEOREM SkipsDeserved == WflInfoSpec => []SkipIsDeserved
<1>1. AskersInv /\ Truthful /\ [WflInfoNext]_wflinfoVars => Truthful'
  <2>. SUFFICES ASSUME AskersInv, Truthful, [WflInfoNext]_wflinfoVars PROVE Truthful'
    OBVIOUS
  <2>1. CASE UNCHANGED wflinfoVars
    BY <2>1 DEF wflinfoVars, Truthful, Told, Says
  <2>. QED  BY <2>1, AskerTruthful DEF WflInfoNext
<1>2. Truthful => SkipIsDeserved
  BY DEF Truthful, SkipIsDeserved, Told, Says, Unmet, Unknown
<1>. QED  BY AskersInitInv, AskersNextInv, InitTruthful, <1>1, <1>2, PTL DEF WflInfoSpec

\* For any number of threads: wflinfo is asked by one at most, and whoever is
\* answered has that one's answer.
THEOREM AskedOnceForAll == WflInfoSpec => []AskedOnce
<1>1. AskersInv => AskedOnce
  <2>. SUFFICES ASSUME AskersInv PROVE AskedOnce
    OBVIOUS
  <2>1. Builders = {} \/ \E t \in Askers : Builders = {t}
    BY DEF AskersInv, BuilderAlone, Builders
  <2>2. Cardinality(Builders) <= 1
    BY <2>1, FS_EmptySet, FS_Singleton
  <2>3. \A t, u \in Askers : value[t] # NoInfo /\ value[u] # NoInfo => value[t] = value[u]
    BY DEF AskersInv, BuilderAlone, Builders
  <2>4. (\E t \in Askers : lookup[t] = "build") => info = NoInfo
    BY DEF AskersInv, BuilderAlone, Builders
  <2>. QED  BY <2>2, <2>3, <2>4 DEF AskedOnce, Builders
<1>. QED  BY AskersInitInv, AskersNextInv, <1>1, PTL DEF WflInfoSpec

\* All that the tests share of the description of the implementation is one
\* answer, and no test is skipped for what it does not say.
THEOREM OneAnswerForAll == WflInfoSpec => []OneAnswer
<1>1. AskedOnce /\ SkipIsDeserved => OneAnswer
  BY DEF OneAnswer
<1>. QED  BY AskedOnceForAll, SkipsDeserved, <1>1, PTL

(***************************************************************************)
(* The cache of traces.  For any number of processes that share it, and    *)
(* any length of a trace: while no download ended early, the file is       *)
(* complete or the process that opened it last is still writing it from    *)
(* its front; and an image with the expected checksum is never left under  *)
(* a name that a later replay does not write again.                        *)
(***************************************************************************)
ReplaySteps == {"idle", "open", "request", "receive", "replay", "check"}

CacheShape ==
    /\ step \in [Replayers -> ReplaySteps]
    /\ got \in [Replayers -> 0..Chunks]
    /\ content \subseteq All
    /\ \A p \in Replayers : step[p] = "request" => got[p] = 0
    /\ \A p \in Replayers : step[p] = "receive" => got[p] < Chunks

\* A process that writes the file and has kept all it wrote from the front.
WritingTrace(p) == step[p] \in {"request", "receive"} /\ 1..got[p] \subseteq content

LastWriter == ~interrupted /\ exists => content = All \/ \E p \in Replayers : WritingTrace(p)

CacheInv == CacheShape /\ LastWriter

LEMMA CacheInit == ReplayInit => CacheInv
BY ChunksAssumption DEF ReplayInit, CacheInv, CacheShape, LastWriter, ReplaySteps, All

LEMMA CacheStep ==
    ASSUME CacheInv, [ReplayNext]_replayVars
    PROVE  CacheInv'
<1>. USE ChunksAssumption DEF CacheInv, CacheShape, LastWriter, WritingTrace, ReplaySteps, Goto, All
<1>1. ASSUME NEW p \in Replayers, Ensure(p)  PROVE  CacheInv'
  BY <1>1 DEF Ensure
<1>2. ASSUME NEW p \in Replayers, Open(p)  PROVE  CacheInv'
  <2>1. CacheShape'
    BY <1>2 DEF Open
  <2>2. WritingTrace(p)'
    BY <1>2 DEF Open
  <2>. QED  BY <2>1, <2>2
<1>3. ASSUME NEW p \in Replayers, Refused(p)  PROVE  CacheInv'
  BY <1>3 DEF Refused
<1>4. ASSUME NEW p \in Replayers, Respond(p)  PROVE  CacheInv'
  BY <1>4 DEF Respond
<1>5. ASSUME NEW p \in Replayers, Receive(p)  PROVE  CacheInv'
  <2>1. /\ got[p] + 1 \in All /\ got' = [got EXCEPT ![p] = got[p] + 1]
        /\ content' = content \cup {got[p] + 1}
        /\ exists' = exists /\ interrupted' = interrupted
        /\ step' = [step EXCEPT ![p] = IF got[p] + 1 = Chunks THEN "replay" ELSE "receive"]
    <3>1. step[p] = "receive" /\ got[p] < Chunks /\ got[p] \in 0..Chunks
      BY <1>5 DEF Receive
    <3>2. got' = [got EXCEPT ![p] = got[p] + 1] /\ got'[p] = got[p] + 1
      BY <1>5 DEF Receive
    <3>3. content' = content \cup {got[p] + 1} /\ exists' = exists /\ interrupted' = interrupted
      BY <1>5, <3>2 DEF Receive
    <3>4. step' = [step EXCEPT ![p] = IF got[p] + 1 = Chunks THEN "replay" ELSE "receive"]
      BY <1>5, <3>2 DEF Receive
    <3>. QED  BY <3>1, <3>2, <3>3, <3>4
  <2>2. CacheShape'
    <3>1. step' \in [Replayers -> ReplaySteps] /\ got' \in [Replayers -> 0..Chunks] /\ content' \subseteq All
      <4>1. got[p] + 1 \in 0..Chunks
        BY <2>1
      <4>2. got' \in [Replayers -> 0..Chunks]
        BY <2>1, <4>1
      <4>3. step' \in [Replayers -> ReplaySteps]
        BY <2>1
      <4>4. content' \subseteq All
        BY <2>1
      <4>. QED  BY <4>2, <4>3, <4>4
    <3>2. step'[p] = "receive" => got'[p] < Chunks
      BY <2>1
    <3>3. \A q \in Replayers \ {p} : step'[q] = step[q] /\ got'[q] = got[q]
      BY <2>1
    <3>4. step'[p] # "request"
      BY <2>1
    <3>. QED  BY <3>1, <3>2, <3>3, <3>4
  <2>3. ASSUME NEW q \in Replayers, WritingTrace(q), q # p  PROVE  WritingTrace(q)'
    BY <2>1, <2>3
  <2>4. CASE WritingTrace(p)
    <3>1. 1..(got[p] + 1) \subseteq content'
      BY <2>1, <2>4
    <3>. QED  BY <2>1, <2>2, <3>1
  <2>5. CASE content = All
    BY <2>1, <2>2, <2>5
  <2>. QED  BY <2>1, <2>2, <2>3, <2>4, <2>5
<1>6. ASSUME NEW p \in Replayers, Dump(p)  PROVE  CacheInv'
  BY <1>6 DEF Dump
<1>7. ASSUME NEW p \in Replayers, Compare(p)  PROVE  CacheInv'
  BY <1>7 DEF Compare
<1>8. ASSUME NEW p \in Replayers, Kill(p)  PROVE  CacheInv'
  BY <1>8 DEF Kill
<1>9. CASE UNCHANGED replayVars
  BY <1>9 DEF replayVars
<1>. QED  BY <1>1, <1>2, <1>3, <1>4, <1>5, <1>6, <1>7, <1>8, <1>9 DEF ReplayNext, Replayer

\* For any number of processes and any length of the trace: when no download is
\* under way and none has ended early, the trace is missing or complete.
THEOREM CacheIsComplete == ReplaySpec => []CacheComplete
<1>1. ReplayInit => CacheInv
  BY CacheInit
<1>2. CacheInv /\ [ReplayNext]_replayVars => CacheInv'
  BY CacheStep
<1>3. CacheInv => CacheComplete
  BY DEF CacheInv, LastWriter, WritingTrace, CacheComplete
<1>. QED  BY <1>1, <1>2, <1>3, PTL DEF ReplaySpec

\* An image with the expected checksum is the one the next replay overwrites,
\* and at the comparison it is what this replay has rendered.
ImagesInv ==
    /\ step \in [Replayers -> ReplaySteps] /\ DOMAIN images = Replayers
    /\ shown \in [Replayers -> Checksums \cup {"none"}] /\ verdict \in [Replayers -> {"none", "pass", "fail", "crash"}]
    /\ \A p \in Replayers : \A i \in images[p] :
          /\ i.sum = "expected" => i.name = "dump"
          /\ step[p] = "check" /\ i.name = "dump" => i.sum = shown[p]
    /\ \A p \in Replayers : step[p] # "idle" => verdict[p] = "none"
    /\ \A p \in Replayers : verdict[p] = "pass" => shown[p] = "expected"

LEMMA ImagesStep ==
    ASSUME ~Keep, ImagesInv, [ReplayNext]_replayVars
    PROVE  ImagesInv'
<1>. USE DEF ImagesInv, ReplaySteps, Goto, Judge, Checksums
<1>1. ASSUME NEW p \in Replayers, Ensure(p)  PROVE  ImagesInv'
  BY <1>1 DEF Ensure
<1>2. ASSUME NEW p \in Replayers, Open(p)  PROVE  ImagesInv'
  BY <1>2 DEF Open
<1>3. ASSUME NEW p \in Replayers, Refused(p)  PROVE  ImagesInv'
  BY <1>3 DEF Refused
<1>4. ASSUME NEW p \in Replayers, Respond(p)  PROVE  ImagesInv'
  BY <1>4 DEF Respond
<1>5. ASSUME NEW p \in Replayers, Receive(p)  PROVE  ImagesInv'
  BY <1>5 DEF Receive
<1>6. ASSUME NEW p \in Replayers, Dump(p)  PROVE  ImagesInv'
  <2>1. CASE UNCHANGED <<images, shown>>
    BY <1>6, <2>1 DEF Dump
  <2>2. CASE ~UNCHANGED <<images, shown>>
    <3>1. PICK c \in Checksums :
             /\ images' = [images EXCEPT ![p] =
                   {i \in images[p] : i.name # "dump"} \cup {[name |-> "dump", sum |-> c]}]
             /\ shown' = [shown EXCEPT ![p] = c]
             /\ step' = [step EXCEPT ![p] = "check"] /\ verdict' = verdict /\ step[p] = "replay"
      BY <1>6, <2>2 DEF Dump
    <3>2. DOMAIN images' = Replayers /\ \A q \in Replayers \ {p} : images'[q] = images[q]
      BY <3>1
    <3>3. images'[p] = {i \in images[p] : i.name # "dump"} \cup {[name |-> "dump", sum |-> c]}
      BY <3>1
    <3>4. \A i \in images'[p] : i.sum = "expected" => i.name = "dump"
      BY <3>3
    <3>5. \A i \in images'[p] : i.name = "dump" => i.sum = shown'[p]
      BY <3>1, <3>3
    <3>. QED  BY <3>1, <3>2, <3>4, <3>5
  <2>. QED  BY <2>1, <2>2
<1>7. ASSUME NEW p \in Replayers, Compare(p)  PROVE  ImagesInv'
  <2>1. PICK i \in images[p] :
           /\ images' = [images EXCEPT ![p] =
                 (images[p] \ {i}) \cup (IF Keeps(i) THEN {[name |-> KeptName(i), sum |-> i.sum]} ELSE {})]
           /\ verdict' = [verdict EXCEPT ![p] = IF i.sum = "expected" THEN "pass" ELSE "fail"]
           /\ step' = [step EXCEPT ![p] = "idle"] /\ shown' = shown /\ step[p] = "check"
    BY <1>7 DEF Compare
  <2>2. DOMAIN images' = Replayers /\ \A q \in Replayers \ {p} : images'[q] = images[q]
    BY <2>1
  <2>3. \A j \in images'[p] : j \in images[p] \/ (j.sum = i.sum /\ i.sum # "expected")
    BY <2>1 DEF Keeps
  <2>4. \A j \in images'[p] : j.sum = "expected" => j.name = "dump"
    BY <2>3
  <2>5. verdict'[p] = "pass" => shown'[p] = "expected"
    BY <2>1
  <2>. QED  BY <2>1, <2>2, <2>4, <2>5
<1>8. ASSUME NEW p \in Replayers, Kill(p)  PROVE  ImagesInv'
  BY <1>8 DEF Kill
<1>9. CASE UNCHANGED replayVars
  BY <1>9 DEF replayVars
<1>. QED  BY <1>1, <1>2, <1>3, <1>4, <1>5, <1>6, <1>7, <1>8, <1>9 DEF ReplayNext, Replayer

\* Unless images are kept on purpose, a replay passes only for what it rendered.
THEOREM PassIsForOwnImage == ReplaySpec => []PassIsOwn
<1>1. CASE Keep
  <2>1. PassIsOwn
    BY <1>1 DEF PassIsOwn
  <2>2. PassIsOwn'
    BY <1>1 DEF PassIsOwn
  <2>. QED  BY <2>1, <2>2, PTL DEF ReplaySpec
<1>2. CASE ~Keep
  <2>1. ReplayInit => ImagesInv
    BY DEF ReplayInit, ImagesInv, ReplaySteps, Checksums
  <2>2. ImagesInv /\ [ReplayNext]_replayVars => ImagesInv'
    BY <1>2, ImagesStep
  <2>3. ImagesInv => PassIsOwn
    BY DEF ImagesInv, PassIsOwn
  <2>. QED  BY <2>1, <2>2, <2>3, PTL DEF ReplaySpec
<1>. QED  BY <1>1, <1>2

(***************************************************************************)
(* Updates of a result file.  Under another name the file with the old     *)
(* results keeps its content and is not unlinked.  Under its own name the  *)
(* loaders rename it, create it and write it: with one kill, at most one   *)
(* file is left that nobody writes any more, and an old one is beside it.  *)
(***************************************************************************)
Ten == [version |-> Current, time |-> "interval", pid |-> "list", system |-> "info"]
UpdateSteps == {"load", "rename", "create", "write", "loaded", "failed", "dead"}
Entries == {"results", "old", "recompressed"}

UpdateShape ==
    /\ next \in Nat \ {0} /\ DOMAIN inodes = 1..(next - 1)
    /\ \A i \in DOMAIN inodes : inodes[i] \in {Nothing, Seven, Ten}
    /\ directory \in [Entries -> Nat]
    /\ \A n \in Entries : directory[n] # 0 => directory[n] \in DOMAIN inodes
    /\ \A n, m \in Entries : n # m /\ directory[n] # 0 => directory[n] # directory[m]
    /\ loading \in [Loaders -> UpdateSteps]
    /\ fd \in [Loaders -> Nat] /\ DOMAIN data = Loaders
    /\ \A l \in Loaders : loading[l] \in {"rename", "create", "write"} => data[l] = Ten
    /\ \A l \in Loaders : loading[l] = "write" => fd[l] \in DOMAIN inodes
    /\ kills \in Nat
    /\ SameName => directory["recompressed"] = 0

BeingWritten(i) == \E l \in Loaders : loading[l] = "write" /\ fd[l] = i
Orphans == {i \in DOMAIN inodes : inodes[i] = Nothing /\ ~BeingWritten(i)}
Creating == \E l \in Loaders : loading[l] = "create"

OneKill ==
    /\ directory["results"] # 0 \/ directory["old"] # 0
    /\ \A l \in Loaders : loading[l] \in {"create", "write"} => directory["old"] # 0
    /\ kills = 0 => Orphans = {} /\ (directory["results"] = 0 => Creating)
    /\ \A i, j \in Orphans : i = j
    /\ Orphans # {} => directory["old"] # 0
    /\ \/ directory["results"] # 0 /\ directory["results"] \notin Orphans
       \/ directory["old"] # 0 /\ directory["old"] \notin Orphans
       \/ Creating

FirstKept ==
    /\ inodes[1] = Seven /\ next > 1
    /\ directory["results"] = 1 \/ (directory["results"] = 0 /\ directory["old"] = 1)
    /\ directory["recompressed"] # 1
    /\ \A l \in Loaders : loading[l] = "write" => fd[l] # 1

UpdateInv == UpdateShape /\ (IF SameName THEN OneKill ELSE FirstKept)

LEMMA UpdateInitInv == UpdateInit => UpdateInv
<1>. SUFFICES ASSUME UpdateInit PROVE UpdateInv
  OBVIOUS
<1>1. /\ next = 2 /\ DOMAIN inodes = 1..1 /\ inodes[1] = Seven
      /\ DOMAIN directory = Entries /\ directory["results"] = 1 /\ directory["old"] = 0 /\ directory["recompressed"] = 0
      /\ directory \in [Entries -> Nat]
      /\ kills = 0 /\ Seven # Nothing
  BY DEF UpdateInit, Entries, Seven, Nothing
<1>2. UpdateShape
  BY <1>1 DEF UpdateInit, UpdateShape, Entries, UpdateSteps
<1>3. Orphans = {}
  BY <1>1 DEF Orphans
<1>4. OneKill
  BY <1>1, <1>3 DEF OneKill, UpdateInit
<1>5. FirstKept
  BY <1>1 DEF FirstKept, UpdateInit
<1>. QED  BY <1>2, <1>4, <1>5 DEF UpdateInv

\* What the three updates make of any record of results, and the loop of the
\* contents a file can have.
ResultFields == {"version", "time", "pid", "system"}
AllFields(r) == r = [f \in ResultFields |-> r[f]]

LEMMA SameFields ==
    ASSUME NEW x, NEW y, AllFields(x), AllFields(y),
           x.version = y.version, x.time = y.time, x.pid = y.pid, x.system = y.system
    PROVE  x = y
<1>1. \A f \in ResultFields : x[f] = y[f]
  BY DEF ResultFields
<1>2. [f \in ResultFields |-> x[f]] = [f \in ResultFields |-> y[f]]
  BY <1>1
<1>. QED  BY <1>2 DEF AllFields

LEMMA UpdateFields ==
    ASSUME NEW r, AllFields(r)
    PROVE  /\ LET x == SevenToEight(r)
              IN  AllFields(x) /\ x.version = 8 /\ x.time = "interval" /\ x.pid = r.pid /\ x.system = r.system
           /\ LET x == EightToNine(r)
              IN  AllFields(x) /\ x.version = 9 /\ x.time = r.time /\ x.pid = "list" /\ x.system = r.system
           /\ LET x == NineToTen(r)
              IN  AllFields(x) /\ x.version = 10 /\ x.time = r.time /\ x.pid = r.pid /\ x.system = "info"
BY DEF SevenToEight, EightToNine, NineToTen, AllFields, ResultFields

LEMMA Updated10 == LoopUpdates(Seven) = Ten /\ Seven.version # Current /\ Ten.version = Current
                   /\ Nothing # Seven /\ Nothing # Ten
<1>1. AllFields(Seven) /\ AllFields(Ten)
  BY DEF AllFields, ResultFields, Seven, Ten
<1>2. Seven.version = 7 /\ Ten.version = 10 /\ Nothing.version = 0
      /\ Ten.time = "interval" /\ Ten.pid = "list" /\ Ten.system = "info"
  BY DEF Seven, Ten, Current, Nothing
<1>3. LoopUpdates(Seven) = NineToTen(EightToNine(SevenToEight(Seven)))
  BY <1>1, <1>2, UpdateFields DEF LoopUpdates
<1>4. NineToTen(EightToNine(SevenToEight(Seven))) = Ten
  BY <1>1, <1>2, UpdateFields, SameFields
<1>. QED  BY <1>2, <1>3, <1>4 DEF Current

LEMMA UpdateShapeStep ==
    ASSUME UpdateShape, NEW l \in Loaders, Loader(l)
    PROVE  UpdateShape'
<1>. USE DEF UpdateShape, Entries, UpdateSteps, Proceed, Written
<1>. HIDE DEF Nothing, Seven, Ten, LoopUpdates
<1>1. CASE Load(l)
  BY <1>1, Updated10 DEF Load
<1>2. CASE Rename(l)
  BY <1>2 DEF Rename
<1>3. CASE Create(l)
  BY <1>3 DEF Create
<1>4. CASE WriteResults(l)
  BY <1>4 DEF WriteResults
<1>5. CASE KillLoader(l)
  BY <1>5 DEF KillLoader
<1>. QED  BY <1>1, <1>2, <1>3, <1>4, <1>5 DEF Loader

\* A file is whole, or somebody alive is writing it, or it is an orphan.
LEMMA OrphansStep ==
    ASSUME UpdateShape, NEW l \in Loaders, Loader(l)
    PROVE  /\ ~KillLoader(l) => Orphans' \subseteq Orphans
           /\ KillLoader(l) => Orphans' \subseteq Orphans \cup {fd[l]} /\ (loading[l] # "write" => Orphans' = Orphans)
<1>. USE DEF UpdateShape, Orphans, BeingWritten, Entries, UpdateSteps, Proceed, Written
<1>. HIDE DEF Nothing, Seven, Ten, LoopUpdates
<1>1. CASE Load(l)
  BY <1>1 DEF Load
<1>2. CASE Rename(l)
  BY <1>2 DEF Rename
<1>3. CASE Create(l)
  <2>1. PICK i : /\ inodes' = [k \in DOMAIN inodes \cup {i} |-> IF k = i THEN Nothing ELSE inodes[k]]
                 /\ fd' = [fd EXCEPT ![l] = i] /\ loading' = [loading EXCEPT ![l] = "write"]
                 /\ loading[l] = "create"
    BY <1>3 DEF Create
  <2>2. BeingWritten(i)'
    BY <2>1
  <2>3. ASSUME NEW j, BeingWritten(j) PROVE BeingWritten(j)'
    BY <2>1, <2>3
  <2>4. \A j \in DOMAIN inodes' : j # i => j \in DOMAIN inodes /\ inodes'[j] = inodes[j]
    BY <2>1
  <2>5. Orphans' \subseteq Orphans
    BY <2>2, <2>3, <2>4
  <2>. QED  BY <2>1, <2>5 DEF KillLoader
<1>4. CASE WriteResults(l)
  <2>1. /\ loading[l] = "write" /\ data[l] = Ten
        /\ inodes' = [inodes EXCEPT ![fd[l]] = Ten] /\ fd' = fd /\ loading' = [loading EXCEPT ![l] = "loaded"]
    BY <1>4 DEF WriteResults
  <2>. QED  BY <2>1, Updated10, <1>4 DEF WriteResults, KillLoader
<1>5. CASE KillLoader(l)
  BY <1>5 DEF KillLoader
<1>. QED  BY <1>1, <1>2, <1>3, <1>4, <1>5 DEF Loader, KillLoader, Load, Rename, Create

\* With the name of the old file, and one kill at most.
LEMMA OneKillStep ==
    ASSUME SameName, MaxKills <= 1, MaxKills \in Nat, UpdateShape, OneKill, NEW l \in Loaders, Loader(l)
    PROVE  OneKill'
<1>. USE DEF UpdateShape, OneKill, Entries, UpdateSteps, Proceed, Written, Creating
<1>. HIDE DEF Nothing, Seven, Ten, LoopUpdates, Orphans
<1>0. /\ ~KillLoader(l) => Orphans' \subseteq Orphans
      /\ KillLoader(l) => Orphans' \subseteq Orphans \cup {fd[l]} /\ (loading[l] # "write" => Orphans' = Orphans)
  BY OrphansStep
<1>1. CASE Load(l)
  BY <1>0, <1>1 DEF Load, KillLoader
<1>2. CASE Rename(l)
  <2>1. ~KillLoader(l)
    BY <1>2 DEF Rename, KillLoader
  <2>2. CASE directory["results"] = 0
    BY <1>0, <1>2, <2>1, <2>2 DEF Rename
  <2>3. CASE directory["results"] # 0
    <3>1. /\ directory' = [directory EXCEPT !["old"] = directory["results"], !["results"] = 0]
          /\ loading' = [loading EXCEPT ![l] = "create"] /\ kills' = kills
      BY <1>2, <2>3 DEF Rename
    <3>2. directory'["old"] = directory["results"] /\ directory'["results"] = 0
      BY <3>1
    <3>3. Creating'
      BY <3>1
    <3>. QED  BY <1>0, <2>1, <2>3, <3>1, <3>2, <3>3
  <2>. QED  BY <2>2, <2>3
<1>3. CASE Create(l)
  <2>1. PICK i : /\ directory' = [directory EXCEPT !["results"] = i] /\ i # 0
                 /\ i = directory["results"] \/ i = next
                 /\ inodes' = [k \in DOMAIN inodes \cup {i} |-> IF k = i THEN Nothing ELSE inodes[k]]
                 /\ fd' = [fd EXCEPT ![l] = i] /\ loading' = [loading EXCEPT ![l] = "write"]
                 /\ loading[l] = "create" /\ kills' = kills
    BY <1>3 DEF Create
  <2>2. ~KillLoader(l) /\ i \notin Orphans'
    BY <2>1 DEF KillLoader, Orphans, BeingWritten
  <2>3. directory'["results"] = i /\ directory'["old"] = directory["old"] /\ directory["old"] # 0
    BY <2>1
  <2>. QED  BY <1>0, <2>1, <2>2, <2>3
<1>4. CASE WriteResults(l)
  BY <1>0, <1>4 DEF WriteResults, KillLoader
<1>5. CASE KillLoader(l)
  <2>1. /\ kills = 0 /\ kills' = 1 /\ directory' = directory /\ loading' = [loading EXCEPT ![l] = "dead"]
        /\ Orphans = {}
    BY <1>5 DEF KillLoader
  <2>2. CASE loading[l] = "write"
    <3>1. Creating => Creating'
      BY <2>1, <2>2
    <3>. QED  BY <1>0, <1>5, <2>1, <2>2, <3>1
  <2>3. CASE loading[l] # "write"
    BY <1>0, <1>5, <2>1, <2>3
  <2>. QED  BY <2>2, <2>3
<1>. QED  BY <1>1, <1>2, <1>3, <1>4, <1>5 DEF Loader

\* Under another name the first file is never opened again.
LEMMA FirstKeptStep ==
    ASSUME ~SameName, UpdateShape, FirstKept, NEW l \in Loaders, Loader(l)
    PROVE  FirstKept'
<1>. USE DEF UpdateShape, FirstKept, Entries, UpdateSteps, Proceed, Written
<1>. HIDE DEF Nothing, Seven, Ten, LoopUpdates
<1>1. CASE Load(l)
  BY <1>1 DEF Load
<1>2. CASE Rename(l)
  BY <1>2 DEF Rename
<1>3. CASE Create(l)
  BY <1>3 DEF Create
<1>4. CASE WriteResults(l)
  BY <1>4 DEF WriteResults
<1>5. CASE KillLoader(l)
  BY <1>5 DEF KillLoader
<1>. QED  BY <1>1, <1>2, <1>3, <1>4, <1>5 DEF Loader

LEMMA UpdateNextInv ==
    ASSUME SameName => MaxKills <= 1, UpdateInv, [UpdateNext]_updateVars
    PROVE  UpdateInv'
<1>1. CASE UNCHANGED updateVars
  BY <1>1 DEF updateVars, UpdateInv, UpdateShape, OneKill, FirstKept, Orphans, BeingWritten, Creating
<1>2. ASSUME NEW l \in Loaders, Loader(l) PROVE UpdateInv'
  BY <1>2, UpdateAssumption, UpdateShapeStep, OneKillStep, FirstKeptStep DEF UpdateInv
<1>. QED  BY <1>1, <1>2 DEF UpdateNext

LEMMA UpdateInvImplies ==
    ASSUME UpdateInv PROVE ResultsSurviveUpdates
<1>. USE DEF UpdateInv, UpdateShape, Entries, ResultsSurviveUpdates
<1>1. \A i \in DOMAIN inodes : inodes[i] \in {Nothing, Seven} \/ inodes[i] = Ten
  OBVIOUS
<1>2. ASSUME \A l \in Loaders : loading[l] \notin {"create", "write"}
      PROVE  \E n \in DOMAIN directory : directory[n] # 0 /\ inodes[directory[n]] # Nothing
  <2>1. CASE SameName
    <3>1. ~Creating /\ \A i \in DOMAIN inodes : i \notin Orphans => inodes[i] # Nothing
      BY <1>2 DEF Creating, Orphans, BeingWritten
    <3>. QED  BY <2>1, <3>1 DEF OneKill
  <2>2. CASE ~SameName
    BY <2>2, Updated10 DEF FirstKept
  <2>. QED  BY <2>1, <2>2
<1>. QED  BY <1>1, <1>2 DEF Ten

\* An update of a result file under another name loses nothing however often its
\* loaders are killed; under the name of the old file, nothing with one kill:
\* some file with the results, old or updated, is always there unless a loader
\* that lives is about to write it, and a file that is no more than half
\* written is at most one.
THEOREM UpdatesSurvive == (SameName => MaxKills <= 1) => (UpdateSpec => []ResultsSurviveUpdates)
<1>. SUFFICES ASSUME SameName => MaxKills <= 1  PROVE  UpdateSpec => []ResultsSurviveUpdates
  OBVIOUS
<1>1. UpdateInv /\ [UpdateNext]_updateVars => UpdateInv'
  BY UpdateNextInv
<1>2. UpdateInv => ResultsSurviveUpdates
  BY UpdateInvImplies
<1>. QED  BY UpdateInitInv, <1>1, <1>2, PTL DEF UpdateSpec

(***************************************************************************)
(* Monitoring.  A reader knows only the last line it read, so that what is *)
(* new is judged by text: no line that was read stands after the last one  *)
(* that says the same, whatever is written, cut or cleared in between; and *)
(* with timestamps only lines that were read stand before it.              *)
(***************************************************************************)
Lines == [text : Texts, id : Nat, half : {0}]
Whole(r) == Kind[r] # "locked_file"
LinesOf(r) == source[SourceOf[r]]

\* The line at i is what the reader read last.
Tells(r, l) == Text(r, Pieces(l))
Said(r, i) == Tells(r, LinesOf(r)[i]) = last[r]

MonitorsTyped ==
    /\ source \in [Sources -> Seq(Lines)]
    /\ written \in Nat
    /\ DOMAIN last = Readers /\ DOMAIN seen = Readers
    /\ \A s \in Sources : \A i \in DOMAIN source[s] : source[s][i].id <= written

\* A line that was read stands before one that says what was read last; where
\* the lines are all different, only lines that were read stand before it.
ReadUpTo(r) ==
    /\ \A p \in seen[r] : p \in 0..written
    /\ \A i \in DOMAIN LinesOf(r) :
          LinesOf(r)[i].id \in seen[r] => \E j \in DOMAIN LinesOf(r) : i <= j /\ Said(r, j)
    /\ SourceOf[r] \in Stamped =>
          /\ last[r] # <<>> => last[r][1].id \in 0..written
          /\ \A i, j \in DOMAIN LinesOf(r) : i <= j /\ Said(r, j) => LinesOf(r)[i].id \in seen[r]

ReadersInv == \A r \in Readers : Whole(r) => ReadUpTo(r)

-------------------------------------------------------------------------------
LEMMA RestOfSeq ==
    ASSUME NEW S, NEW s \in Seq(S), NEW m \in 0..Len(s)
    PROVE  SubSeq(s, m + 1, Len(s)) \in Seq(S)
OBVIOUS

LEMMA Appended ==
    ASSUME NEW S, NEW s \in Seq(S), NEW x \in S
    PROVE  /\ Append(s, x) \in Seq(S) /\ Append(s, x) # <<>>
           /\ \A i \in DOMAIN Append(s, x) : Append(s, x)[i] = x \/ (i \in DOMAIN s /\ Append(s, x)[i] = s[i])
OBVIOUS

\* The two pieces of a line, and what a reader compares of them.
LEMMA PiecesOfLine ==
    ASSUME NEW r \in Readers, NEW l \in Lines
    PROVE  /\ DOMAIN Pieces(l) = 1..2 /\ Len(Pieces(l)) = 2
           /\ Pieces(l)[1].id = l.id /\ Pieces(l)[2].id = l.id
           /\ Pieces(l)[1].text = l.text /\ Pieces(l)[2].text = l.text
           /\ Tells(r, l) # <<>>
           /\ SourceOf[r] \in Stamped => Tells(r, l)[1].id = l.id
<1>1. Pieces(l) = <<[text |-> l.text, id |-> l.id, half |-> 1], [text |-> l.text, id |-> l.id, half |-> 2]>>
  BY DEF Pieces, Lines
<1>2. DOMAIN Pieces(l) = 1..2 /\ Len(Pieces(l)) = 2
  BY <1>1
<1>3. DOMAIN Text(r, Pieces(l)) = 1..2
  BY <1>2 DEF Text
<1>4. SourceOf[r] \in Stamped => Text(r, Pieces(l))[1].id = l.id
  BY <1>1 DEF Text
<1>. QED  BY <1>1, <1>2, <1>3, <1>4 DEF Tells

\* Of a file that is not locked, or of the kernel log, the items are the lines.
LEMMA ItemsAreLines ==
    ASSUME MonitorsTyped, NEW r \in Readers, Whole(r)
    PROVE  /\ LinesOf(r) \in Seq(Lines) /\ DOMAIN LinesOf(r) = 1..Len(LinesOf(r)) /\ Len(LinesOf(r)) \in Nat
           /\ DOMAIN ItemsOf(r) = DOMAIN LinesOf(r) /\ Len(ItemsOf(r)) = Len(LinesOf(r))
           /\ ItemsOf(r) \in Seq({Pieces(l) : l \in Lines})
           /\ \A i \in DOMAIN LinesOf(r) : LinesOf(r)[i] \in Lines /\ ItemsOf(r)[i] = Pieces(LinesOf(r)[i])
<1>1. SourceOf[r] \in Sources
  BY DEF Sources
<1>2. LinesOf(r) \in Seq(Lines)
  BY <1>1 DEF MonitorsTyped, LinesOf
<1>. DEFINE n == Len(LinesOf(r))
<1>3. n \in Nat /\ DOMAIN LinesOf(r) = 1..n /\ \A i \in 1..n : LinesOf(r)[i] \in Lines
  BY <1>2
<1>4. ItemsOf(r) = [i \in 1..n |-> Pieces(LinesOf(r)[i])]
  BY <1>3 DEF ItemsOf, LinesOf, Whole
<1>. HIDE DEF n
<1>5. ItemsOf(r) \in Seq({Pieces(l) : l \in Lines}) /\ Len(ItemsOf(r)) = n
  BY <1>3, <1>4
<1>. QED  BY <1>2, <1>3, <1>4, <1>5 DEF n

\* What a reading adds to the history.
LEMMA IdsOfItems ==
    ASSUME MonitorsTyped, NEW r \in Readers, Whole(r)
    PROVE  Ids(ItemsOf(r)) = {LinesOf(r)[i].id : i \in DOMAIN LinesOf(r)}
<1>1. \A i \in DOMAIN LinesOf(r) : \A p : p \in ToSet(ItemsOf(r)[i]) =>
          p.id = LinesOf(r)[i].id
  <2>. SUFFICES ASSUME NEW i \in DOMAIN LinesOf(r), NEW p \in ToSet(ItemsOf(r)[i])
                PROVE  p.id = LinesOf(r)[i].id
    OBVIOUS
  <2>1. ItemsOf(r)[i] = Pieces(LinesOf(r)[i]) /\ LinesOf(r)[i] \in Lines
    BY ItemsAreLines
  <2>. QED  BY <2>1, PiecesOfLine DEF ToSet
<1>2. \A i \in DOMAIN LinesOf(r) : \E p \in ToSet(ItemsOf(r)[i]) : p.id = LinesOf(r)[i].id
  <2>. SUFFICES ASSUME NEW i \in DOMAIN LinesOf(r)
                PROVE  \E p \in ToSet(ItemsOf(r)[i]) : p.id = LinesOf(r)[i].id
    OBVIOUS
  <2>1. ItemsOf(r)[i] = Pieces(LinesOf(r)[i]) /\ LinesOf(r)[i] \in Lines
    BY ItemsAreLines
  <2>2. 1 \in DOMAIN ItemsOf(r)[i] /\ ItemsOf(r)[i][1].id = LinesOf(r)[i].id
    BY <2>1, PiecesOfLine
  <2>. QED  BY <2>2 DEF ToSet
<1>3. DOMAIN ItemsOf(r) = DOMAIN LinesOf(r)
  BY ItemsAreLines
<1>. QED  BY <1>1, <1>2, <1>3 DEF Ids

\* What follows the last line that was known.
LEMMA NewLines ==
    ASSUME MonitorsTyped, NEW r \in Readers, Whole(r)
    PROVE  \E m \in 0..Len(LinesOf(r)) :
             /\ m = 0 \/ Said(r, m)
             /\ \A j \in DOMAIN LinesOf(r) : Said(r, j) => j <= m
             /\ New(r) \in Seq({Pieces(l) : l \in Lines})
             /\ DOMAIN New(r) = 1..(Len(LinesOf(r)) - m)
             /\ \A k \in 1..(Len(LinesOf(r)) - m) : New(r)[k] = Pieces(LinesOf(r)[m + k])
<1>. DEFINE n == Len(LinesOf(r))
            m == Max(Known(r) \cup {0})
<1>1. /\ n \in Nat /\ DOMAIN LinesOf(r) = 1..n /\ Len(ItemsOf(r)) = n
      /\ ItemsOf(r) \in Seq({Pieces(l) : l \in Lines})
      /\ \A i \in 1..n : ItemsOf(r)[i] = Pieces(LinesOf(r)[i])
      /\ DOMAIN ItemsOf(r) = 1..n
  BY ItemsAreLines
<1>2. Known(r) = {i \in 1..n : Said(r, i)}
  BY <1>1 DEF Known, Said, Tells
<1>. HIDE DEF n
<1>3. m \in Known(r) \cup {0} /\ \A j \in Known(r) \cup {0} : j <= m
  <2>1. Known(r) \cup {0} \in SUBSET (0..n) /\ Known(r) \cup {0} # {}
    BY <1>1, <1>2
  <2>. QED  BY <1>1, <2>1, MaxOf
<1>4. New(r) = SubSeq(ItemsOf(r), m + 1, n)
  BY <1>1 DEF New
<1>. HIDE DEF m
<1>5. m \in 0..n /\ (m = 0 \/ Said(r, m)) /\ \A j \in 1..n : Said(r, j) => j <= m
  BY <1>2, <1>3, <1>1
<1>6. DOMAIN New(r) = 1..(n - m) /\ \A k \in 1..(n - m) : New(r)[k] = ItemsOf(r)[m + k]
  BY <1>1, <1>4, <1>5
<1>7. \A k \in 1..(n - m) : New(r)[k] = Pieces(LinesOf(r)[m + k])
  BY <1>1, <1>5, <1>6
<1>8. New(r) \in Seq({Pieces(l) : l \in Lines})
  BY <1>1, <1>4, <1>5, RestOfSeq
<1>. QED  BY <1>1, <1>5, <1>6, <1>7, <1>8 DEF n

\* No line that was read is new, and where the lines are all different every
\* other line is.
LEMMA NewIsUnseen ==
    ASSUME MonitorsTyped, NEW r \in Readers, Whole(r), ReadUpTo(r)
    PROVE  /\ \A k \in DOMAIN New(r) : \E i \in DOMAIN LinesOf(r) :
                 New(r)[k] = Pieces(LinesOf(r)[i]) /\ LinesOf(r)[i].id \notin seen[r]
           /\ SourceOf[r] \in Stamped => \A i \in DOMAIN LinesOf(r) : LinesOf(r)[i].id \notin seen[r] =>
                 \E k \in DOMAIN New(r) : New(r)[k] = Pieces(LinesOf(r)[i])
<1>. DEFINE n == Len(LinesOf(r))
<1>1. n \in Nat /\ DOMAIN LinesOf(r) = 1..n
  BY ItemsAreLines
<1>2. PICK m \in 0..n :
             /\ m = 0 \/ Said(r, m)
             /\ \A j \in 1..n : Said(r, j) => j <= m
             /\ DOMAIN New(r) = 1..(n - m)
             /\ \A k \in 1..(n - m) : New(r)[k] = Pieces(LinesOf(r)[m + k])
  BY <1>1, NewLines
<1>. HIDE DEF n
<1>3. ASSUME NEW k \in DOMAIN New(r)
      PROVE  m + k \in 1..n /\ New(r)[k] = Pieces(LinesOf(r)[m + k]) /\ LinesOf(r)[m + k].id \notin seen[r]
  BY <1>1, <1>2, <1>3 DEF ReadUpTo
<1>4. ASSUME SourceOf[r] \in Stamped, NEW i \in 1..n, LinesOf(r)[i].id \notin seen[r]
      PROVE  i - m \in 1..(n - m) /\ New(r)[i - m] = Pieces(LinesOf(r)[i])
  <2>1. m < i
    BY <1>1, <1>2, <1>4 DEF ReadUpTo
  <2>. QED  BY <1>1, <1>2, <2>1
<1>. QED  BY <1>1, <1>2, <1>3, <1>4

-------------------------------------------------------------------------------
LEMMA MonitorsInit == MonitoringInit => MonitorsTyped /\ ReadersInv
<1>. SUFFICES ASSUME MonitoringInit PROVE MonitorsTyped /\ ReadersInv
  OBVIOUS
<1>1. PICK t \in Texts : source = [s \in Sources |-> <<[text |-> t, id |-> 1, half |-> 0]>>]
  BY DEF MonitoringInit
<1>. DEFINE l == [text |-> t, id |-> 1, half |-> 0]
<1>2. l \in Lines /\ l.id = 1
  BY DEF Lines
<1>. HIDE DEF l
<1>3. MonitorsTyped
  <2>1. source \in [Sources -> Seq(Lines)]
    BY <1>1, <1>2 DEF l
  <2>2. \A s \in Sources : \A i \in DOMAIN source[s] : source[s][i].id <= 1
    BY <1>1
  <2>. QED  BY <2>1, <2>2 DEF MonitoringInit, MonitorsTyped
<1>4. ASSUME NEW r \in Readers, Whole(r) PROVE ReadUpTo(r)
  <2>1. LinesOf(r) = <<l>>
    BY <1>1 DEF LinesOf, Sources, l
  <2>2. DOMAIN LinesOf(r) = {1} /\ LinesOf(r)[1] = l
    BY <2>1
  <2>3. written = 1
    BY DEF MonitoringInit
  <2>4. CASE Kind[r] = "dmesg"
    <3>1. last[r] = LastOf(r) /\ seen[r] = {1}
      BY <2>4 DEF MonitoringInit
    <3>2. ItemsOf(r) # <<>> /\ Len(ItemsOf(r)) = 1 /\ ItemsOf(r)[1] = Pieces(l)
      <4>1. Len(LinesOf(r)) = 1
        BY <2>1
      <4>2. /\ Len(ItemsOf(r)) = 1 /\ ItemsOf(r)[1] = Pieces(l)
            /\ ItemsOf(r) \in Seq({Pieces(x) : x \in Lines})
        BY <1>3, <1>4, <2>2, <4>1, ItemsAreLines
      <4>. QED  BY <4>2
    <3>3. last[r] = Tells(r, l)
      BY <3>1, <3>2 DEF LastOf, Tells
    <3>. QED  BY <1>2, <2>2, <2>3, <3>1, <3>3, PiecesOfLine DEF ReadUpTo, Said
  <2>5. CASE Kind[r] # "dmesg"
    <3>1. last[r] = <<>> /\ seen[r] = {}
      BY <2>5 DEF MonitoringInit
    <3>. QED  BY <1>2, <2>2, <2>3, <3>1, PiecesOfLine DEF ReadUpTo, Said
  <2>. QED  BY <2>4, <2>5
<1>. QED  BY <1>3, <1>4 DEF ReadersInv

\* Reading leaves everything read, and the last line known.
LEMMA ReadingKeeps ==
    ASSUME MonitorsTyped, ReadersInv, NEW rs, Read(rs), UNCHANGED <<source, written>>
    PROVE  MonitorsTyped' /\ ReadersInv'
<1>. USE DEF Said
<1>1. MonitorsTyped'
  BY DEF MonitorsTyped, Read
<1>2. ASSUME NEW r \in Readers, Whole(r) PROVE ReadUpTo(r)'
  <2>1. LinesOf(r)' = LinesOf(r) /\ UNCHANGED <<source, written>>
    BY DEF LinesOf
  <2>2. ReadUpTo(r)
    BY <1>2 DEF ReadersInv
  <2>3. CASE r \notin rs
    BY <2>1, <2>2, <2>3 DEF ReadUpTo, Read, Said
  <2>4. CASE r \in rs
    <3>1. last'[r] = LastOf(r) /\ seen'[r] = seen[r] \cup {LinesOf(r)[i].id : i \in DOMAIN LinesOf(r)}
      BY <1>2, <2>4, IdsOfItems DEF Read
    <3>2. PICK n \in Nat :
          /\ DOMAIN LinesOf(r) = 1..n
          /\ Len(ItemsOf(r)) = n /\ ItemsOf(r) \in Seq({Pieces(l) : l \in Lines})
          /\ \A i \in 1..n : LinesOf(r)[i] \in Lines /\ ItemsOf(r)[i] = Pieces(LinesOf(r)[i])
      BY <1>2, ItemsAreLines
    <3>3. \A i \in 1..n : LinesOf(r)[i].id \in 0..written
      <4>1. SourceOf[r] \in Sources
        BY DEF Sources
      <4>. QED  BY <3>2, <4>1 DEF MonitorsTyped, Lines, LinesOf
    <3>4. CASE n = 0
      <4>1. last'[r] = <<>>
        BY <3>1, <3>2, <3>4 DEF LastOf
      <4>. QED  BY <2>1, <2>2, <3>1, <3>2, <3>4, <4>1 DEF ReadUpTo, Said
    <3>5. CASE n # 0
      <4>1. n \in 1..n /\ last'[r] = Tells(r, LinesOf(r)[n])
        BY <3>1, <3>2, <3>5 DEF LastOf, Tells
      <4>2. Said(r, n)'
        BY <2>1, <4>1
      <4>3. SourceOf[r] \in Stamped => last'[r][1].id = LinesOf(r)[n].id
        BY <3>2, <4>1, PiecesOfLine
      <4>4. \A i \in 1..n : LinesOf(r)[i].id \in seen'[r]
        BY <3>1, <3>2
      <4>5. \A p \in seen'[r] : p \in 0..written
        BY <2>2, <3>1, <3>2, <3>3 DEF ReadUpTo
      <4>6. \A i \in 1..n : i <= n
        BY <3>2
      <4>. QED  BY <2>1, <3>2, <3>3, <4>1, <4>2, <4>3, <4>4, <4>5, <4>6 DEF ReadUpTo
    <3>. QED  BY <3>4, <3>5
  <2>. QED  BY <2>3, <2>4
<1>. QED  BY <1>1, <1>2 DEF ReadersInv, Whole

\* A line that is written is the newest of its source and unseen.
LEMMA WritingKeeps ==
    ASSUME MonitorsTyped, ReadersInv, NEW s \in Sources, NEW t \in Texts, WriteLine(s, t)
    PROVE  MonitorsTyped' /\ ReadersInv'
<1>. USE DEF Said
<1>1. PICK l \in Lines : l = [text |-> t, id |-> written + 1, half |-> 0]
  <2>1. [text |-> t, id |-> written + 1, half |-> 0] \in Lines
    BY DEF Lines, MonitorsTyped
  <2>. QED  BY <2>1
<1>0. l.id = written + 1 /\ written \in Nat
  BY <1>1 DEF MonitorsTyped
<1>2. PICK n \in Nat : source[s] \in Seq(Lines) /\ n = Len(source[s]) /\ DOMAIN source[s] = 1..n
  BY DEF MonitorsTyped
<1>3. UNCHANGED <<last, seen>> /\ written' = written + 1
  BY DEF WriteLine
<1>4. \E d \in 0..1, e \in 1..(n + 1) :
         /\ d + e = n + 1
         /\ source'[s] \in Seq(Lines) /\ DOMAIN source'[s] = 1..e
         /\ \A i \in 1..(e - 1) : source'[s][i] = source[s][i + d]
         /\ source'[s][e] = l
  <2>. DEFINE more == Append(source[s], l)
  <2>1. /\ more \in Seq(Lines) /\ Len(more) = n + 1 /\ DOMAIN more = 1..(n + 1)
        /\ \A i \in 1..n : more[i] = source[s][i]
        /\ more[n + 1] = l
    BY <1>1, <1>2
  <2>2. source' = [source EXCEPT ![s] = IF s = Log /\ Len(more) > Ring THEN Tail(more) ELSE more]
    BY <1>1 DEF WriteLine
  <2>3. source'[s] = (IF s = Log /\ Len(more) > Ring THEN Tail(more) ELSE more)
    BY <2>2 DEF MonitorsTyped
  <2>. HIDE DEF more
  <2>4. CASE s = Log /\ Len(more) > Ring
    <3>1. n >= 1
      BY <1>2, <2>1, <2>4, ReadersAssumption
    <3>2. Tail(more) \in Seq(Lines) /\ Len(Tail(more)) = n /\ \A i \in 1..n : Tail(more)[i] = more[i + 1]
      BY <1>2, <2>1
    <3>3. source'[s] = Tail(more) /\ DOMAIN Tail(more) = 1..n
      BY <2>3, <2>4, <3>2
    <3>4. /\ 1 + n = n + 1 /\ source'[s] \in Seq(Lines) /\ DOMAIN source'[s] = 1..n
          /\ \A i \in 1..(n - 1) : source'[s][i] = source[s][i + 1]
          /\ source'[s][n] = l
      BY <2>1, <3>1, <3>2, <3>3
    <3>. QED  BY <3>1, <3>4
  <2>5. CASE ~ (s = Log /\ Len(more) > Ring)
    <3>1. source'[s] = more
      BY <2>3, <2>5
    <3>2. /\ 0 + (n + 1) = n + 1 /\ source'[s] \in Seq(Lines) /\ DOMAIN source'[s] = 1..(n + 1)
          /\ \A i \in 1..((n + 1) - 1) : source'[s][i] = source[s][i + 0]
          /\ source'[s][n + 1] = l
      BY <2>1, <3>1
    <3>. QED  BY <3>2
  <2>. QED  BY <2>4, <2>5
<1>5. PICK d \in 0..1, e \in 1..(n + 1) :
         /\ d + e = n + 1
         /\ source'[s] \in Seq(Lines) /\ DOMAIN source'[s] = 1..e
         /\ \A i \in 1..(e - 1) : source'[s][i] = source[s][i + d]
         /\ source'[s][e] = l
  BY <1>4
<1>6. DOMAIN source' = Sources /\ \A u \in Sources : u # s => source'[u] = source[u]
  BY DEF WriteLine, MonitorsTyped
<1>7. MonitorsTyped'
  <2>1. \A u \in Sources : source'[u] \in Seq(Lines)
    BY <1>5, <1>6 DEF MonitorsTyped
  <2>2. source' \in [Sources -> Seq(Lines)]
    <3>1. \E f, v : source' = [f EXCEPT ![s] = v] /\ f \in [Sources -> Seq(Lines)]
      BY DEF WriteLine, MonitorsTyped
    <3>. QED  BY <2>1, <1>6, <3>1
  <2>3. \A i \in 1..n : source[s][i].id <= written /\ source[s][i] \in Lines
    BY <1>2 DEF MonitorsTyped
  <2>4. \A i \in 1..e : source'[s][i].id <= written + 1
    <3>. SUFFICES ASSUME NEW i \in 1..e PROVE source'[s][i].id <= written + 1
      OBVIOUS
    <3>1. CASE i = e
      BY <1>0, <1>1, <1>2, <1>5, <3>1
    <3>2. CASE i # e
      <4>1. i \in 1..(e - 1) /\ i + d \in 1..n
        BY <1>2, <1>5, <3>2
      <4>2. source'[s][i] = source[s][i + d]
        BY <1>5, <4>1
      <4>3. source[s][i + d].id <= written /\ source[s][i + d] \in Lines
        BY <2>3, <4>1
      <4>4. source[s][i + d].id \in Nat
        BY <4>3 DEF Lines
      <4>. QED  BY <1>0, <4>2, <4>3, <4>4
    <3>. QED  BY <3>1, <3>2
  <2>5. \A u \in Sources : \A i \in DOMAIN source[u] : source[u][i].id \in Nat
    <3>1. \A u \in Sources : \A i \in DOMAIN source[u] : source[u][i] \in Lines
      BY DEF MonitorsTyped
    <3>. QED  BY <3>1 DEF Lines
  <2>6. \A u \in Sources : \A i \in DOMAIN source'[u] : source'[u][i].id <= written + 1
    <3>. SUFFICES ASSUME NEW u \in Sources, NEW i \in DOMAIN source'[u]
                  PROVE  source'[u][i].id <= written + 1
      OBVIOUS
    <3>1. CASE u = s
      BY <1>5, <2>4, <3>1
    <3>2. CASE u # s
      <4>1. source'[u] = source[u] /\ i \in DOMAIN source[u]
        BY <1>6, <3>2
      <4>2. source[u][i].id <= written /\ source[u][i].id \in Nat
        BY <2>5, <4>1 DEF MonitorsTyped
      <4>. QED  BY <1>0, <4>1, <4>2
    <3>. QED  BY <3>1, <3>2
  <2>. QED  BY <1>0, <1>1, <1>3, <2>2, <2>6 DEF MonitorsTyped
<1>8. ASSUME NEW r \in Readers, Whole(r) PROVE ReadUpTo(r)'
  <2>1. ReadUpTo(r) /\ SourceOf[r] \in Sources
    BY <1>8 DEF ReadersInv, Sources
  <2>2. last' = last /\ LinesOf(r)' = source'[SourceOf[r]]
    BY <1>3 DEF LinesOf
  <2>3. CASE SourceOf[r] # s
    <3>1. LinesOf(r)' = LinesOf(r)
      BY <1>6, <2>1, <2>3 DEF LinesOf
    <3>. QED  BY <1>0, <1>1, <1>3, <2>1, <3>1 DEF ReadUpTo
  <2>4. CASE SourceOf[r] = s
    <3>1. LinesOf(r) = source[s] /\ LinesOf(r)' = source'[s]
      BY <2>4 DEF LinesOf
    <3>2. l.id \notin seen[r]
      BY <1>0, <1>1, <2>1 DEF ReadUpTo
    <3>3. \A i \in 1..(e - 1) : i + d \in 1..n /\ (Said(r, i)' <=> Said(r, i + d))
      BY <1>2, <1>5, <2>2, <2>4, <3>1 DEF Said
    <3>4. SourceOf[r] \in Stamped => ~ Said(r, e)'
      <4>1. SourceOf[r] \in Stamped => Tells(r, l) # <<>> /\ Tells(r, l)[1].id = written + 1
        BY <1>0, <1>1, PiecesOfLine
      <4>2. Said(r, e)' <=> Tells(r, l) = last[r]
        BY <1>5, <2>2, <2>4
      <4>. QED  BY <1>0, <1>1, <2>1, <4>1, <4>2 DEF ReadUpTo
    <3>5. ASSUME NEW i \in 1..e, source'[s][i].id \in seen[r]
          PROVE  \E j \in 1..e : i <= j /\ Said(r, j)'
      <4>1. i \in 1..(e - 1) /\ i + d \in 1..n
        <5>1. d + e = n + 1 /\ i # e
          BY <1>2, <1>5, <3>2, <3>5
        <5>. QED  BY <5>1
      <4>2. source[s][i + d].id \in seen[r]
        BY <1>5, <3>5, <4>1
      <4>3. PICK j \in 1..n : i + d <= j /\ Said(r, j)
        BY <1>2, <2>1, <3>1, <4>1, <4>2 DEF ReadUpTo
      <4>4. j - d \in 1..(e - 1) /\ i <= j - d /\ (j - d) + d = j
        <5>1. d + e = n + 1
          BY <1>5
        <5>. QED  BY <4>1, <4>3, <5>1
      <4>5. Said(r, j - d)'
        BY <3>3, <4>3, <4>4
      <4>. QED  BY <1>2, <4>4, <4>5
    <3>6. ASSUME SourceOf[r] \in Stamped, NEW i \in 1..e, NEW j \in 1..e,
                 i <= j, Said(r, j)'
          PROVE  source'[s][i].id \in seen[r]
      <4>1. j \in 1..(e - 1) /\ i \in 1..(e - 1)
        <5>1. n \in Nat /\ i <= j /\ j # e
          BY <1>2, <3>4, <3>6
        <5>. QED  BY <5>1
      <4>2. Said(r, j + d) /\ i + d <= j + d /\ i + d \in 1..n /\ j + d \in 1..n
        BY <1>2, <3>3, <3>6, <4>1
      <4>3. source[s][i + d].id \in seen[r]
        BY <1>2, <2>1, <3>1, <3>6, <4>2 DEF ReadUpTo
      <4>. QED  BY <1>5, <4>1, <4>3
    <3>7. \A p \in seen[r] : p \in 0..(written + 1)
      BY <1>0, <1>1, <2>1 DEF ReadUpTo
    <3>8. SourceOf[r] \in Stamped /\ last[r] # <<>> => last[r][1].id \in 0..(written + 1)
      <4>1. SUFFICES ASSUME SourceOf[r] \in Stamped, last[r] # <<>> PROVE last[r][1].id \in 0..(written + 1)
        OBVIOUS
      <4>. QED  BY <1>0, <1>1, <2>1, <4>1 DEF ReadUpTo
    <3>. QED  BY <1>3, <1>5, <3>1, <3>5, <3>6, <3>7, <3>8 DEF ReadUpTo
  <2>. QED  BY <2>3, <2>4
<1>. QED  BY <1>7, <1>8 DEF ReadersInv, Whole

\* A source that is emptied holds no line that was or was not read.
LEMMA EmptyingKeeps ==
    ASSUME MonitorsTyped, ReadersInv, NEW s \in Sources, EmptySource(s)
    PROVE  MonitorsTyped' /\ ReadersInv'
<1>1. UNCHANGED <<written, last, seen>> /\ DOMAIN source' = Sources
  BY DEF EmptySource, MonitorsTyped
<1>2. source'[s] = <<>> /\ \A u \in Sources : u # s => source'[u] = source[u]
  BY DEF EmptySource, MonitorsTyped
<1>3. MonitorsTyped'
  <2>1. source' \in [Sources -> Seq(Lines)]
    BY DEF EmptySource, MonitorsTyped
  <2>. QED  BY <1>1, <1>2, <2>1 DEF MonitorsTyped
<1>4. ASSUME NEW r \in Readers, Whole(r) PROVE ReadUpTo(r)'
  <2>1. ReadUpTo(r) /\ SourceOf[r] \in Sources /\ LinesOf(r)' = source'[SourceOf[r]]
    BY <1>4 DEF ReadersInv, Sources, LinesOf
  <2>2. CASE SourceOf[r] = s
    BY <1>1, <1>2, <2>1, <2>2 DEF ReadUpTo
  <2>3. CASE SourceOf[r] # s
    BY <1>1, <1>2, <2>1, <2>3 DEF ReadUpTo, Said, LinesOf
  <2>. QED  BY <2>2, <2>3
<1>. QED  BY <1>3, <1>4 DEF ReadersInv, Whole

LEMMA NoReadingKeeps ==
    ASSUME MonitorsTyped, ReadersInv, UNCHANGED <<source, written, last, seen>>
    PROVE  MonitorsTyped' /\ ReadersInv'
<1>1. \A r : LinesOf(r)' = LinesOf(r) 
  BY DEF LinesOf
<1>2. \A r \in Readers : ReadUpTo(r)' <=> ReadUpTo(r)
  BY <1>1 DEF ReadUpTo, Said
<1>. QED  BY <1>2 DEF ReadersInv, MonitorsTyped, Whole

LEMMA MonitorsNext ==
    ASSUME MonitorsTyped, ReadersInv, [MonitoringNext]_monitoringVars
    PROVE  MonitorsTyped' /\ ReadersInv'
<1>1. CASE UNCHANGED monitoringVars
  BY <1>1, NoReadingKeeps DEF monitoringVars
<1>2. CASE Begin
  BY <1>2, NoReadingKeeps, ReadingKeeps DEF Begin
<1>3. CASE UpdateMonitoring
  BY <1>3, ReadingKeeps DEF UpdateMonitoring
<1>4. CASE UpdateResult
  BY <1>4, NoReadingKeeps, ReadingKeeps DEF UpdateResult
<1>5. CASE Check
  BY <1>5, ReadingKeeps DEF Check
<1>6. ASSUME NEW s \in Sources, NEW t \in Texts, WriteLine(s, t)
      PROVE  MonitorsTyped' /\ ReadersInv'
  BY <1>6, WritingKeeps
<1>7. ASSUME NEW s \in Sources, EmptySource(s)
      PROVE  MonitorsTyped' /\ ReadersInv'
  BY <1>7, EmptyingKeeps
<1>8. ASSUME NEW s \in Sources, Toggle(s)
      PROVE  MonitorsTyped' /\ ReadersInv'
  BY <1>8, NoReadingKeeps DEF Toggle
<1>. QED
  BY <1>1, <1>2, <1>3, <1>4, <1>5, <1>6, <1>7, <1>8 DEF MonitoringNext, Thread, System

\* The test that began: of the kernel log only what was there has been read.
TestInv ==
    at \in {"begun", "running"} =>
        /\ start <= written /\ start \in Nat
        /\ \A i \in DOMAIN source[Log] : source[Log][i].id \in seen[Dmesg] <=> source[Log][i].id <= start

LEMMA DmesgReads == Dmesg \in Readers /\ Whole(Dmesg) /\ SourceOf[Dmesg] \in Stamped
                    /\ LinesOf(Dmesg) = source[Log] /\ Log \in Sources /\ Dmesg \notin Updated
BY ReadersAssumption DEF Readers, Whole, LinesOf, Log, Sources, Updated, ToSet

LEMMA TestNext ==
    ASSUME MonitorsTyped, ReadersInv, TestInv, [MonitoringNext]_monitoringVars
    PROVE  TestInv'
<1>0. \A i \in DOMAIN source[Log] : source[Log][i].id \in Nat /\ source[Log][i].id <= written
  <2>1. \A i \in DOMAIN source[Log] : source[Log][i] \in Lines
    BY DmesgReads DEF MonitorsTyped
  <2>. QED  BY <2>1, DmesgReads DEF MonitorsTyped, Lines
<1>1. CASE UNCHANGED monitoringVars
  BY <1>1 DEF monitoringVars, TestInv
<1>2. CASE Begin
  <2>1. CASE Raises(Dmesg)
    BY <1>2, <2>1 DEF Begin, TestInv
  <2>2. CASE ~ Raises(Dmesg)
    <3>1. seen'[Dmesg] = seen[Dmesg] \cup {source[Log][i].id : i \in DOMAIN source[Log]}
      BY <1>2, <2>2, DmesgReads, IdsOfItems DEF Begin, Read
    <3>2. start' = written /\ written' = written /\ source' = source /\ written \in Nat
      BY <1>2 DEF Begin, MonitorsTyped
    <3>. QED  BY <1>0, <3>1, <3>2 DEF TestInv
  <2>. QED  BY <2>1, <2>2
<1>3. CASE UpdateMonitoring
  <2>1. at = "begun" /\ UNCHANGED <<source, written, start>>
    BY <1>3 DEF UpdateMonitoring
  <2>2. seen'[Dmesg] = seen[Dmesg]
    BY <1>3, DmesgReads DEF UpdateMonitoring, Read
  <2>. QED  BY <2>1, <2>2 DEF TestInv
<1>4. CASE UpdateResult
  BY <1>4 DEF UpdateResult, TestInv
<1>5. CASE Check
  BY <1>5 DEF Check, TestInv
<1>6. ASSUME NEW s \in Sources, NEW t \in Texts, WriteLine(s, t)
      PROVE  TestInv'
  <2>. SUFFICES ASSUME at' \in {"begun", "running"} PROVE TestInv'
    BY DEF TestInv
  <2>1. UNCHANGED <<at, start, seen>> /\ written' = written + 1 /\ written \in Nat
    BY <1>6 DEF WriteLine, MonitorsTyped
  <2>2. /\ start <= written /\ start \in Nat
        /\ \A i \in DOMAIN source[Log] : source[Log][i].id \in seen[Dmesg] <=> source[Log][i].id <= start
    BY <2>1 DEF TestInv
  <2>3. \A i \in DOMAIN source'[Log] : source'[Log][i].id = written + 1
                                       \/ \E j \in DOMAIN source[Log] : source'[Log][i] = source[Log][j]
    <3>1. CASE s # Log
      BY <1>6, <3>1, DmesgReads DEF WriteLine, MonitorsTyped
    <3>2. CASE s = Log
      <4>0. [text |-> t, id |-> written + 1, half |-> 0] \in Lines
        BY <2>1 DEF Lines
      <4>1. PICK l \in Lines : l = [text |-> t, id |-> written + 1, half |-> 0]
        BY <4>0
      <4>2. l.id = written + 1
        BY <4>1
      <4>3. source[Log] \in Seq(Lines)
        BY DmesgReads DEF MonitorsTyped
      <4>4. PICK more : more = Append(source[Log], l)
        OBVIOUS
      <4>5. source'[Log] = more \/ source'[Log] = Tail(more)
        BY <1>6, <3>2, <4>1, <4>4, DmesgReads DEF WriteLine, MonitorsTyped
      <4>6. /\ more \in Seq(Lines) /\ more # <<>>
            /\ \A i \in DOMAIN more : more[i] = l \/ (i \in DOMAIN source[Log] /\ more[i] = source[Log][i])
        BY <4>3, <4>4, Appended
      <4>7. \A i \in DOMAIN Tail(more) : i + 1 \in DOMAIN more /\ Tail(more)[i] = more[i + 1]
        BY <4>6
      <4>. QED  BY <4>2, <4>5, <4>6, <4>7
    <3>. QED  BY <3>1, <3>2
  <2>4. written + 1 \notin seen[Dmesg]
    BY <2>1, DmesgReads DEF ReadersInv, ReadUpTo
  <2>. QED  BY <2>1, <2>2, <2>3, <2>4 DEF TestInv
<1>7. ASSUME NEW s \in Sources, EmptySource(s)
      PROVE  TestInv'
  <2>1. source'[Log] = source[Log] \/ source'[Log] = <<>>
    BY <1>7, DmesgReads DEF EmptySource, MonitorsTyped
  <2>. QED  BY <1>7, <2>1 DEF EmptySource, TestInv
<1>8. ASSUME NEW s \in Sources, Toggle(s)
      PROVE  TestInv'
  BY <1>8 DEF Toggle, TestInv
<1>. QED
  BY <1>1, <1>2, <1>3, <1>4, <1>5, <1>6, <1>7, <1>8 DEF MonitoringNext, Thread, System

\* For any rules, sources and texts: the kernel log marks a test exactly for
\* what was logged after the test's snapshot.
THEOREM DmesgBlames == MonitoringSpec => LogBlamesTheTest
<1>1. MonitorsTyped /\ ReadersInv /\ TestInv /\ [MonitoringNext]_monitoringVars =>
      [UpdateResult /\ ~Raises(Dmesg) =>
          (blamed' <=> \E l \in ToSet(source[Log]) : l.id > start)]_monitoringVars
  <2>. SUFFICES ASSUME MonitorsTyped, ReadersInv, TestInv, UpdateResult, ~Raises(Dmesg)
                PROVE  blamed' <=> \E l \in ToSet(source[Log]) : l.id > start
    BY DEF UpdateResult
  <2>1. blamed' <=> New(Dmesg) # <<>>
    BY DEF UpdateResult
  <2>2. /\ start \in Nat
        /\ \A i \in DOMAIN source[Log] : source[Log][i].id \in seen[Dmesg] <=> source[Log][i].id <= start
    BY DEF TestInv, UpdateResult
  <2>3. \A i \in DOMAIN source[Log] : source[Log][i].id \in Nat
    <3>1. \A i \in DOMAIN source[Log] : source[Log][i] \in Lines
      BY DmesgReads DEF MonitorsTyped
    <3>. QED  BY <3>1 DEF Lines
  <2>4. New(Dmesg) # <<>> <=> \E k \in DOMAIN New(Dmesg) : TRUE
    <3>1. New(Dmesg) \in Seq({Pieces(l) : l \in Lines})
      BY NewLines, DmesgReads
    <3>. QED  BY <3>1
  <2>5. (\E k \in DOMAIN New(Dmesg) : TRUE) <=> \E i \in DOMAIN source[Log] : source[Log][i].id \notin seen[Dmesg]
    BY NewIsUnseen, DmesgReads DEF ReadersInv
  <2>. QED  BY <2>1, <2>2, <2>3, <2>4, <2>5 DEF ToSet
<1>2. MonitoringInit => TestInv
  BY DEF MonitoringInit, TestInv
<1>. QED  BY <1>1, <1>2, MonitorsInit, MonitorsNext, TestNext, PTL DEF MonitoringSpec, LogBlamesTheTest

\* For any rules, sources and texts: a monitored run is aborted for errors that
\* are new, and where lines are all different for every new error.
THEOREM MonitorAborts == MonitoringSpec => NewErrorsAbort
<1>1. MonitorsTyped /\ ReadersInv /\ [MonitoringNext]_monitoringVars =>
      [Check /\ ~Stopped =>
          /\ abort' # <<>> /\ Kind[abort'[1].rule] # "locked_file" =>
                Ids(<<abort'[1].line>>) \cap seen[abort'[1].rule] = {}
          /\ (\E r \in Updated : Kind[r] # "locked_file" /\ SourceOf[r] \in Stamped /\ Unseen(r) # {})
                => abort' # <<>>]_monitoringVars
  <2>. SUFFICES ASSUME MonitorsTyped, ReadersInv, Check, ~Stopped
                PROVE  /\ abort' # <<>> /\ Kind[abort'[1].rule] # "locked_file" =>
                             Ids(<<abort'[1].line>>) \cap seen[abort'[1].rule] = {}
                       /\ (\E r \in Updated : Kind[r] # "locked_file" /\ SourceOf[r] \in Stamped /\ Unseen(r) # {})
                             => abort' # <<>>
    OBVIOUS
  <2>0. /\ Alarmed = {} => abort' = <<>>
        /\ Alarmed # {} => abort' = <<[rule |-> Rules[Min(Alarmed)],
                                      line |-> Fresh(Rules[Min(Alarmed)])[Min(ErrorsOf(Rules[Min(Alarmed)]))]]>>
    BY DEF Check
  <2>1. ASSUME Alarmed # {}, NEW r, r = Rules[Min(Alarmed)], Whole(r)
        PROVE  Ids(<<Fresh(r)[Min(ErrorsOf(r))]>>) \cap seen[r] = {}
    <3>1. Alarmed \in SUBSET Nat
      BY ReadersAssumption DEF Alarmed
    <3>2. Min(Alarmed) \in Alarmed
      BY <2>1, <3>1, MinOf
    <3>3. r \in Readers /\ ErrorsOf(r) # {}
      BY <2>1, <3>2, ReadersAssumption DEF Alarmed, Readers, ToSet
    <3>4. PICK m \in 0..Len(LinesOf(r)) : DOMAIN New(r) = 1..(Len(LinesOf(r)) - m)
      BY <2>1, <3>3, NewLines
    <3>5. readable[SourceOf[r]] /\ Fresh(r) = New(r)
      BY <3>3 DEF Fresh, ErrorsOf
    <3>6. ErrorsOf(r) \in SUBSET Nat
      BY <2>1, <3>3, <3>4, <3>5, ItemsAreLines DEF ErrorsOf
    <3>7. Min(ErrorsOf(r)) \in DOMAIN New(r)
      BY <3>3, <3>5, <3>6, MinOf DEF ErrorsOf
    <3>8. PICK i \in DOMAIN LinesOf(r) : /\ New(r)[Min(ErrorsOf(r))] = Pieces(LinesOf(r)[i])
                                         /\ LinesOf(r)[i].id \notin seen[r]
      BY <2>1, <3>3, <3>7, NewIsUnseen DEF ReadersInv
    <3>9. LinesOf(r)[i] \in Lines
      BY <2>1, <3>3, ItemsAreLines
    <3>10. Ids(<<Pieces(LinesOf(r)[i])>>) = {LinesOf(r)[i].id}
      <4>1. ToSet(Pieces(LinesOf(r)[i])) = {Pieces(LinesOf(r)[i])[1], Pieces(LinesOf(r)[i])[2]}
        BY <3>3, <3>9, PiecesOfLine DEF ToSet
      <4>2. Ids(<<Pieces(LinesOf(r)[i])>>) = {p.id : p \in ToSet(Pieces(LinesOf(r)[i]))}
        BY DEF Ids
      <4>. QED  BY <3>3, <3>9, <4>1, <4>2, PiecesOfLine
    <3>. QED  BY <3>5, <3>8, <3>10
  <2>2. ASSUME NEW r \in Updated, Whole(r), SourceOf[r] \in Stamped, Unseen(r) # {}
        PROVE  Alarmed # {}
    <3>1. PICK j \in DOMAIN Rules : r = Rules[j] /\ readable[SourceOf[r]]
      BY DEF Updated
    <3>2. r \in Readers /\ New(r) = Fresh(r)
      BY <3>1 DEF Readers, ToSet, Fresh
    <3>3. PICK i \in DOMAIN LinesOf(r) : LinesOf(r)[i].id \notin seen[r] /\ LinesOf(r)[i].text \in Errors
      <4>1. PICK p : p \in Unseen(r)
        BY <2>2
      <4>2. p \notin seen[r] /\ \E l \in ToSet(LinesOf(r)) : l.id = p /\ l.text \in Errors
        BY <4>1 DEF Unseen, LinesOf
      <4>. QED  BY <4>2 DEF ToSet
    <3>4. PICK k \in DOMAIN New(r) : New(r)[k] = Pieces(LinesOf(r)[i])
      BY <2>2, <3>2, <3>3, NewIsUnseen DEF ReadersInv
    <3>5. LinesOf(r)[i] \in Lines
      BY <2>2, <3>2, ItemsAreLines
    <3>6. Found(New(r)[k])
      BY <3>2, <3>3, <3>4, <3>5, PiecesOfLine DEF Found
    <3>. QED  BY <3>1, <3>2, <3>6 DEF Alarmed, ErrorsOf
  <2>3. abort' # <<>> /\ Kind[abort'[1].rule] # "locked_file" =>
             Ids(<<abort'[1].line>>) \cap seen[abort'[1].rule] = {}
    <3>. DEFINE r == Rules[Min(Alarmed)]
                line == Fresh(r)[Min(ErrorsOf(r))]
    <3>1. Alarmed # {} => abort' # <<>> /\ abort'[1].rule = r /\ abort'[1].line = line
      BY <2>0
    <3>2. Alarmed # {} /\ Whole(r) => Ids(<<line>>) \cap seen[r] = {}
      BY <2>1
    <3>. HIDE DEF r, line
    <3>. QED  BY <2>0, <3>1, <3>2 DEF Whole
  <2>. QED  BY <2>0, <2>2, <2>3 DEF Whole
<1>. QED  BY <1>1, MonitorsInit, MonitorsNext, PTL DEF MonitoringSpec, NewErrorsAbort

(***************************************************************************)
(* JUnit.  For any tests and any lists of expected failures and crashes, a *)
(* testcase is red exactly when its test did not end as it should have.    *)
(***************************************************************************)
NotBoth(n, r) == \A name \in {n} \cup {Append(n, x.name) : x \in ToSet(r.subtests)} : ExpectedResult(name) # "both"

\* Every element is that of the result recorded, and what is loaded is the
\* status of an element of its own.
ElementsFollow ==
    /\ expected \in [Listed -> {"pass", "failure", "error", "both"}]
    /\ DOMAIN recorded \subseteq JUnitNames /\ DOMAIN elements = DOMAIN recorded
    /\ \A n \in DOMAIN recorded : /\ recorded[n] \in JUnitOutcomes
                                  /\ NotBoth(n, recorded[n])
                                  /\ elements[n] = Elements(n, recorded[n])
    /\ \A k \in DOMAIN loaded : \E m \in DOMAIN recorded :
          /\ ~elements[m][1].suite /\ LoadName(elements[m][1].name) = k
          /\ loaded[k] = elements[m][1].status

LEMMA ElementsFollowInit == JUnitInit => ElementsFollow
<1>1. DOMAIN <<>> = {}
  OBVIOUS
<1>. QED  BY <1>1 DEF JUnitInit, ElementsFollow

LEMMA ElementsFollowStep == ElementsFollow /\ [JUnitNext]_junitVars => ElementsFollow'
<1>. SUFFICES ASSUME ElementsFollow, [JUnitNext]_junitVars PROVE ElementsFollow'
  OBVIOUS
<1>. USE DEF ElementsFollow
<1>1. CASE Finalize
  <2>. DEFINE cases == {n \in DOMAIN elements : ~elements[n][1].suite}
  <2>1. loaded' = [name \in {LoadName(elements[n][1].name) : n \in cases} |->
                     elements[CHOOSE n \in cases : LoadName(elements[n][1].name) = name][1].status]
    BY <1>1 DEF Finalize
  <2>2. UNCHANGED <<expected, elements, recorded>>
    BY <1>1 DEF Finalize
  <2>3. ASSUME NEW k \in DOMAIN loaded'
        PROVE  \E m \in DOMAIN recorded' :
                  /\ ~elements'[m][1].suite /\ LoadName(elements'[m][1].name) = k
                  /\ loaded'[k] = elements'[m][1].status
    <3>1. \E n \in cases : LoadName(elements[n][1].name) = k
      BY <2>1
    <3>2. PICK m : m = CHOOSE n \in cases : LoadName(elements[n][1].name) = k
      OBVIOUS
    <3>3. m \in cases /\ LoadName(elements[m][1].name) = k
      BY <3>1, <3>2
    <3>4. loaded'[k] = elements[m][1].status
      BY <2>1, <3>2
    <3>. QED  BY <2>2, <3>3, <3>4
  <2>. QED  BY <2>2, <2>3 DEF NotBoth, Elements, Subcase, ExpectedResult
<1>2. ASSUME NEW n \in JUnitNames, NEW r \in JUnitOutcomes, WriteTest(n, r) PROVE ElementsFollow'
  <2>1. n \notin DOMAIN recorded /\ NotBoth(n, r)
    BY <1>2 DEF WriteTest, NotBoth
  <2>2. /\ DOMAIN elements' = {n} \cup DOMAIN elements /\ DOMAIN recorded' = {n} \cup DOMAIN recorded
        /\ elements'[n] = Elements(n, r) /\ recorded'[n] = r
        /\ \A m \in DOMAIN elements : m # n => elements'[m] = elements[m]
        /\ \A m \in DOMAIN recorded : m # n => recorded'[m] = recorded[m]
    BY <1>2 DEF WriteTest, Entered
  <2>3. UNCHANGED <<expected, loaded>>
    BY <1>2 DEF WriteTest
  <2>5. DOMAIN recorded' \subseteq JUnitNames /\ DOMAIN elements' = DOMAIN recorded'
    BY <2>2
  <2>6. ASSUME NEW m \in DOMAIN recorded'
        PROVE  /\ recorded'[m] \in JUnitOutcomes
               /\ NotBoth(m, recorded'[m]) /\ elements'[m] = Elements(m, recorded'[m])
    BY <2>1, <2>2
  <2>7. ASSUME NEW k \in DOMAIN loaded
        PROVE  \E m \in DOMAIN recorded' :
                  /\ ~elements'[m][1].suite /\ LoadName(elements'[m][1].name) = k
                  /\ loaded[k] = elements'[m][1].status
    <3>1. PICK m \in DOMAIN recorded :
                  /\ ~elements[m][1].suite /\ LoadName(elements[m][1].name) = k
                  /\ loaded[k] = elements[m][1].status
      OBVIOUS
    <3>2. m \in DOMAIN recorded' /\ elements'[m] = elements[m]
      BY <2>1, <2>2
    <3>. QED  BY <3>1, <3>2
  <2>8. expected' \in [Listed -> {"pass", "failure", "error", "both"}]
    BY <2>3
  <2>9. \A m \in DOMAIN recorded' : (NotBoth(m, recorded[m]) /\ elements[m] = Elements(m, recorded[m]))'
    BY <2>3, <2>6 DEF NotBoth, ExpectedResult, Elements, Subcase
  <2>. QED  BY <2>3, <2>5, <2>6, <2>7, <2>8, <2>9
<1>3. CASE UNCHANGED junitVars
  BY <1>3 DEF junitVars, NotBoth, Elements, Subcase, ExpectedResult
<1>. QED  BY <1>1, <1>2, <1>3 DEF JUnitNext

\* What _make_result says of one status.
LEMMA RedIsUnwanted ==
    ASSUME NEW s \in ALL, NEW want \in {"pass", "failure", "error"}
    PROVE  MakeResult(s, want) \in {"failure", "error"} <=>
              s \notin (CASE want = "failure" -> FailLike
                          [] want = "error" -> CrashLike
                          [] OTHER -> {"pass", "warn", "skip", "notrun"})
<1>1. ALL = {"pass", "warn", "dmesgwarn", "fail", "dmesgfail", "timeout", "crash", "incomplete", "skip", "notrun"}
  BY DEF ALL, Ranked
<1>2. MakeResult(s, "pass") \in {"failure", "error"} <=> s \notin {"pass", "warn", "skip", "notrun"}
  BY <1>1 DEF MakeResult, FailLike, CrashLike
<1>3. MakeResult(s, "failure") \in {"failure", "error"} <=> s \notin FailLike
  BY <1>1 DEF MakeResult, FailLike, CrashLike
<1>4. MakeResult(s, "error") \in {"failure", "error"} <=> s \notin CrashLike
  BY <1>1 DEF MakeResult, FailLike, CrashLike
<1>. QED  BY <1>2, <1>3, <1>4

LEMMA ResultIsStatus == ASSUME NEW r \in JUnitOutcomes PROVE ResultOf(r) \in ALL
<1>1. r.raw \in ALL /\ r.subtests \in Seq([name : STRING, status : ALL])
  BY JUnitAssumption
<1>2. StatusesOf(r.subtests) \in Seq(ALL) /\ (r.subtests # <<>> => StatusesOf(r.subtests) # <<>>)
  <2>1. \A i \in DOMAIN r.subtests : r.subtests[i].status \in ALL
    <3>1. \A i \in DOMAIN r.subtests : r.subtests[i] \in [name : STRING, status : ALL]
      BY <1>1, ElementIn
    <3>. QED  BY <3>1
  <2>2. StatusesOf(r.subtests) = [i \in 1..Len(r.subtests) |-> r.subtests[i].status] /\ Len(r.subtests) \in Nat
    BY <1>1 DEF StatusesOf
  <2>. QED  BY <1>1, <2>1, <2>2
<1>. QED  BY <1>1, <1>2, WorstIsOne DEF ResultOf

\* "Any unexpected result (pass/crash) will be listed as a failure"
\* (piglit.conf): JUnitFiles.ExpectedIsGreen.
THEOREM ExpectedOnesAreGreen == JUnitSpec => []ExpectedIsGreen
<1>1. ElementsFollow => ExpectedIsGreen
  <2>. SUFFICES ASSUME ElementsFollow PROVE ExpectedIsGreen
    OBVIOUS
  <2>. DEFINE Wanted(n) == CASE ExpectedResult(n) = "failure" -> FailLike
                             [] ExpectedResult(n) = "error" -> CrashLike
                             [] OTHER -> {"pass", "warn", "skip", "notrun"}
  <2>1. ASSUME NEW n \in DOMAIN recorded, NEW i \in DOMAIN elements[n],
               elements[n][i].suite => ResultOf(recorded[n]) # "incomplete"
        PROVE  elements[n][i].child \in {"failure", "error"} <=>
                 elements[n][i].status \notin
                   Wanted(IF elements[n][i].suite THEN Append(n, recorded[n].subtests[i].name) ELSE n)
    <3>. DEFINE r == recorded[n]
    <3>1. r \in JUnitOutcomes /\ elements[n] = Elements(n, r) /\ NotBoth(n, r)
      BY DEF ElementsFollow
    <3>2. r.subtests \in Seq([name : STRING, status : ALL]) /\ ResultOf(r) \in ALL
      BY <3>1, JUnitAssumption, ResultIsStatus
    <3>. HIDE DEF r
    <3>3. ASSUME NEW name, ExpectedResult(name) # "both"
          PROVE  ExpectedResult(name) \in {"pass", "failure", "error"}
      BY <3>3 DEF ExpectedResult, ElementsFollow
    <3>4. CASE WithSubtests /\ r.subtests # <<>>
      <4>1. i \in DOMAIN r.subtests /\ elements[n][i] = Subcase(n, r.subtests[i], ResultOf(r) # "incomplete")
        BY <3>1, <3>4 DEF Elements
      <4>2. r.subtests[i] \in ToSet(r.subtests) /\ r.subtests[i].status \in ALL
        <5>1. r.subtests[i] \in [name : STRING, status : ALL]
          BY <3>2, <4>1, ElementIn
        <5>2. ToSet(r.subtests) = {r.subtests[j] : j \in DOMAIN r.subtests}
          BY DEF ToSet
        <5>. QED  BY <4>1, <5>1, <5>2
      <4>3. ExpectedResult(Append(n, r.subtests[i].name)) \in {"pass", "failure", "error"}
        BY <3>1, <3>3, <4>2 DEF NotBoth
      <4>4. /\ elements[n][i].suite /\ elements[n][i].status = r.subtests[i].status
            /\ elements[n][i].child = MakeResult(r.subtests[i].status, ExpectedResult(Append(n, r.subtests[i].name)))
        BY <2>1, <4>1 DEF Subcase, r
      <4>. QED  BY <4>2, <4>3, <4>4, RedIsUnwanted DEF r
    <3>5. CASE ~(WithSubtests /\ r.subtests # <<>>)
      <4>1. /\ ~elements[n][i].suite /\ elements[n][i].status = ResultOf(r)
            /\ elements[n][i].child = MakeResult(ResultOf(r), ExpectedResult(n))
        BY <3>1, <3>5 DEF Elements
      <4>2. ExpectedResult(n) \in {"pass", "failure", "error"}
        BY <3>1, <3>3 DEF NotBoth
      <4>. QED  BY <3>2, <4>1, <4>2, RedIsUnwanted
    <3>. QED  BY <3>4, <3>5
  <2>2. ASSUME NEW n \in DOMAIN recorded, n \in DOMAIN loaded PROVE loaded[n] = ResultOf(recorded[n])
    <3>1. PICK m \in DOMAIN recorded :
                  /\ ~elements[m][1].suite /\ LoadName(elements[m][1].name) = n
                  /\ loaded[n] = elements[m][1].status
      BY <2>2 DEF ElementsFollow
    <3>2. elements[m] = Elements(m, recorded[m]) /\ m \in JUnitNames /\ n \in JUnitNames
          /\ recorded[m].subtests \in Seq([name : STRING, status : ALL])
      BY JUnitAssumption DEF ElementsFollow
    <3>3. elements[m][1].name = MakeNames(m) /\ elements[m][1].status = ResultOf(recorded[m])
      <4>1. CASE WithSubtests /\ recorded[m].subtests # <<>>
        <5>1. 1 \in DOMAIN recorded[m].subtests
          BY <3>2, <4>1
        <5>2. elements[m][1].suite
          BY <3>2, <4>1, <5>1 DEF Elements, Subcase
        <5>. QED  BY <3>1, <5>2
      <4>2. CASE ~(WithSubtests /\ recorded[m].subtests # <<>>)
        BY <3>2, <4>2 DEF Elements
      <4>. QED  BY <4>1, <4>2
    <3>4. m = n
      BY <3>1, <3>2, <3>3, NamesComeBack
    <3>. QED  BY <3>1, <3>3, <3>4
  <2>. QED  BY <2>1, <2>2 DEF ExpectedIsGreen
<1>. QED  BY <1>1, ElementsFollowInit, ElementsFollowStep, PTL DEF JUnitSpec

(***************************************************************************)
(* Summaries.  For any results files, the pages of every comparison of two *)
(* of them fit together, and each status column counts the names of its    *)
(* status.                                                                 *)
(***************************************************************************)
Subtests == [name : STRING, status : ALL]

FilesInv ==
    /\ compared = [i \in 1..Files |-> compared[i]]
    /\ \A i \in 1..Files : /\ DOMAIN compared[i] \subseteq TestNames
                           /\ IsFiniteSet(DOMAIN compared[i])
                           /\ \A n \in DOMAIN compared[i] : compared[i][n] \in Outcomes

LEMMA FilesInductive == SummarySpec => []FilesInv
<1>1. SummaryInit => FilesInv
  <2>. SUFFICES ASSUME SummaryInit PROVE FilesInv
    OBVIOUS
  <2>1. compared = [i \in 1..Files |-> compared[i]] /\ \A i \in 1..Files : compared[i] = <<>>
    BY DEF SummaryInit
  <2>2. DOMAIN <<>> = {}
    OBVIOUS
  <2>. QED  BY <2>1, <2>2, FS_EmptySet DEF FilesInv
<1>2. FilesInv /\ [SummaryNext]_compared => FilesInv'
  <2>. SUFFICES ASSUME FilesInv, [SummaryNext]_compared PROVE FilesInv'
    OBVIOUS
  <2>1. ASSUME NEW j \in 1..Files, NEW n \in TestNames, NEW r \in Outcomes, AddTest(j, n, r) PROVE FilesInv'
    <3>1. compared' = [i \in 1..Files |-> compared'[i]] /\ \A i \in 1..Files : i # j => compared'[i] = compared[i]
      BY <2>1 DEF AddTest, FilesInv
    <3>2. compared'[j] = Entered(compared[j], n, r)
      BY <2>1 DEF AddTest, FilesInv
    <3>3. /\ DOMAIN compared'[j] = DOMAIN compared[j] \cup {n} /\ compared'[j][n] = r
          /\ \A m \in DOMAIN compared[j] : m # n => compared'[j][m] = compared[j][m]
      BY <3>2 DEF Entered
    <3>4. IsFiniteSet(DOMAIN compared[j] \cup {n})
      BY FS_AddElement DEF FilesInv
    <3>. QED  BY <3>1, <3>3, <3>4 DEF FilesInv
  <2>2. CASE UNCHANGED compared
    BY <2>2 DEF FilesInv
  <2>. QED  BY <2>1, <2>2 DEF SummaryNext
<1>. QED  BY <1>1, <1>2, PTL DEF SummarySpec

\* A results file that FilesInv speaks of.
ResultsFile(p) == /\ DOMAIN p \subseteq TestNames /\ IsFiniteSet(DOMAIN p)
                  /\ \A n \in DOMAIN p : p[n] \in Outcomes

LEMMA SubtestIn == ASSUME NEW r \in Outcomes, NEW i \in DOMAIN r.subtests
                   PROVE  r.subtests[i] \in Subtests /\ r.subtests[i].name \in STRING /\ r.subtests[i].status \in ALL
<1>1. r.subtests \in Seq(Subtests)
  BY SummaryAssumption DEF Subtests
<1>2. r.subtests[i] \in Subtests
  BY <1>1, ElementIn
<1>. QED  BY <1>2 DEF Subtests

LEMMA SubtestStatuses == ASSUME NEW r \in Outcomes PROVE StatusesOf(r.subtests) \in Seq(ALL) /\ DOMAIN StatusesOf(r.subtests) = DOMAIN r.subtests
<1>1. r.subtests \in Seq(Subtests)
  BY SummaryAssumption DEF Subtests
<1>2. StatusesOf(r.subtests) = [i \in 1..Len(r.subtests) |-> r.subtests[i].status] /\ Len(r.subtests) \in Nat
  BY <1>1 DEF StatusesOf
<1>3. \A i \in 1..Len(r.subtests) : r.subtests[i].status \in ALL
  BY <1>1, SubtestIn
<1>. QED  BY <1>1, <1>2, <1>3

LEMMA OutcomeIsStatus == ASSUME NEW r \in Outcomes PROVE ResultOf(r) \in ALL
<1>1. r.raw \in ALL /\ r.subtests \in Seq(Subtests)
  BY SummaryAssumption DEF Subtests
<1>2. r.subtests # <<>> => StatusesOf(r.subtests) # <<>>
  <2>1. r.subtests # <<>> => 1 \in DOMAIN r.subtests
    BY <1>1
  <2>. QED  BY <2>1, SubtestStatuses
<1>. QED  BY <1>1, <1>2, SubtestStatuses, WorstIsOne DEF ResultOf

\* get_result gives a status, or there is no such test.
LEMMA GetIsStatus == ASSUME NEW p, ResultsFile(p), NEW n, HasTest(p, n) PROVE GetResult(p, n) \in ALL
<1>1. CASE n \in DOMAIN p
  BY <1>1, OutcomeIsStatus DEF GetResult, ResultsFile
<1>2. CASE n \notin DOMAIN p
  <2>. DEFINE m == GroupName(n)
              hits == IF n # <<>> /\ m \in DOMAIN p THEN {i \in DOMAIN p[m].subtests : p[m].subtests[i].name = Last(n)} ELSE {}
  <2>1. GetResult(p, n) = IF hits = {} THEN Missing ELSE p[m].subtests[CHOOSE i \in hits : TRUE].status
    BY <1>2 DEF GetResult
  <2>2. PICK i \in hits : i = CHOOSE k \in hits : TRUE
    BY <2>1 DEF HasTest
  <2>3. m \in DOMAIN p /\ i \in DOMAIN p[m].subtests /\ GetResult(p, n) = p[m].subtests[i].status
    BY <2>1, <2>2
  <2>. QED  BY <2>3, SubtestIn DEF ResultsFile
<1>. QED  BY <1>1, <1>2

\* What the result of a name is.
LEMMA GetOfTest == ASSUME NEW p, NEW n \in DOMAIN p PROVE GetResult(p, n) = ResultOf(p[n])
BY DEF GetResult

LEMMA GetOfSubtest ==
    ASSUME NEW p, ResultsFile(p), NEW n \in DOMAIN p, NEW i \in DOMAIN p[n].subtests
    PROVE  GetResult(p, n \o <<p[n].subtests[i].name>>) = p[n].subtests[i].status
<1>. DEFINE x == p[n].subtests[i].name
            k == n \o <<x>>
            hits == {j \in DOMAIN p[n].subtests : p[n].subtests[j].name = Last(k)}
<1>1. n \in Seq(STRING) /\ n \in TestNames /\ p[n] \in Outcomes /\ x \in STRING
  BY SummaryAssumption, SubtestIn DEF ResultsFile
<1>2. k \notin DOMAIN p
  BY <1>1, SummaryAssumption DEF ResultsFile
<1>. HIDE DEF x
<1>3. Front(k) = n /\ Last(k) = x /\ k # <<>>
  BY <1>1 DEF Front, Last
<1>4. GroupName(k) = n
  BY <1>3 DEF GroupName
<1>5. GetResult(p, k) = IF hits = {} THEN Missing ELSE p[n].subtests[CHOOSE j \in hits : TRUE].status
  <2>. DEFINE m == GroupName(k)
              found == IF k # <<>> /\ m \in DOMAIN p THEN {j \in DOMAIN p[m].subtests : p[m].subtests[j].name = Last(k)} ELSE {}
  <2>1. GetResult(p, k) = IF found = {} THEN Missing ELSE p[m].subtests[CHOOSE j \in found : TRUE].status
    BY <1>2 DEF GetResult
  <2>2. m = n /\ found = hits
    BY <1>3, <1>4
  <2>. HIDE DEF m, found, hits
  <2>. QED  BY <2>1, <2>2
<1>6. hits = {i}
  BY <1>1, <1>3, SummaryAssumption DEF x
<1>. QED  BY <1>5, <1>6 DEF x

\* What the comparators of the pages say of two statuses.
LEMMA PagesOfTwo ==
    ASSUME NEW x \in ALL, NEW y \in ALL
    PROVE  /\ WorseIn(x, y) <=> 0 <= RankOf(x) /\ RankOf(x) < RankOf(y)
           /\ BetterIn(x, y) <=> 0 <= RankOf(y) /\ RankOf(y) < RankOf(x)
           /\ x = y => ~Differs(x, y)
           /\ RankOf(x) # RankOf(y) => Differs(x, y)
           /\ Differs(x, y) => RankOf(x) # RankOf(y) \/ {x, y} \subseteq NoChange
           /\ x \in NoChange /\ x # y => Differs(x, y)
           /\ y \in NoChange /\ x # y => Differs(x, y)
           /\ (x \in NoChange <=> RankOf(x) < 0) /\ (y \in NoChange <=> RankOf(y) < 0)
<1>1. \A s \in ALL : Value(s) \in Nat
  BY DEF ALL, Ranked, Value
<1>2. "pass" \in ALL /\ RankOf("pass") = 0
  BY DEF ALL, Ranked, Value, RankOf, NoChange
<1>3. RankOf(x) \in Int /\ RankOf(y) \in Int
  BY RankIsInt
<1>4. Best(<<x, y>>) = IF Less(y, x) THEN y ELSE x
  BY BestOfTwo
<1>5. AtLeast(x, "pass") <=> RankOf(x) >= 0
  BY <1>2, StatusesAreOrdered
<1>6. AtLeast(y, "pass") <=> RankOf(y) >= 0
  BY <1>2, StatusesAreOrdered
<1>7. /\ Less(x, y) <=> RankOf(x) < RankOf(y)
      /\ Less(y, x) <=> RankOf(y) < RankOf(x)
      /\ Greater(x, y) <=> RankOf(x) > RankOf(y)
  BY StatusesAreOrdered
<1>8. /\ WorseIn(x, y) <=> 0 <= RankOf(x) /\ RankOf(x) < RankOf(y)
      /\ BetterIn(x, y) <=> 0 <= RankOf(y) /\ RankOf(y) < RankOf(x)
  BY <1>3, <1>4, <1>5, <1>6, <1>7 DEF WorseIn, BetterIn
<1>9. /\ x = y => ~Differs(x, y)
      /\ RankOf(x) # RankOf(y) => Differs(x, y)
      /\ Differs(x, y) => RankOf(x) # RankOf(y) \/ {x, y} \subseteq NoChange
      /\ x \in NoChange /\ x # y => Differs(x, y)
      /\ y \in NoChange /\ x # y => Differs(x, y)
      /\ (x \in NoChange <=> RankOf(x) < 0) /\ (y \in NoChange <=> RankOf(y) < 0)
  BY <1>1 DEF Differs, Equal, RankOf
<1>. QED  BY <1>8, <1>9

\* Where a name is: x and y are its results, or Missing.
LEMMA PagesOfName ==
    ASSUME NEW p, NEW c, NEW n \in AllNames, NEW x, NEW y, x = GetResult(p, n), y = GetResult(c, n),
           NEW both \in BOOLEAN, both <=> HasTest(p, n) /\ HasTest(c, n)
    PROVE      /\ n \in Regressions(p, c) <=> both /\ WorseIn(x, y)
               /\ n \in Fixes(p, c) <=> both /\ BetterIn(x, y)
               /\ n \in Enabled(p, c) <=> \/ both /\ x = "notrun" /\ y # "notrun"
                                          \/ ~both /\ HasTest(c, n) /\ ~HasTest(p, n)
               /\ n \in Disabled(p, c) <=> \/ both /\ x # "notrun" /\ y = "notrun"
                                           \/ ~both /\ HasTest(p, n) /\ ~HasTest(c, n)
               /\ n \in Changes(p, c) <=> (both /\ Differs(x, y)) \/ (~both /\ ChangesHandler(n, p, c))
<1>1. n \in Comparable(p, c) <=> HasTest(p, n) /\ HasTest(c, n)
  BY DEF Comparable
<1>2. n \in Regressions(p, c) <=> n \in Comparable(p, c) /\ WorseIn(GetResult(p, n), GetResult(c, n))
  BY DEF Regressions, FindDiff, NoHandler, Comparable
<1>3. n \in Fixes(p, c) <=> n \in Comparable(p, c) /\ BetterIn(GetResult(p, n), GetResult(c, n))
  BY DEF Fixes, FindDiff, NoHandler, Comparable
<1>4. n \in Enabled(p, c) <=> \/ n \in Comparable(p, c) /\ GetResult(p, n) = "notrun" /\ GetResult(c, n) # "notrun"
                              \/ n \notin Comparable(p, c) /\ HasTest(c, n) /\ ~HasTest(p, n)
  BY DEF Enabled, FindDiff, Comparable
<1>5. n \in Disabled(p, c) <=> \/ n \in Comparable(p, c) /\ GetResult(p, n) # "notrun" /\ GetResult(c, n) = "notrun"
                               \/ n \notin Comparable(p, c) /\ HasTest(p, n) /\ ~HasTest(c, n)
  BY DEF Disabled, FindDiff, Comparable
<1>6. n \in Changes(p, c) <=> \/ n \in Comparable(p, c) /\ Differs(GetResult(p, n), GetResult(c, n))
                              \/ n \notin Comparable(p, c) /\ ChangesHandler(n, p, c)
  BY DEF Changes, FindDiff, Comparable
<1>. QED  BY <1>1, <1>2, <1>3, <1>4, <1>5, <1>6

LEMMA PagesMirror ==
    ASSUME NEW p, ResultsFile(p), NEW c, ResultsFile(c)
    PROVE  Regressions(p, c) = Fixes(c, p) /\ Enabled(p, c) = Disabled(c, p)
<1>1. /\ Regressions(p, c) \subseteq AllNames /\ Fixes(c, p) \subseteq AllNames
      /\ Enabled(p, c) \subseteq AllNames /\ Disabled(c, p) \subseteq AllNames
  BY DEF Regressions, Fixes, Enabled, Disabled, FindDiff, Comparable
<1>2. ASSUME NEW n \in AllNames
      PROVE  (n \in Regressions(p, c) <=> n \in Fixes(c, p)) /\ (n \in Enabled(p, c) <=> n \in Disabled(c, p))
  <2>. DEFINE x == GetResult(p, n)  y == GetResult(c, n)  both == HasTest(p, n) /\ HasTest(c, n)
  <2>1. both \in BOOLEAN
    OBVIOUS
  <2>2. both => x \in ALL /\ y \in ALL
    BY GetIsStatus
  <2>3. /\ n \in Regressions(p, c) <=> both /\ WorseIn(x, y)
        /\ n \in Enabled(p, c) <=> \/ both /\ x = "notrun" /\ y # "notrun"
                                   \/ ~both /\ HasTest(c, n) /\ ~HasTest(p, n)
    BY <2>1, PagesOfName
  <2>4. /\ n \in Fixes(c, p) <=> both /\ BetterIn(y, x)
        /\ n \in Disabled(c, p) <=> \/ both /\ y # "notrun" /\ x = "notrun"
                                    \/ ~both /\ HasTest(c, n) /\ ~HasTest(p, n)
    BY <2>1, PagesOfName
  <2>5. x \in ALL /\ y \in ALL => (WorseIn(x, y) <=> BetterIn(y, x))
    BY PagesOfTwo
  <2>. HIDE DEF x, y, both
  <2>. QED  BY <2>2, <2>3, <2>4, <2>5
<1>. QED  BY <1>1, <1>2

LEMMA OneStory ==
    ASSUME NEW p, ResultsFile(p), NEW c, ResultsFile(c), NEW n \in AllNames,
           NEW pages, pages = {k \in {1, 2, 3, 4} :
               n \in <<Regressions(p, c), Fixes(p, c), Enabled(p, c), Disabled(p, c)>>[k]}
    PROVE  /\ Cardinality(pages) <= 1
           /\ pages # {} => n \in Changes(p, c) \/ {Shown(p, n), Shown(c, n)} \subseteq {"skip", "notrun"}
           /\ n \in Changes(p, c) => pages # {} \/ {Shown(p, n), Shown(c, n)} \cap NoChange # {}
<1>. DEFINE x == GetResult(p, n)  y == GetResult(c, n)  both == HasTest(p, n) /\ HasTest(c, n)
<1>1. both \in BOOLEAN
  OBVIOUS
<1>2. /\ HasTest(p, n) => x \in ALL
      /\ HasTest(c, n) => y \in ALL
  BY GetIsStatus
<1>3. /\ n \in Regressions(p, c) <=> both /\ WorseIn(x, y)
      /\ n \in Fixes(p, c) <=> both /\ BetterIn(x, y)
      /\ n \in Enabled(p, c) <=> \/ both /\ x = "notrun" /\ y # "notrun"
                                 \/ ~both /\ HasTest(c, n) /\ ~HasTest(p, n)
      /\ n \in Disabled(p, c) <=> \/ both /\ x # "notrun" /\ y = "notrun"
                                  \/ ~both /\ HasTest(p, n) /\ ~HasTest(c, n)
      /\ n \in Changes(p, c) <=> (both /\ Differs(x, y)) \/ (~both /\ ChangesHandler(n, p, c))
  BY <1>1, PagesOfName
<1>4. both => /\ WorseIn(x, y) <=> 0 <= RankOf(x) /\ RankOf(x) < RankOf(y)
              /\ BetterIn(x, y) <=> 0 <= RankOf(y) /\ RankOf(y) < RankOf(x)
              /\ RankOf(x) # RankOf(y) => Differs(x, y)
              /\ Differs(x, y) => RankOf(x) # RankOf(y) \/ {x, y} \subseteq NoChange
              /\ x \in NoChange /\ x # y => Differs(x, y)
              /\ y \in NoChange /\ x # y => Differs(x, y)
              /\ (x \in NoChange <=> RankOf(x) < 0) /\ (y \in NoChange <=> RankOf(y) < 0)
              /\ RankOf(x) \in Int /\ RankOf(y) \in Int
  BY <1>2, PagesOfTwo, RankIsInt
<1>5. /\ Shown(p, n) = IF HasTest(p, n) THEN x ELSE "notrun"
      /\ Shown(c, n) = IF HasTest(c, n) THEN y ELSE "notrun"
  BY DEF Shown, HasTest
<1>6. ChangesHandler(n, p, c) <=> ~Equal(Shown(c, n), Shown(p, n)) /\ {Shown(c, n), Shown(p, n)} # {"skip", "notrun"}
  BY DEF ChangesHandler
<1>7. "notrun" \in NoChange /\ \A s : Equal(s, "notrun") <=> s = "notrun"
  BY DEF NoChange, Equal
<1>8. \A s : Equal("notrun", s) <=> s = "notrun"
  BY DEF NoChange, Equal
<1>9. /\ 1 \in pages <=> n \in Regressions(p, c)
      /\ 2 \in pages <=> n \in Fixes(p, c)
      /\ 3 \in pages <=> n \in Enabled(p, c)
      /\ 4 \in pages <=> n \in Disabled(p, c)
      /\ pages \subseteq {1, 2, 3, 4}
  OBVIOUS
<1>. HIDE DEF x, y, both
<1>10. \A k, l \in pages : k = l
  BY <1>3, <1>4, <1>7, <1>9
<1>11. Cardinality(pages) <= 1
  <2>1. CASE pages = {}
    BY <2>1, FS_EmptySet
  <2>2. CASE pages # {}
    <3>1. PICK k \in pages : TRUE
      BY <2>2
    <3>2. pages = {k}
      BY <1>10, <3>1
    <3>3. Cardinality({k}) = 1
      BY FS_Singleton
    <3>. QED  BY <3>2, <3>3
  <2>. QED  BY <2>1, <2>2
<1>. DEFINE quiet == {Shown(p, n), Shown(c, n)} \subseteq {"skip", "notrun"}
<1>12. both => Shown(p, n) = x /\ Shown(c, n) = y
  BY <1>5 DEF both
<1>13. CASE both
  <2>1. pages # {} => n \in Changes(p, c)
    BY <1>3, <1>4, <1>7, <1>9, <1>13
  <2>2. n \in Changes(p, c) => pages # {} \/ {x, y} \cap NoChange # {}
    BY <1>3, <1>4, <1>9, <1>13
  <2>. QED  BY <1>11, <1>12, <1>13, <2>1, <2>2
<1>14. CASE ~both
  <2>1. Shown(p, n) = "notrun" \/ Shown(c, n) = "notrun"
    BY <1>5, <1>14 DEF both
  <2>2. n \in Changes(p, c) => {Shown(p, n), Shown(c, n)} \cap NoChange # {}
    BY <1>7, <2>1
  <2>3. pages # {} => n \in Changes(p, c) \/ quiet
    <3>1. ASSUME ~quiet PROVE n \in Changes(p, c)
      <4>1. ~Equal(Shown(c, n), Shown(p, n))
        BY <1>7, <1>8, <2>1, <3>1
      <4>2. {Shown(c, n), Shown(p, n)} # {"skip", "notrun"}
        BY <3>1
      <4>. QED  BY <1>3, <1>6, <1>14, <4>1, <4>2
    <3>. QED  BY <3>1
  <2>. QED  BY <1>11, <2>2, <2>3
<1>. QED  BY <1>13, <1>14

\* At the rate of 100 %, all tests of a feature have passed.
LEMMA RateOfAll ==
    ASSUME NEW m \in Nat, NEW n \in Nat, m < n
    PROVE  ~((100 * m) \div n >= 100)
<1>. DEFINE q == (100 * m) \div n
<1>1. q \in Int /\ n * q <= 100 * m
  OBVIOUS
<1>2. q >= 100 => n * q >= n * 100
  BY <1>1
<1>. QED  BY <1>1, <1>2

LEMMA FeatureWithoutProblems ==
    ASSUME NEW p, ResultsFile(p), FeatStatus(FeatFraction(p, DOMAIN p), 100) = "pass"
    PROVE  Problems(p) = {}
<1>. DEFINE passed == {n \in DOMAIN p : Equal(ResultOf(p[n]), "pass")}
<1>1. IsFiniteSet(DOMAIN p) /\ passed \in SUBSET DOMAIN p
  BY DEF ResultsFile
<1>2. Cardinality(DOMAIN p) \in Nat /\ Cardinality(passed) \in Nat /\ Cardinality(passed) <= Cardinality(DOMAIN p)
  BY <1>1, FS_Subset, FS_CardinalityType
<1>3. FeatFraction(p, DOMAIN p) = [passed |-> Cardinality(passed), total |-> Cardinality(DOMAIN p)]
  BY DEF FeatFraction
<1>4. (100 * Cardinality(passed)) \div Cardinality(DOMAIN p) >= 100
  BY <1>3 DEF FeatStatus
<1>5. Cardinality(passed) = Cardinality(DOMAIN p)
  BY <1>2, <1>4, RateOfAll
<1>6. passed = DOMAIN p
  BY <1>1, <1>5, FS_Subset
<1>7. "pass" \in ALL /\ RankOf("pass") = 0
  BY DEF ALL, Ranked, Value, RankOf, NoChange
<1>8. ASSUME NEW n \in DOMAIN p
      PROVE  RankOf(ResultOf(p[n])) = 0 /\ p[n] \in Outcomes /\ ResultOf(p[n]) # "crash"
  <2>1. p[n] \in Outcomes /\ Equal(ResultOf(p[n]), "pass")
    BY <1>6 DEF ResultsFile
  <2>2. ResultOf(p[n]) \in ALL
    BY <2>1, OutcomeIsStatus
  <2>3. RankOf(ResultOf(p[n])) = 0
    BY <1>7, <2>1, <2>2, StatusesAreOrdered
  <2>4. RankOf("crash") # 0
    BY DEF Ranked, Value, RankOf, NoChange
  <2>. QED  BY <2>1, <2>3, <2>4
<1>9. SUFFICES ASSUME NEW n, HasTest(p, n), Greater(GetResult(p, n), "pass") PROVE FALSE
  BY DEF Problems, FindSingle, Present
<1>10. RankOf(GetResult(p, n)) > 0
  BY <1>7, <1>9, GetIsStatus, StatusesAreOrdered
<1>11. CASE n \in DOMAIN p
  BY <1>8, <1>10, <1>11, GetOfTest
<1>12. CASE n \notin DOMAIN p
  <2>. DEFINE m == GroupName(n)
              hits == IF n # <<>> /\ m \in DOMAIN p THEN {i \in DOMAIN p[m].subtests : p[m].subtests[i].name = Last(n)} ELSE {}
  <2>1. GetResult(p, n) = IF hits = {} THEN Missing ELSE p[m].subtests[CHOOSE i \in hits : TRUE].status
    BY <1>12 DEF GetResult
  <2>2. PICK i \in hits : i = CHOOSE k \in hits : TRUE
    BY <1>9, <2>1 DEF HasTest
  <2>3. m \in DOMAIN p /\ i \in DOMAIN p[m].subtests /\ GetResult(p, n) = p[m].subtests[i].status
    BY <2>1, <2>2
  <2>. HIDE DEF m, hits
  <2>4. p[m] \in Outcomes /\ p[m].subtests \in Seq(Subtests)
    BY <2>3, SummaryAssumption DEF ResultsFile, Subtests
  <2>5. p[m].subtests # <<>>
    BY <2>3, <2>4
  <2>6. ResultOf(p[m]) = Worst(StatusesOf(p[m].subtests))
    BY <1>8, <2>3, <2>5 DEF ResultOf
  <2>7. StatusesOf(p[m].subtests) \in Seq(ALL) /\ i \in DOMAIN StatusesOf(p[m].subtests)
    BY <2>3, <2>4, SubtestStatuses
  <2>8. RankOf(StatusesOf(p[m].subtests)[i]) <= RankOf(Worst(StatusesOf(p[m].subtests)))
    BY <2>7, WorstIsGreatest
  <2>9. StatusesOf(p[m].subtests)[i] = GetResult(p, n)
    BY <2>3 DEF StatusesOf
  <2>10. RankOf(GetResult(p, n)) \in Int
    BY <1>9, GetIsStatus, RankIsInt
  <2>. QED  BY <1>8, <1>10, <2>3, <2>6, <2>8, <2>9, <2>10
<1>. QED  BY <1>11, <1>12

LEMMA ListsOfOneFile ==
    ASSUME NEW p, ResultsFile(p)
    PROVE  Incomplete(p) \subseteq Problems(p) /\ Skips(p) \cap Problems(p) = {}
<1>1. "pass" \in ALL /\ RankOf("pass") = 0 /\ RankOf("incomplete") > 0 /\ RankOf("skip") < 0 /\ "incomplete" \in ALL /\ "skip" \in ALL
  BY DEF ALL, Ranked, Value, RankOf, NoChange
<1>2. Greater("incomplete", "pass") /\ ~Greater("skip", "pass")
  BY <1>1, StatusesAreOrdered, RankIsInt
<1>. QED  BY <1>2 DEF Incomplete, Problems, Skips, FindSingle

LEMMA UnionOfSeq ==
    ASSUME NEW n \in Nat, NEW D, D = 1..n, NEW f, f = [i \in D |-> f[i]]
    PROVE  UNION ToSet(<<{}>> \o f) = UNION {f[i] : i \in D}
<1>. DEFINE g == <<{}>> \o f
<1>1. f \in Seq({f[i] : i \in D}) /\ Len(f) = n
  OBVIOUS
<1>2. DOMAIN g = 1..(n + 1) /\ \A i \in 1..(n + 1) : g[i] = IF i = 1 THEN {} ELSE f[i - 1]
  <2>. DEFINE S == {{}} \cup {f[i] : i \in D}
  <2>1. f \in Seq(S) /\ <<{}>> \in Seq(S) /\ Len(<<{}>>) = 1 /\ <<{}>>[1] = {}
    BY <1>1
  <2>. HIDE DEF S
  <2>2. Len(g) = n + 1 /\ g \in Seq(S)
    BY <1>1, <2>1
  <2>3. DOMAIN g = 1..(n + 1)
    BY <2>2
  <2>4. ASSUME NEW i \in 1..(n + 1) PROVE g[i] = IF i = 1 THEN {} ELSE f[i - 1]
    <3>1. CASE i = 1
      BY <1>1, <2>1, <3>1
    <3>2. CASE i # 1
      BY <1>1, <2>1, <3>2
    <3>. QED  BY <3>1, <3>2
  <2>. QED  BY <2>3, <2>4
<1>. HIDE DEF g
<1>3. UNION {g[i] : i \in 1..(n + 1)} = UNION {f[i] : i \in 1..n}
  <2>1. ASSUME NEW i \in 1..n PROVE i + 1 \in 1..(n + 1) /\ g[i + 1] = f[i]
    <3>1. i + 1 \in 1..(n + 1) /\ i + 1 # 1 /\ (i + 1) - 1 = i
      OBVIOUS
    <3>. QED  BY <1>2, <3>1
  <2>2. ASSUME NEW i \in 1..(n + 1) PROVE g[i] = {} \/ \E j \in 1..n : g[i] = f[j]
    <3>1. i = 1 \/ i - 1 \in 1..n
      OBVIOUS
    <3>. QED  BY <1>2, <3>1
  <2>3. \A i \in 1..n : \E j \in 1..(n + 1) : g[j] = f[i]
    BY <2>1
  <2>. QED  BY <2>2, <2>3
<1>. QED  BY <1>2, <1>3 DEF ToSet, g

\* What got better or worse has changed, in every pair of files that is compared.
LEMMA ChangesOfAll ==
    ASSUME FilesInv
    PROVE  AllOf(Diffs(Regressions)) \cup AllOf(Diffs(Fixes)) \subseteq AllOf(Diffs(Changes))
<1>1. ASSUME NEW p, ResultsFile(p), NEW c, ResultsFile(c)
      PROVE  Regressions(p, c) \subseteq Changes(p, c) /\ Fixes(p, c) \subseteq Changes(p, c)
  <2>1. Regressions(p, c) \subseteq AllNames /\ Fixes(p, c) \subseteq AllNames
    BY DEF Regressions, Fixes, FindDiff, Comparable
  <2>2. ASSUME NEW n \in AllNames, n \in Regressions(p, c) \/ n \in Fixes(p, c) PROVE n \in Changes(p, c)
    <3>. DEFINE x == GetResult(p, n)  y == GetResult(c, n)  both == HasTest(p, n) /\ HasTest(c, n)
    <3>1. both \in BOOLEAN
      OBVIOUS
    <3>2. both /\ (WorseIn(x, y) \/ BetterIn(x, y))
      BY <2>2, <3>1, PagesOfName
    <3>3. x \in ALL /\ y \in ALL
      <4>1. HasTest(p, n) /\ HasTest(c, n)
        BY <3>2
      <4>. QED  BY <1>1, <4>1, GetIsStatus
    <3>4. Differs(x, y)
      <4>1. RankOf(x) \in Int /\ RankOf(y) \in Int
        BY <3>3, RankIsInt
      <4>2. RankOf(x) # RankOf(y)
        BY <3>2, <3>3, <4>1, PagesOfTwo
      <4>. QED  BY <3>3, <4>2, PagesOfTwo
    <3>. QED  BY <3>1, <3>2, <3>4, PagesOfName
  <2>. QED  BY <2>1, <2>2
<1>. DEFINE n == Files - 1
            P(i) == <<compared[i], compared[i + 1]>>
            U(f) == UNION {f[i] : i \in DOMAIN Pairs}
            R == [i \in DOMAIN Pairs |-> Regressions(Pairs[i][1], Pairs[i][2])]
            F == [i \in DOMAIN Pairs |-> Fixes(Pairs[i][1], Pairs[i][2])]
            C == [i \in DOMAIN Pairs |-> Changes(Pairs[i][1], Pairs[i][2])]
<1>2. Len(compared) = Files
  <2>1. Files \in Nat /\ compared = [i \in 1..Files |-> compared[i]]
    BY SummaryAssumption DEF FilesInv
  <2>. QED  BY <2>1
<1>3. DOMAIN Pairs = 1..(Files - 1) /\ \A i \in DOMAIN Pairs : Pairs[i][1] = compared[i] /\ Pairs[i][2] = compared[i + 1]
  BY <1>2 DEF Pairs
<1>4. ASSUME NEW i \in DOMAIN Pairs PROVE R[i] \cup F[i] \subseteq C[i]
  <2>1. i \in 1..Files /\ i + 1 \in 1..Files
    BY <1>3, SummaryAssumption
  <2>2. ResultsFile(Pairs[i][1]) /\ ResultsFile(Pairs[i][2])
    BY <1>3, <2>1 DEF FilesInv, ResultsFile
  <2>. QED  BY <1>1, <2>2
<1>5. /\ AllOf(Diffs(Regressions)) = UNION ToSet(<<{}>> \o R)
      /\ AllOf(Diffs(Fixes)) = UNION ToSet(<<{}>> \o F)
      /\ AllOf(Diffs(Changes)) = UNION ToSet(<<{}>> \o C)
  BY DEF AllOf, Diffs
<1>6. \E m \in Nat : DOMAIN Pairs = 1..m
  <2>1. Files = 0 => 1..(Files - 1) = 1..0
    OBVIOUS
  <2>2. Files # 0 => Files - 1 \in Nat
    BY SummaryAssumption
  <2>. QED  BY <1>3, <2>1, <2>2
<1>. HIDE DEF R, F, C
<1>7. /\ UNION ToSet(<<{}>> \o R) = UNION {R[i] : i \in DOMAIN Pairs}
      /\ UNION ToSet(<<{}>> \o F) = UNION {F[i] : i \in DOMAIN Pairs}
      /\ UNION ToSet(<<{}>> \o C) = UNION {C[i] : i \in DOMAIN Pairs}
  <2>1. R = [i \in DOMAIN Pairs |-> R[i]] /\ F = [i \in DOMAIN Pairs |-> F[i]] /\ C = [i \in DOMAIN Pairs |-> C[i]]
    BY DEF R, F, C
  <2>. QED  BY <1>6, <2>1, UnionOfSeq
<1>. QED  BY <1>4, <1>5, <1>7

\* The names one test brings to the pages.
NamesOfTest(p, n) == IF p[n].subtests = <<>> THEN {n} ELSE {n \o <<x.name>> : x \in ToSet(p[n].subtests)}

LEMMA OccurrencesAreNames ==
    ASSUME NEW p, ResultsFile(p), NEW n \in DOMAIN p, NEW s
    PROVE  /\ IsFiniteSet({k \in NamesOfTest(p, n) : GetResult(p, k) = s})
           /\ Occurrences(Contributions(p[n]), s) = Cardinality({k \in NamesOfTest(p, n) : GetResult(p, k) = s})
<1>. DEFINE X == {k \in NamesOfTest(p, n) : GetResult(p, k) = s}
<1>0. p[n] \in Outcomes /\ n \in TestNames
  BY DEF ResultsFile
<1>1. CASE p[n].subtests = <<>>
  <2>1. NamesOfTest(p, n) = {n} /\ GetResult(p, n) = ResultOf(p[n]) /\ Contributions(p[n]) = <<ResultOf(p[n])>>
    BY <1>1, GetOfTest DEF NamesOfTest, Contributions
  <2>2. X = IF ResultOf(p[n]) = s THEN {n} ELSE {}
    BY <2>1
  <2>3. {i \in DOMAIN <<ResultOf(p[n])>> : <<ResultOf(p[n])>>[i] = s} = IF ResultOf(p[n]) = s THEN {1} ELSE {}
    OBVIOUS
  <2>. HIDE DEF X
  <2>4. Occurrences(Contributions(p[n]), s) = Cardinality(IF ResultOf(p[n]) = s THEN {1} ELSE {})
    BY <2>1, <2>3 DEF Occurrences
  <2>5. /\ IsFiniteSet({n}) /\ Cardinality({n}) = 1 /\ Cardinality({1}) = 1
        /\ IsFiniteSet({}) /\ Cardinality({}) = 0
    BY FS_Singleton, FS_EmptySet
  <2>6. CASE ResultOf(p[n]) = s
    BY <2>2, <2>4, <2>5, <2>6 DEF X
  <2>7. CASE ResultOf(p[n]) # s
    BY <2>2, <2>4, <2>5, <2>7 DEF X
  <2>. QED  BY <2>6, <2>7
<1>2. CASE p[n].subtests # <<>>
  <2>. DEFINE subs == p[n].subtests
              I == {i \in DOMAIN subs : subs[i].status = s}
              f == [i \in I |-> n \o <<subs[i].name>>]
  <2>1. subs \in Seq(Subtests) /\ n \in Seq(STRING)
    BY <1>0, SummaryAssumption DEF Subtests
  <2>2. Occurrences(Contributions(p[n]), s) = Cardinality(I)
    <3>1. DOMAIN StatusesOf(subs) = DOMAIN subs /\ \A i \in DOMAIN subs : StatusesOf(subs)[i] = subs[i].status
      BY DEF StatusesOf
    <3>2. {i \in DOMAIN StatusesOf(subs) : StatusesOf(subs)[i] = s} = I
      BY <3>1
    <3>3. Contributions(p[n]) = StatusesOf(subs)
      BY <1>2 DEF Contributions
    <3>. HIDE DEF subs, I
    <3>. QED  BY <3>2, <3>3 DEF Occurrences
  <2>3. IsFiniteSet(I)
    <3>1. DOMAIN subs = 1..Len(subs) /\ Len(subs) \in Nat
      BY <2>1
    <3>2. IsFiniteSet(1..Len(subs))
      <4>1. 1 \in Int /\ Len(subs) \in Int
        BY <3>1
      <4>. QED  BY <4>1, FS_Interval
    <3>. QED  BY <3>1, <3>2, FS_Subset
  <2>4. ToSet(subs) = {subs[i] : i \in DOMAIN subs}
    BY DEF ToSet
  <2>5. NamesOfTest(p, n) = {n \o <<subs[i].name>> : i \in DOMAIN subs}
    BY <1>2, <2>4 DEF NamesOfTest
  <2>6. \A i \in DOMAIN subs : GetResult(p, n \o <<subs[i].name>>) = subs[i].status
    BY GetOfSubtest
  <2>7. \A i, j \in DOMAIN subs : n \o <<subs[i].name>> = n \o <<subs[j].name>> => i = j
    <3>. SUFFICES ASSUME NEW i \in DOMAIN subs, NEW j \in DOMAIN subs, n \o <<subs[i].name>> = n \o <<subs[j].name>> PROVE i = j
      OBVIOUS
    <3>1. subs[i].name \in STRING /\ subs[j].name \in STRING
      BY <1>0, SubtestIn
    <3>2. subs[i].name = subs[j].name
      BY <2>1, <3>1
    <3>. QED  BY <1>0, <3>2, SummaryAssumption
  <2>. HIDE DEF subs
  <2>8. f \in Bijection(I, X)
    BY <2>5, <2>6, <2>7 DEF Bijection, Injection, Surjection, IsInjective
  <2>. HIDE DEF f, I, X
  <2>. QED  BY <2>2, <2>3, <2>8, FS_Bijection DEF ExistsBijection, X
<1>. QED  BY <1>1, <1>2

LEMMA ColumnsCount ==
    ASSUME NEW p, ResultsFile(p), NEW s
    PROVE  RootTotal(p, s) = Cardinality({k \in NamesOfRun(p) : GetResult(p, k) = s})
<1>. DEFINE f == [n \in DOMAIN p |-> Occurrences(Contributions(p[n]), s)]
            X == [n \in DOMAIN p |-> {k \in NamesOfTest(p, n) : GetResult(p, k) = s}]
<1>1. IsFiniteSet(DOMAIN p)
  BY DEF ResultsFile
<1>2. \A n \in DOMAIN p : IsFiniteSet(X[n]) /\ f[n] = Cardinality(X[n])
  BY OccurrencesAreNames
<1>3. ASSUME NEW m \in DOMAIN p, NEW n \in DOMAIN p, m # n PROVE NamesOfTest(p, m) \cap NamesOfTest(p, n) = {}
  <2>1. /\ m \in TestNames /\ n \in TestNames /\ m \in Seq(STRING) /\ n \in Seq(STRING)
        /\ p[m] \in Outcomes /\ p[n] \in Outcomes
    BY SummaryAssumption DEF ResultsFile
  <2>2. ASSUME NEW r \in Outcomes, NEW x \in ToSet(r.subtests)
        PROVE  x.name \in STRING /\ \A k, l \in TestNames : k # l \o <<x.name>>
    <3>1. PICK i \in DOMAIN r.subtests : x = r.subtests[i]
      BY DEF ToSet
    <3>2. x.name \in STRING
      BY <3>1, SubtestIn
    <3>3. \A k, l \in TestNames : k # l \o <<r.subtests[i].name>>
      BY SummaryAssumption, Zenon
    <3>. QED  BY <3>1, <3>2, <3>3
  <2>3. ASSUME NEW x \in STRING, NEW y \in STRING PROVE m \o <<x>> # n \o <<y>>
    <3>1. Front(m \o <<x>>) = m /\ Front(n \o <<y>>) = n
      BY <2>1 DEF Front
    <3>. QED  BY <1>3, <3>1
  <2>4. ASSUME NEW k \in NamesOfTest(p, m), NEW l \in NamesOfTest(p, n) PROVE k # l
    <3>1. k = m \/ \E x \in ToSet(p[m].subtests) : k = m \o <<x.name>>
      BY DEF NamesOfTest
    <3>2. l = n \/ \E x \in ToSet(p[n].subtests) : l = n \o <<x.name>>
      BY DEF NamesOfTest
    <3>. QED  BY <1>3, <2>1, <2>2, <2>3, <3>1, <3>2
  <2>. QED  BY <2>4
<1>4. \A m, n \in DOMAIN p : m # n => X[m] \cap X[n] = {}
  BY <1>3
<1>5. RootTotal(p, s) = SumOver(f, DOMAIN p)
  BY DEF RootTotal
<1>6. SumOver(f, DOMAIN p) = Cardinality(UNION {X[n] : n \in DOMAIN p})
  <2>. HIDE DEF f, X
  <2>. QED  BY <1>1, <1>2, <1>4, SumIsCardinality
<1>7. NamesOfRun(p) = UNION {NamesOfTest(p, n) : n \in DOMAIN p}
  BY DEF NamesOfRun, NamesOfTest
<1>8. UNION {X[n] : n \in DOMAIN p} = {k \in NamesOfRun(p) : GetResult(p, k) = s}
  BY <1>7
<1>. QED  BY <1>5, <1>6, <1>8

\* The pages of any comparison tell one story (common.py, Names and find_diffs;
\* console_.py, the columns): Summary.PagesAgree.
THEOREM PagesTellOneStory == SummarySpec => []PagesAgree
<1>1. FilesInv => PagesAgree
  <2>. SUFFICES ASSUME FilesInv, NEW i \in DOMAIN compared, NEW j \in DOMAIN compared
       PROVE  LET p == compared[i]  c == compared[j] IN
        /\ Regressions(p, c) = Fixes(c, p)
        /\ Enabled(p, c) = Disabled(c, p)
        /\ \A n \in AllNames :
              LET pages == {k \in {1, 2, 3, 4} :
                     n \in <<Regressions(p, c), Fixes(p, c), Enabled(p, c), Disabled(p, c)>>[k]}
                  quiet == {Shown(p, n), Shown(c, n)} \subseteq {"skip", "notrun"}
              IN  /\ Cardinality(pages) <= 1
                  /\ pages # {} => n \in Changes(p, c) \/ quiet
                  /\ n \in Changes(p, c) => pages # {} \/ {Shown(p, n), Shown(c, n)} \cap NoChange # {}
        /\ FeatStatus(FeatFraction(p, DOMAIN p), 100) = "pass" => Problems(p) = {}
        /\ Incomplete(p) \subseteq Problems(p) /\ Skips(p) \cap Problems(p) = {}
        /\ AllOf(Diffs(Regressions)) \cup AllOf(Diffs(Fixes)) \subseteq AllOf(Diffs(Changes))
        /\ \A s \in ALL : PrintSummary[i].statuses[s] = Cardinality({n \in NamesOfRun(p) : GetResult(p, n) = s})
    BY DEF PagesAgree
  <2>. DEFINE p == compared[i]  c == compared[j]
  <2>1. ResultsFile(p) /\ ResultsFile(c)
    BY DEF FilesInv, ResultsFile
  <2>2. \A s \in ALL : PrintSummary[i].statuses[s] = RootTotal(p, s)
    BY DEF PrintSummary
  <2>. HIDE DEF p, c
  <2>3. Regressions(p, c) = Fixes(c, p) /\ Enabled(p, c) = Disabled(c, p)
    BY <2>1, PagesMirror
  <2>4. ASSUME NEW n \in AllNames
        PROVE  LET pages == {k \in {1, 2, 3, 4} :
                      n \in <<Regressions(p, c), Fixes(p, c), Enabled(p, c), Disabled(p, c)>>[k]}
                   quiet == {Shown(p, n), Shown(c, n)} \subseteq {"skip", "notrun"}
               IN  /\ Cardinality(pages) <= 1
                   /\ pages # {} => n \in Changes(p, c) \/ quiet
                   /\ n \in Changes(p, c) => pages # {} \/ {Shown(p, n), Shown(c, n)} \cap NoChange # {}
    BY <2>1, OneStory
  <2>5. FeatStatus(FeatFraction(p, DOMAIN p), 100) = "pass" => Problems(p) = {}
    BY <2>1, FeatureWithoutProblems
  <2>6. Incomplete(p) \subseteq Problems(p) /\ Skips(p) \cap Problems(p) = {}
    BY <2>1, ListsOfOneFile
  <2>7. AllOf(Diffs(Regressions)) \cup AllOf(Diffs(Fixes)) \subseteq AllOf(Diffs(Changes))
    BY ChangesOfAll
  <2>8. \A s \in ALL : PrintSummary[i].statuses[s] = Cardinality({n \in NamesOfRun(p) : GetResult(p, n) = s})
    BY <2>1, <2>2, ColumnsCount
  <2>. QED  BY <2>3, <2>4, <2>5, <2>6, <2>7, <2>8 DEF p, c
<1>. QED  BY <1>1, FilesInductive, PTL


(***************************************************************************)
(* Profiles.  Yielding is a function of the command and of the names that  *)
(* resume excludes; as long as no test list is looked up in what the       *)
(* filters have left, excluding names takes away their tests and nothing   *)
(* else.  That is all the invariant has to carry from one session to the   *)
(* next.                                                                   *)
(***************************************************************************)
\* The filters of the first session with those resume adds.
Excluding(F, X) == F \cup (IF X = {} THEN {} ELSE {RegexFilter(TRUE, X, TRUE)})

\* A filter that excludes names takes their tests away, and nothing else.
LEMMA FilterExcludes ==
    ASSUME NEW F, NEW G, NEW X, NEW items,
           G = Excluding(F, X)
    PROVE  NamesIn(Filter(G, items)) = NamesIn(Filter(F, items)) \ X
<1>. DEFINE Kept(H) == {i \in DOMAIN items : \A f \in H : Lets(f, items[i].name)}
<1>1. ASSUME NEW n  PROVE Lets(RegexFilter(TRUE, X, TRUE), n) <=> n \notin X
  BY DEF Lets, RegexFilter
<1>2. Kept(G) = {i \in Kept(F) : items[i].name \notin X}
  BY <1>1 DEF Excluding
<1>3. ASSUME NEW H  PROVE NamesIn(Filter(H, items)) = {items[i].name : i \in Kept(H)}
  BY DEF NamesIn, Filter, Restrict
<1>4. {items[i].name : i \in Kept(G)} = {items[i].name : i \in Kept(F)} \ X
  BY <1>2
<1>. HIDE DEF Kept
<1>5. NamesIn(Filter(G, items)) = {items[i].name : i \in Kept(G)}
  BY <1>3
<1>6. NamesIn(Filter(F, items)) = {items[i].name : i \in Kept(F)}
  BY <1>3
<1>. QED  BY <1>4, <1>5, <1>6

\* What the profile of resume yields, if no list is looked up behind the filters.
LEMMA FewerYielded ==
    ASSUME NEW p, NEW q, NEW X,
           q.kind = p.kind, q.parts = p.parts, q.forced = p.forced, q.ignore_missing = p.ignore_missing,
           q.filters = Excluding(p.filters, X),
           p.kind = "python" \/ p.forced = <<>>
    PROVE  /\ Itertests(q).ok = Itertests(p).ok
           /\ NamesIn(Itertests(q).tests) = NamesIn(Itertests(p).tests) \ X
<1>. DEFINE F == p.filters
            G == q.filters
<1>0. ASSUME NEW items  PROVE NamesIn(Filter(G, items)) = NamesIn(Filter(F, items)) \ X
  <2>1. G = Excluding(F, X)
    OBVIOUS
  <2>. HIDE DEF F, G
  <2>. QED  BY <2>1, FilterExcludes
<1>1. CASE p.forced = <<>>
  <2>1. PICK items : /\ Itertests(p) = Yielded(Filter(p.filters, items))
                     /\ Itertests(q) = Yielded(Filter(q.filters, items))
    <3>1. CASE p.kind = "python"
      BY <1>1, <3>1 DEF Itertests, IterPython, TestList
    <3>2. CASE p.kind # "python"
      BY <1>1, <3>2 DEF Itertests, IterXML, InFiles
    <3>. QED  BY <3>1, <3>2
  <2>2. /\ Itertests(p).ok = Itertests(q).ok
        /\ Itertests(p).tests = Filter(F, items)
        /\ Itertests(q).tests = Filter(G, items)
    BY <2>1 DEF Yielded
  <2>. HIDE DEF F, G
  <2>. QED  BY <1>0, <2>2
<1>2. CASE p.forced # <<>>
  <2>. DEFINE known == [n \in ToSet(p.forced) |-> Lower[n] \in TestList(p)]
              y == Forced(p.forced, known, p)
  <2>1. /\ Itertests(p) = [y EXCEPT !.tests = Filter(p.filters, y.tests)]
        /\ Itertests(q) = [y EXCEPT !.tests = Filter(q.filters, y.tests)]
    BY <1>2 DEF Itertests, IterPython, TestList, Forced
  <2>2. PICK b, t : y = [ok |-> b, tests |-> t]
    BY DEF Forced, Yielded, KeyError
  <2>. HIDE DEF y
  <2>3. /\ Itertests(p) = [ok |-> b, tests |-> Filter(p.filters, y.tests)]
        /\ Itertests(q) = [ok |-> b, tests |-> Filter(q.filters, y.tests)]
    BY <2>1, <2>2
  <2>4. /\ Itertests(p).ok = Itertests(q).ok
        /\ Itertests(p).tests = Filter(F, y.tests)
        /\ Itertests(q).tests = Filter(G, y.tests)
    BY <2>3
  <2>. HIDE DEF F, G
  <2>. QED  BY <1>0, <2>4
<1>. QED  BY <1>1, <1>2

\* The names of finitely many tests are no more than the tests.
LEMMA NamesCounted ==
    ASSUME NEW items, IsFiniteSet(DOMAIN items)
    PROVE  /\ IsFiniteSet(NamesIn(items))
           /\ Cardinality(NamesIn(items)) <= Cardinality(DOMAIN items)
<1>. DEFINE f == [i \in DOMAIN items |-> items[i].name]
<1>1. f \in [DOMAIN items -> NamesIn(items)]
  BY DEF NamesIn
<1>2. \A n \in NamesIn(items) : \E i \in DOMAIN items : f[i] = n
  BY DEF NamesIn
<1>. HIDE DEF f
<1>3. f \in Surjection(DOMAIN items, NamesIn(items))
  BY <1>1, <1>2 DEF Surjection
<1>. QED  BY <1>3, FS_Surjection

LEMMA FilesFinite ==
    ASSUME NEW p, NEW n \in Nat, DOMAIN p.parts = 1..n, \A i \in 1..n : IsFiniteSet(p.parts[i])
    PROVE  IsFiniteSet(TestList(p)) /\ IsFiniteSet(InFiles(p))
<1>1. IsFiniteSet(1..n)
  BY FS_Interval
<1>2. IsFiniteSet(ToSet(p.parts))
  <2>. DEFINE f == [i \in 1..n |-> p.parts[i]]
  <2>1. f \in Surjection(1..n, ToSet(p.parts))
    BY DEF Surjection, ToSet
  <2>. QED  BY <1>1, <2>1, FS_Surjection
<1>3. IsFiniteSet(TestList(p))
  BY <1>2, FS_UNION DEF TestList, ToSet
<1>4. InFiles(p) \in SUBSET ((1..n) \X TestList(p))
  BY DEF InFiles, TestList, ToSet
<1>. QED  BY <1>1, <1>3, <1>4, FS_Product, FS_Subset

LEMMA YieldedFinite ==
    ASSUME NEW p, NEW n \in Nat, DOMAIN p.parts = 1..n, \A i \in 1..n : IsFiniteSet(p.parts[i]),
           IsFiniteSet(ToSet(p.forced))
    PROVE  IsFiniteSet(DOMAIN Itertests(p).tests)
<1>1. IsFiniteSet(TestList(p)) /\ IsFiniteSet(InFiles(p)) /\ IsFiniteSet({})
  BY FilesFinite, FS_EmptySet
<1>2. ASSUME NEW items, NEW F, IsFiniteSet(DOMAIN items)
      PROVE  IsFiniteSet(DOMAIN Filter(F, items))
  <2>1. DOMAIN Filter(F, items) \in SUBSET DOMAIN items
    BY DEF Filter, Restrict
  <2>. QED  BY <1>2, <2>1, FS_Subset
<1>3. ASSUME NEW known  PROVE IsFiniteSet(DOMAIN Forced(p.forced, known, p).tests)
  BY <1>1 DEF Forced, Yielded, KeyError
<1>4. CASE p.kind = "python"
  <2>1. CASE p.forced = <<>>
    <3>. DEFINE items == [m \in TestList(p) |-> Test(m)]
    <3>1. Itertests(p).tests = Filter(p.filters, items) /\ DOMAIN items = TestList(p)
      BY <1>4, <2>1 DEF Itertests, IterPython, Yielded
    <3>. QED  BY <1>1, <1>2, <3>1
  <2>2. CASE p.forced # <<>>
    <3>. DEFINE y == Forced(p.forced, [m \in ToSet(p.forced) |-> Lower[m] \in TestList(p)], p)
    <3>1. Itertests(p) = [y EXCEPT !.tests = Filter(p.filters, y.tests)]
      BY <1>4, <2>2 DEF Itertests, IterPython
    <3>2. PICK b, t : y = [ok |-> b, tests |-> t]
      BY DEF Forced, Yielded, KeyError
    <3>3. IsFiniteSet(DOMAIN y.tests)
      BY <1>3
    <3>. HIDE DEF y
    <3>4. Itertests(p).tests = Filter(p.filters, y.tests)
      BY <3>1, <3>2
    <3>. QED  BY <1>2, <3>3, <3>4
  <2>. QED  BY <2>1, <2>2
<1>5. CASE p.kind # "python"
  <2>1. CASE p.forced = <<>>
    <3>. DEFINE items == [place \in InFiles(p) |-> Test(place[2])]
    <3>1. Itertests(p).tests = Filter(p.filters, items) /\ DOMAIN items = InFiles(p)
      BY <1>5, <2>1 DEF Itertests, IterXML, Yielded
    <3>. QED  BY <1>1, <1>2, <3>1
  <2>2. CASE p.forced # <<>>
    BY <1>3, <1>5, <2>2 DEF Itertests, IterXML
  <2>. QED  BY <2>1, <2>2
<1>. QED  BY <1>4, <1>5

\* __len__ counts every test that is yielded, whatever it counts beside.
LEMMA LengthSuffices ==
    ASSUME NEW p, NEW n \in Nat, DOMAIN p.parts = 1..n, \A i \in 1..n : IsFiniteSet(p.parts[i]),
           IsFiniteSet(ToSet(p.forced))
    PROVE  /\ Length(p) \in Nat
           /\ Length(p) >= Cardinality(NamesIn(Itertests(p).tests))
<1>. DEFINE items == Itertests(p).tests
<1>1. /\ Cardinality(NamesIn(items)) \in Nat /\ Cardinality(DOMAIN items) \in Nat
      /\ Cardinality(NamesIn(items)) <= Cardinality(DOMAIN items)
  BY YieldedFinite, NamesCounted, FS_CardinalityType
<1>2. Length(p) = Cardinality(DOMAIN items)
  <2>1. CASE p.kind # "python" /\ p.filters = {} /\ p.forced = <<>>
    <3>1. DOMAIN Itertests(p).tests = InFiles(p)
      BY <2>1 DEF Itertests, IterXML, Yielded, Filter, Restrict
    <3>. QED  BY <2>1, <3>1 DEF Length
  <2>. QED  BY <2>1 DEF Length
<1>. HIDE DEF items
<1>3. Itertests(p).tests = items
  BY DEF items
<1>. QED  BY <1>1, <1>2, <1>3
\* Who cannot find a test of the list yields none.
LEMMA NothingYielded == ASSUME NEW p, ~Itertests(p).ok PROVE NamesIn(Itertests(p).tests) = {}
<1>1. ASSUME NEW list, NEW known, ~Forced(list, known, p).ok
      PROVE  Forced(list, known, p) = KeyError
  BY <1>1 DEF Forced, Yielded
<1>2. DOMAIN <<>> = {}
  OBVIOUS
<1>3. CASE p.kind = "python"
  <2>1. p.forced # <<>>
    BY <1>3 DEF Itertests, IterPython, Yielded
  <2>. DEFINE y == Forced(p.forced, [n \in ToSet(p.forced) |-> Lower[n] \in TestList(p)], p)
  <2>2. Itertests(p) = [y EXCEPT !.tests = Filter(p.filters, y.tests)]
    BY <1>3, <2>1 DEF Itertests, IterPython
  <2>3. PICK b, t : y = [ok |-> b, tests |-> t]
    BY DEF Forced, Yielded, KeyError
  <2>4. ~y.ok => y = KeyError
    BY <1>1
  <2>. HIDE DEF y
  <2>5. Itertests(p).tests = Filter(p.filters, <<>>)
    BY <2>2, <2>3, <2>4 DEF KeyError
  <2>. QED  BY <1>2, <2>5 DEF NamesIn, Filter, Restrict
<1>4. CASE p.kind # "python"
  <2>1. Itertests(p) = KeyError
    BY <1>1, <1>4 DEF Itertests, IterXML, Yielded
  <2>. QED  BY <1>2, <2>1 DEF NamesIn, KeyError
<1>. QED  BY <1>3, <1>4

\* What the profile of a command yields when it is run.
FirstOf(c) == Itertests(ProfileOf(c, {}))

\* Without this the second session can fail or run dummies (run ForcedResume).
NoListOverXML == \A c \in CommandLines : c.forced = <<>> \/ LoadTestProfile(c.files, c.ext, c.isolation) = "python"

LEMMA RestYielded ==
    ASSUME NEW c \in CommandLines, NEW X, NoListOverXML, Loads(c)
    PROVE  LET rest == Itertests(ProfileOf(c, X))
           IN  rest.ok = FirstOf(c).ok /\ NamesIn(rest.tests) = NamesIn(FirstOf(c).tests) \ X
<1>. DEFINE p == ProfileOf(c, {})
            q == ProfileOf(c, X)
<1>1. /\ q.kind = p.kind /\ q.parts = p.parts /\ q.forced = p.forced /\ q.ignore_missing = p.ignore_missing
      /\ p.kind = "python" \/ p.forced = <<>>
      /\ p.filters = Filters(c)
      /\ q.filters = Excluding(Filters(c), X)
  BY DEF ProfileOf, NoListOverXML, Excluding
<1>2. q.filters = Excluding(p.filters, X)
  BY <1>1
<1>. HIDE DEF p, q
<1>3. Itertests(q).ok = Itertests(p).ok /\ NamesIn(Itertests(q).tests) = NamesIn(Itertests(p).tests) \ X
  BY <1>1, <1>2, FewerYielded
<1>. QED  BY <1>3 DEF FirstOf, p, q

LEMMA CountedEnough ==
    ASSUME NEW c \in CommandLines, NEW X
    PROVE  Length(ProfileOf(c, X)) >= Cardinality(NamesIn(Itertests(ProfileOf(c, X)).tests))
<1>. DEFINE p == ProfileOf(c, X)
<1>1. p.forced = c.forced
  BY DEF ProfileOf
<1>2. IsFiniteSet(ToSet(p.forced))
  BY <1>1, ListsAssumption
<1>3. p.parts = Parts \/ p.parts = <<Parts[1]>>
  BY DEF ProfileOf
<1>4. \E n \in Nat : DOMAIN p.parts = 1..n /\ \A i \in 1..n : IsFiniteSet(p.parts[i])
  <2>1. CASE p.parts = Parts
    BY <2>1, PartsAssumption
  <2>2. CASE p.parts = <<Parts[1]>>
    <3>1. DOMAIN p.parts = 1..1 /\ p.parts[1] = Parts[1] /\ IsFiniteSet(Parts[1])
      BY <2>2, PartsAssumption
    <3>. QED  BY <3>1
  <2>. QED  BY <1>3, <2>1, <2>2
<1>. HIDE DEF p
<1>5. Length(p) >= Cardinality(NamesIn(Itertests(p).tests))
  BY <1>2, <1>4, LengthSuffices
<1>. QED  BY <1>5 DEF p

\* What a session knows of the run: the profile yields what it did at first.
ProfilesInv ==
    /\ command \in CommandLines
    /\ stage = "new" => first = {}
    /\ stage \in {"running", "killed"} =>
          Loads(command) /\ FirstOf(command).ok /\ first = NamesIn(FirstOf(command).tests)
    /\ stage = "killed" => before = results
    /\ ResumeRunsTheRest

LEMMA ProfilesStarts == ProfilesInit => ProfilesInv
  BY DEF ProfilesInit, ProfilesInv, ResumeRunsTheRest

LEMMA ProfilesStep ==
    ASSUME NoListOverXML, ProfilesInv, [ProfilesNext]_profileVars
    PROVE  ProfilesInv'
<1>. USE DEF ProfilesInv
<1>1. CASE Run
  <2>. DEFINE c == command
              y == FirstOf(c)
  <2>1. /\ stage = "new" /\ Loads(c) /\ c \in CommandLines /\ command' = c /\ first' = picked'
        /\ picked' = NamesIn(y.tests) /\ total' = Length(ProfileOf(c, {}))
        /\ stage' = IF y.ok THEN "running" ELSE "crashed"
    BY <1>1 DEF Run, Start, FirstOf
  <2>2. Length(ProfileOf(c, {})) >= Cardinality(NamesIn(y.tests))
    BY <2>1, CountedEnough DEF FirstOf
  <2>3. ~y.ok => NamesIn(y.tests) = {}
    BY NothingYielded DEF FirstOf
  <2>. QED  BY <2>1, <2>2, <2>3 DEF ResumeRunsTheRest
<1>2. CASE NotLoaded
  BY <1>2 DEF NotLoaded, ResumeRunsTheRest
<1>3. CASE KillRun
  BY <1>3 DEF KillRun, ResumeRunsTheRest
<1>4. CASE Finish
  BY <1>4 DEF Finish, ResumeRunsTheRest
<1>5. ASSUME NEW i \in DOMAIN todo, EndTest(i)  PROVE ProfilesInv'
  BY <1>5 DEF EndTest, ResumeRunsTheRest
<1>6. ASSUME NEW no_retry \in BOOLEAN, Resume(no_retry)  PROVE ProfilesInv'
  <2>. DEFINE c == command
              X == ExcludedTests(no_retry)
              y == Itertests(ProfileOf(c, X))
  <2>1. /\ stage = "killed" /\ Loads(c) /\ c \in CommandLines /\ command' = c /\ first' = first
        /\ first = NamesIn(FirstOf(c).tests) /\ FirstOf(c).ok
        /\ before' = before /\ before = results
        /\ picked' = NamesIn(y.tests) /\ total' = Length(ProfileOf(c, X))
        /\ stage' = IF y.ok THEN "resumed" ELSE "crashed"
    BY <1>6 DEF Resume, Start
  <2>2. y.ok = FirstOf(c).ok /\ NamesIn(y.tests) = first \ X
    BY <2>1, RestYielded
  <2>3. Length(ProfileOf(c, X)) >= Cardinality(NamesIn(y.tests))
    BY <2>1, CountedEnough
  <2>4. X = DOMAIN before \/ X = {n \in DOMAIN before : before[n] # "incomplete"}
    BY <2>1 DEF ExcludedTests
  <2>5. stage' = "resumed"
    BY <2>1, <2>2
  <2>6. picked' \in {first \ {n \in DOMAIN before : before[n] # "incomplete"}, first \ DOMAIN before}
    BY <2>1, <2>2, <2>4
  <2>7. total' >= Cardinality(picked')
    BY <2>1, <2>3
  <2>. QED  BY <2>1, <2>5, <2>6, <2>7 DEF ResumeRunsTheRest
<1>7. CASE UNCHANGED profileVars
  BY <1>7 DEF profileVars, ResumeRunsTheRest
<1>. QED  BY <1>1, <1>2, <1>3, <1>4, <1>5, <1>6, <1>7 DEF ProfilesNext

\* For any tests, filters, test lists and results: a resumed session runs the tests
\* of the run that had not completed, or had not begun, and no others; and a log is
\* made for as many tests as it will see (run.py, resume).
THEOREM ResumesRunTheRest ==
    ASSUME NoListOverXML
    PROVE  ProfilesSpec => []ResumeRunsTheRest
<1>1. ProfilesInv /\ [ProfilesNext]_profileVars => ProfilesInv'
  BY ProfilesStep
<1>2. ProfilesInv => ResumeRunsTheRest
  BY DEF ProfilesInv
<1>. QED  BY <1>1, <1>2, ProfilesStarts, PTL DEF ProfilesSpec
===============================================================================
