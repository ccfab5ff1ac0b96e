---------------------------- MODULE Interpretation ----------------------------
(***************************************************************************)
(* interpret_result of the test classes of framework/test: what a return   *)
(* code and an output make of a test's result.  A return code is an        *)
(* integer, negative when a signal ended the process.  An output is a      *)
(* sequence of lines, and a line a record with the field kind:             *)
(*   "result"   a PIGLIT: line with a status                               *)
(*   "subtest"  a PIGLIT: line with the status of one subtest              *)
(*   "garbage"  a PIGLIT: line that is not JSON, or has no known status    *)
(*   "text"     any other line: the word it has or starts with             *)
(* A PIGLIT: line that enumerates subtests is a "subtest" line with the    *)
(* status notrun for each of them.                                         *)
(* Raised stands for an exception, which Test.execute makes a 'fail'.      *)
(***************************************************************************)
EXTENDS TestResults

Raised == "raised"

IsCrash(code) == code < 0

Words(lines) == {lines[i].word : i \in {j \in DOMAIN lines : lines[j].kind = "text"}}

(* Test.interpret_result.  The first subtest still notrun is the one that  *)
(* crashed.                                                                *)
FirstNotRun(subs) == SelectInSeq(subs, LAMBDA s : s.status = "notrun")
MarkCrashed(subs) == LET k == FirstNotRun(subs)
                     IN IF k = 0 THEN subs ELSE [subs EXCEPT ![k].status = "crash"]

BaseIgnoresCode(r) == IF IsCrash(r.code) THEN [r EXCEPT !.raw = "crash", !.subtests = MarkCrashed(@)]
                      ELSE r
Base(r) == IF IsCrash(r.code)
           THEN [r EXCEPT !.raw = "crash", !.subtests = MarkCrashed(@)]
           ELSE IF r.code = 0 THEN r
           ELSE [r EXCEPT !.raw = IF ResultOf(r) = "pass" THEN "warn" ELSE "fail"]

(* ValgrindMixin.interpret_result. *)
Valgrind(enabled, r) ==
    LET b   == Base(r)
        res == ResultOf(b)
    IN IF ~enabled THEN b
       ELSE [b EXCEPT !.raw = IF res \notin {"pass", "warn"} /\ b.code # 0 THEN "skip"
                              ELSE IF b.code = 0 THEN "pass" ELSE "fail"]

(* TestResult.update and the line loop of PiglitBaseTest. *)
ReadLine(r, line) ==
    CASE line.kind = "result"  -> [r EXCEPT !.raw = line.status]
      [] line.kind = "subtest" -> [r EXCEPT !.subtests = SetSubtest(@, line.name, line.status)]
      [] OTHER -> r
ReadOutput(r, lines) ==
    LET read[n \in 0..Len(lines)] == IF n = 0 THEN r ELSE ReadLine(read[n - 1], lines[n])
    IN  read[Len(lines)]

SkipNotRun(r) ==
    IF r.raw # "skip" THEN r
    ELSE [r EXCEPT !.subtests = [i \in DOMAIN @ |->
             IF @[i].status = "notrun" THEN [@[i] EXCEPT !.status = "skip"] ELSE @[i]]]

FirstGarbage(lines) == SelectInSeq(lines, LAMBDA l : l.kind = "garbage")
Native(valgrind, r, lines) ==
    IF FirstGarbage(lines) # 0
    THEN [ReadOutput(r, SubSeq(lines, 1, FirstGarbage(lines) - 1)) EXCEPT !.raw = Raised]
    ELSE Valgrind(valgrind, SkipNotRun(ReadOutput(r, lines)))

(* PiglitReplayerTest: exit code 1 is an unhandled Python exception. *)
Replayer(valgrind, r, lines) ==
    Native(valgrind, [r EXCEPT !.code = IF @ = 1 THEN -1 ELSE @], lines)

(* DEQPBaseTest: the first line that starts with a key of __RESULT_MAP. *)
DeqpMap == [Pass |-> "pass", Fail |-> "fail", QualityWarning |-> "warn", InternalError |-> "fail",
            Crash |-> "crash", NotSupported |-> "skip", ResourceError |-> "crash"]
DeqpWord(lines) == SelectInSeq(lines, LAMBDA l : l.kind = "text" /\ l.word \in DOMAIN DeqpMap)
Deqp(r, lines) ==
    LET k == DeqpWord(lines)
        raw == IF IsCrash(r.code) THEN "crash"
               ELSE IF r.code # 0 THEN "fail"
               ELSE IF k # 0 THEN DeqpMap[lines[k].word] ELSE ResultOf(r)
    IN [r EXCEPT !.raw = IF raw = "notrun" THEN "fail" ELSE raw]

(* The others go by the return code and single words of the output. *)
GTest(r, lines) ==
    Base([r EXCEPT !.raw = IF "FAILED" \in Words(lines) THEN "fail"
                           ELSE IF "PASSED" \in Words(lines) THEN "pass" ELSE "fail"])

OCLConform(r, lines) ==
    [r EXCEPT !.raw = IF r.code # 0 \/ "FAIL" \in Words(lines) THEN "fail" ELSE "pass"]

(* XTSTest: its output is the result file the test writes; the message on  *)
(* fonts is one of that file.                                              *)
XTS(r, lines) ==
    LET b == Base(r)
    IN [b EXCEPT !.raw =
          CASE r.code = 0  -> IF "PASS" \in Words(lines) /\ "FAIL" \notin Words(lines)
                              THEN "pass" ELSE "fail"
            [] r.code = 77 -> "skip"
            [] r.code = 1  -> IF "fonts" \in Words(lines) THEN "warn" ELSE "fail"
            [] OTHER       -> @]

Rendercheck(r, lines) ==
    LET b == Base(r)
    IN [b EXCEPT !.raw = CASE r.code = 0 -> "pass" [] r.code = 77 -> "skip" [] OTHER -> @]

TestClasses == {"native", "window", "valgrind", "replayer", "deqp", "gtest", "oclconform", "xts",
                "rendercheck"}

InterpretAs(class, r, lines) ==
    CASE class \in {"native", "window"} -> Native(FALSE, r, lines)
      [] class = "valgrind"    -> Native(TRUE, r, lines)
      [] class = "replayer"    -> Replayer(FALSE, r, lines)
      [] class = "deqp"        -> Deqp(r, lines)
      [] class = "gtest"       -> GTest(r, lines)
      [] class = "oclconform"  -> OCLConform(r, lines)
      [] class = "xts"         -> XTS(r, lines)
      [] class = "rendercheck" -> Rendercheck(r, lines)

===============================================================================
