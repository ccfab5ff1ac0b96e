-------------------------------- MODULE WflInfo --------------------------------
(***************************************************************************)
(* framework/wflinfo.py and framework/test/opengl.py: threads that decide  *)
(* whether to skip a test ask for one lazily computed description of the   *)
(* GL implementation.  The flag of the property is guarded by a lock, but  *)
(* the value is stored by the descriptor (core.py:242) after the lock is   *)
(* released; who finds the flag set asks again, one frame deeper.          *)
(***************************************************************************)
EXTENDS Integers, Sequences, FiniteSets

CONSTANTS Askers,     \* threads with a test to skip or to execute
          Needs,      \* of a thread: the extensions, api and shader version its
                      \* test requires; 0 is a version of None
          Has,        \* what the implementation supports: the same record
          Compat,     \* the property is compat, which may be built again
          MaxDepth    \* the recursion limit of Python, in nested lookups

(* How one call of wflinfo ends: a line that can be read; one that cannot  *)
(* (IndexError, ValueError, WFLINFO_GL_ERROR); StopWflinfo, because the    *)
(* platform has no such profile or the program is not installed; another   *)
(* OSError, or an output without the line ('Unreachable').                 *)
Calls == {"read", "garbled", "stop", "raise"}
Fields == <<"shader", "api", "extensions">>
Unknown(f) == IF f = "extensions" THEN {} ELSE 0

NoInfo == [shader |-> 0, api |-> 0, extensions |-> {"no", "info"}]

VARIABLES lookup,   \* where a thread is
          depth,    \* nested lookups of a thread
          lock,     \* the threads that hold it
          init,     \* the flag: somebody has begun to build
          info,     \* the attribute that shadows the property, or NoInfo
          built,    \* of the thread that builds: the fields so far
          retried,  \* compat is being built again with the profile 'none'
          value,    \* what a thread got
          skipped,  \* threads whose test was skipped
          failures  \* history: fields of which some call was not "read"
wflinfoVars == <<lookup, depth, lock, init, info, built, retried, value, skipped, failures>>

WflInfoInit ==
    /\ lookup = [t \in Askers |-> "idle"] /\ depth = [t \in Askers |-> 0]
    /\ lock = {} /\ init = FALSE /\ info = NoInfo /\ built = <<>> /\ retried = FALSE
    /\ value = [t \in Askers |-> NoInfo] /\ skipped = {} /\ failures = {}

-------------------------------------------------------------------------------
(* self.core in a test, or in the property itself: the instance attribute  *)
(* first, then the descriptor, until Python refuses another frame.         *)
Ask(t) ==
    /\ lookup[t] \in {"idle", "again"}
    /\ IF info # NoInfo
       THEN /\ value' = [value EXCEPT ![t] = info]
            /\ lookup' = [lookup EXCEPT ![t] = "got"] /\ UNCHANGED depth
       ELSE /\ lookup' = [lookup EXCEPT ![t] = IF depth[t] = MaxDepth THEN "raised" ELSE "wait"]
            /\ depth' = [depth EXCEPT ![t] = IF depth[t] = MaxDepth THEN @ ELSE @ + 1]
            /\ UNCHANGED value
    /\ UNCHANGED <<lock, init, info, built, retried, skipped, failures>>

(* with self.__core_lock: if not self.__core_init *)
Enter(t) ==
    /\ lookup[t] = "wait" /\ lock = {}
    /\ IF init
       THEN lookup' = [lookup EXCEPT ![t] = "again"] /\ UNCHANGED <<lock, init>>
       ELSE /\ lookup' = [lookup EXCEPT ![t] = "build"]
            /\ lock' = {t} /\ init' = TRUE
    /\ UNCHANGED <<depth, info, built, retried, value, skipped, failures>>

(* What an exception out of the with statement leaves: the flag stays set. *)
AbandonLocked(t) == lookup' = [lookup EXCEPT ![t] = "raised"] /\ UNCHANGED lock
Abandon(t) == lookup' = [lookup EXCEPT ![t] = "raised"] /\ lock' = {}

(* One call of __build_info; compat is built once more when no api version *)
(* was found.                                                              *)
Field == Fields[Len(built) + 1]
Call(t, how) ==
    /\ lookup[t] = "build" /\ Len(built) < 3
    /\ IF how = "raise"
       THEN Abandon(t) /\ UNCHANGED built
       ELSE /\ built' = Append(built, IF how = "read" THEN Has[Field] ELSE Unknown(Field))
            /\ UNCHANGED <<lookup, lock>>
    /\ failures' = IF how = "read" THEN failures ELSE failures \cup {Field}
    /\ UNCHANGED <<depth, init, info, retried, value, skipped>>

Again(t) ==
    /\ lookup[t] = "build" /\ Len(built) = 3
    /\ Compat /\ built[2] = 0 /\ ~retried
    /\ retried' = TRUE /\ built' = <<>> /\ failures' = {}
    /\ UNCHANGED <<lookup, depth, lock, init, info, value, skipped>>

(* return: the lock is released, the value is not stored yet. *)
Leave(t) ==
    /\ lookup[t] = "build" /\ Len(built) = 3
    /\ ~(Compat /\ built[2] = 0 /\ ~retried)
    /\ value' = [value EXCEPT ![t] = [shader |-> built[1], api |-> built[2], extensions |-> built[3]]]
    /\ lookup' = [lookup EXCEPT ![t] = "store"] /\ lock' = {}
    /\ built' = <<>>
    /\ UNCHANGED <<depth, init, info, retried, skipped, failures>>

(* setattr in lazy_property.__get__ *)
Store(t) ==
    /\ lookup[t] = "store"
    /\ info' = value[t]
    /\ lookup' = [lookup EXCEPT ![t] = "got"]
    /\ UNCHANGED <<depth, lock, init, built, retried, value, skipped, failures>>

(* FastSkip.test: no extensions known means none required; a version that  *)
(* wflinfo could not tell is 0.0, and not None.                            *)
UnmetIfEmpty(v, need) == \/ ~(need.extensions \subseteq v.extensions)
                         \/ need.api > v.api
                         \/ need.shader > v.shader
Unmet(v, need) == \/ v.extensions # {} /\ ~(need.extensions \subseteq v.extensions)
                  \/ need.api # 0 /\ need.api > v.api
                  \/ need.shader # 0 /\ need.shader > v.shader
Decide(t) ==
    /\ lookup[t] = "got"
    /\ skipped' = IF Unmet(value[t], Needs[t]) THEN skipped \cup {t} ELSE skipped
    /\ lookup' = [lookup EXCEPT ![t] = "done"]
    /\ UNCHANGED <<depth, lock, init, info, built, retried, value, failures>>

Asker(t) == \/ Ask(t) \/ Enter(t) \/ Again(t) \/ Leave(t) \/ Store(t) \/ Decide(t)
            \/ \E how \in Calls : Call(t, how)
WflInfoNext == \E t \in Askers : Asker(t)
WflInfoFairness == \A t \in Askers : WF_wflinfoVars(Asker(t))
WflInfoSpec == WflInfoInit /\ [][WflInfoNext]_wflinfoVars
WflInfoFairSpec == WflInfoSpec /\ WflInfoFairness

-------------------------------------------------------------------------------
(* Properties. *)

(* wflinfo is asked by one thread at most, and every thread that is        *)
(* answered has that thread's answer, also while it is not stored yet and  *)
(* after a build that failed (wflinfo.py:62, "needs to evaluate only       *)
(* once").                                                                 *)
AskedOnce ==
    /\ Cardinality({t \in Askers : lookup[t] \in {"build", "store"}}) <= 1
    /\ \A t, u \in Askers : value[t] # NoInfo /\ value[u] # NoInfo => value[t] = value[u]
    /\ (\E t \in Askers : lookup[t] = "build") => info = NoInfo

(* A test is skipped only for a requirement that the implementation does   *)
(* not meet, or because wflinfo could not tell a version; without a list   *)
(* of extensions no test is skipped for one (opengl.py:41, :76).           *)
SkipIsDeserved ==
    \A t \in skipped : \/ Unmet(Has, Needs[t])
                       \/ failures \cap {"api", "shader"} # {}

(* All that tests share of the description is one answer. *)
OneAnswer == AskedOnce /\ SkipIsDeserved

(* Every thread gets an answer or an exception: the thread that builds     *)
(* leaves the lock also when wflinfo cannot be executed, and a value that  *)
(* never comes ends in a RecursionError.                                   *)
AskersEnd == \A t \in Askers : (lookup[t] = "wait") ~> (lookup[t] \in {"done", "raised"})
===============================================================================
