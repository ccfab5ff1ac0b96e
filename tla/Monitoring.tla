------------------------------ MODULE Monitoring ------------------------------
(***************************************************************************)
(* framework/monitoring.py and framework/dmesg.py: what is new in a file,  *)
(* a locked file or the kernel log since it was last read, and what the    *)
(* one thread of a monitored run makes of it before and after every test   *)
(* (programs/run.py allows no second thread with --dmesg or                *)
(* --abort-on-monitored-error).  A line is written in two pieces, because  *)
(* a locked file is read in chunks that need not end where a line ends.    *)
(***************************************************************************)
EXTENDS Integers, Sequences, FiniteSets, SequencesExt

CONSTANTS Rules,     \* the rules, a sequence in the order of the configuration
          Dmesg,     \* the object in options['dmesg']
          Kind,      \* of every reader: "file", "locked_file" or "dmesg"
          SourceOf,  \* of every reader: what it reads
          Stamped,   \* the sources whose lines are all different
          Texts,     \* what a line can say
          Errors,    \* the texts the regex finds
          Chunk,     \* pieces in one read of a locked file
          Ring,      \* lines the kernel log holds
          MaxLines,  \* bound: lines written
          MaxTests   \* bound: tests executed

Readers == ToSet(Rules) \cup {Dmesg}
Sources == {SourceOf[r] : r \in Readers}
Log     == SourceOf[Dmesg]

(* The object in options['dmesg'] is none of the rules, and it refuses a   *)
(* kernel log without timestamps.                                          *)
ASSUME ReadersAssumption ==
    /\ Rules \in Seq(ToSet(Rules)) /\ Dmesg \notin ToSet(Rules)
    /\ Kind[Dmesg] = "dmesg" /\ Log \in Stamped
    /\ Ring \in Nat \ {0}

VARIABLES source,    \* the lines of every source, oldest first
          readable,  \* whether it can be opened, or the dmesg command works
          written,   \* lines written so far, also the identity of the last
          last,      \* _last_message of every reader; <<>> is None
          abort,     \* _abort_error: <<>> is None, else the line and its rule
          at,        \* where the thread is
          tests,     \* tests begun
          blamed,    \* the result of the test was replaced for the kernel log
          seen,      \* history: per reader, the lines of any earlier read
          start      \* history: lines written when the test's snapshot began
monitoringVars == <<source, readable, written, last, abort, at, tests, blamed, seen, start>>

-------------------------------------------------------------------------------
(* One read. *)

Pieces(line) == <<[line EXCEPT !.half = 1], [line EXCEPT !.half = 2]>>

ReadChunks(pieces) == [i \in 1..((Len(pieces) + Chunk - 1) \div Chunk) |->
                      SubSeq(pieces, (i - 1) * Chunk + 1,
                             IF i * Chunk < Len(pieces) THEN i * Chunk ELSE Len(pieces))]

(* The list that is searched: lines, or whatever os.read returned. *)
ItemsOf(r) == LET lines == [i \in DOMAIN source[SourceOf[r]] |-> Pieces(source[SourceOf[r]][i])]
            IN IF Kind[r] = "locked_file" THEN ReadChunks(FlattenSeq(lines)) ELSE lines

(* The string Python compares: it tells two lines apart by a timestamp. *)
Text(r, item) == [i \in DOMAIN item |->
                     [item[i] EXCEPT !.id = IF SourceOf[r] \in Stamped THEN @ ELSE 0]]

(* What follows the last item that says what was read last. *)
Known(r) == {i \in DOMAIN ItemsOf(r) : Text(r, ItemsOf(r)[i]) = last[r]}
NewFromFront(r) == SubSeq(ItemsOf(r), (IF Known(r) = {} THEN 0 ELSE Min(Known(r))) + 1, Len(ItemsOf(r)))
New(r) == SubSeq(ItemsOf(r), Max(Known(r) \cup {0}) + 1, Len(ItemsOf(r)))

LastOf(r) == IF ItemsOf(r) = <<>> THEN <<>> ELSE Text(r, ItemsOf(r)[Len(ItemsOf(r))])

Ids(items) == {p.id : p \in UNION {ToSet(items[i]) : i \in DOMAIN items}}

(* regex.search: a whole line with an error text. *)
Found(item) == \E i \in 1..(Len(item) - 1) :
                  item[i].id = item[i + 1].id /\ item[i].text \in Errors

(* A file that cannot be read has no new messages; the exception of the    *)
(* dmesg command leaves the loop over the rules.                           *)
Raises(r)  == Kind[r] = "dmesg" /\ ~readable[SourceOf[r]]
Fresh(r)   == IF readable[SourceOf[r]] THEN New(r) ELSE <<>>
Stopped    == \E i \in DOMAIN Rules : Raises(Rules[i])
Updated    == {Rules[i] : i \in {j \in DOMAIN Rules :
                  readable[SourceOf[Rules[j]]] /\ \A k \in 1..j : ~Raises(Rules[k])}}
Read(rs) == /\ last' = [r \in Readers |-> IF r \in rs THEN LastOf(r) ELSE last[r]]
            /\ seen' = [r \in Readers |-> IF r \in rs THEN seen[r] \cup Ids(ItemsOf(r)) ELSE seen[r]]

-------------------------------------------------------------------------------
(* One test.  An exception in execute makes the test a 'fail'. *)

(* options['dmesg'].update_dmesg() *)
BeginUnread == /\ at = "idle" /\ abort = <<>> /\ tests < MaxTests
               /\ tests' = tests + 1 /\ blamed' = FALSE /\ start' = written
               /\ at' = "begun"
               /\ UNCHANGED <<source, readable, written, abort, last, seen>>
Begin == /\ at = "idle" /\ abort = <<>> /\ tests < MaxTests
         /\ tests' = tests + 1 /\ blamed' = FALSE /\ start' = written
         /\ IF Raises(Dmesg) THEN at' = "idle" /\ UNCHANGED <<last, seen>>
                             ELSE at' = "begun" /\ Read({Dmesg})
         /\ UNCHANGED <<source, readable, written, abort>>

(* options['monitor'].update_monitoring() *)
UpdateMonitoring ==
    /\ at = "begun"
    /\ at' = IF Stopped THEN "idle" ELSE "running"
    /\ Read(Updated)
    /\ UNCHANGED <<source, readable, written, abort, tests, blamed, start>>

(* The test has run: options['dmesg'].update_result(result).  The status   *)
(* is one of those that replace() changes.                                 *)
UpdateResult == /\ at = "running"
                /\ IF Raises(Dmesg)
                   THEN at' = "idle" /\ UNCHANGED <<last, seen, blamed>>
                   ELSE at' = "judged" /\ Read({Dmesg}) /\ blamed' = (New(Dmesg) # <<>>)
                /\ UNCHANGED <<source, readable, written, abort, tests, start>>

(* options['monitor'].check_monitoring(): every rule is read again, then   *)
(* the first rule that finds an error ends the loop; the others overwrite. *)
ErrorsOf(r) == {i \in DOMAIN Fresh(r) : Found(Fresh(r)[i])}
Alarmed == {j \in DOMAIN Rules : ErrorsOf(Rules[j]) # {}}
Check == /\ at = "judged"
         /\ at' = "idle"
         /\ Read(Updated)
         /\ abort' = IF Stopped THEN abort
                     ELSE IF Alarmed = {} THEN <<>>
                     ELSE LET r == Rules[Min(Alarmed)]
                          IN  <<[rule |-> r, line |-> Fresh(r)[Min(ErrorsOf(r))]]>>
         /\ UNCHANGED <<source, readable, written, tests, blamed, start>>

Thread == Begin \/ UpdateMonitoring \/ UpdateResult \/ Check

-------------------------------------------------------------------------------
(* The system that is monitored.  The kernel log forgets its oldest line.  *)

WriteLine(s, t) ==
    /\ written < MaxLines
    /\ written' = written + 1
    /\ LET lines == Append(source[s], [text |-> t, id |-> written + 1, half |-> 0])
       IN source' = [source EXCEPT ![s] =
             IF s = Log /\ Len(lines) > Ring THEN Tail(lines) ELSE lines]
    /\ UNCHANGED <<readable, last, abort, at, tests, blamed, seen, start>>
(* A log is rotated, or the kernel log cleared. *)
EmptySource(s) ==
    /\ source[s] # <<>>
    /\ source' = [source EXCEPT ![s] = <<>>]
    /\ UNCHANGED <<readable, written, last, abort, at, tests, blamed, seen, start>>
Toggle(s) == /\ readable' = [readable EXCEPT ![s] = ~@]
             /\ UNCHANGED <<source, written, last, abort, at, tests, blamed, seen, start>>

(* Nobody reads what is written when the last test is over. *)
Over == abort # <<>> \/ (at = "idle" /\ tests = MaxTests)
System == ~Over /\ \E s \in Sources : \/ \E t \in Texts : WriteLine(s, t)
                                      \/ EmptySource(s)
                                      \/ Toggle(s)

(* The readers of the kernel log read it when they are created. *)
MonitoringInit ==
    /\ \E t \in Texts :
         source = [s \in Sources |-> <<[text |-> t, id |-> 1, half |-> 0]>>]
    /\ readable = [s \in Sources |-> TRUE]
    /\ written = 1
    /\ last = [r \in Readers |-> IF Kind[r] = "dmesg" THEN LastOf(r) ELSE <<>>]
    /\ seen = [r \in Readers |-> IF Kind[r] = "dmesg" THEN {1} ELSE {}]
    /\ abort = <<>> /\ at = "idle" /\ tests = 0 /\ blamed = FALSE /\ start = 0

MonitoringNext == Thread \/ System
MonitoringSpec == MonitoringInit /\ [][MonitoringNext]_monitoringVars

-------------------------------------------------------------------------------
(* Properties. *)

(* The unseen errors that a reader could find now. *)
Unseen(r) == {p \in Ids(ItemsOf(r)) \ seen[r] :
                 \E l \in ToSet(source[SourceOf[r]]) : l.id = p /\ l.text \in Errors}

(* A run is aborted for an error exactly when the error is new: the line   *)
(* that check_monitoring names was in no earlier reading of its source,    *)
(* however the source was rotated, cut or unreadable in between; and an    *)
(* error that no reading has returned yet is never passed over when the    *)
(* lines of the source are all different (monitoring.py:139 and :272).     *)
(* Locked files are left out: there neither half holds, because a chunk    *)
(* that grows is a new line, and an error over two chunks is none.  When    *)
(* the dmesg command fails, the check ends with nothing found and what the *)
(* rules before it have read is not looked at again.                       *)
NewErrorsAbort ==
    [][Check /\ ~Stopped =>
          /\ abort' # <<>> /\ Kind[abort'[1].rule] # "locked_file" =>
                Ids(<<abort'[1].line>>) \cap seen[abort'[1].rule] = {}
          /\ (\E r \in Updated : Kind[r] # "locked_file" /\ SourceOf[r] \in Stamped /\ Unseen(r) # {})
                => abort' # <<>>]_monitoringVars

(* The kernel log marks a test exactly when it got a line after the test's *)
(* snapshot began, and never for what an earlier test left there           *)
(* (dmesg.py:102); lines cut off by the ring or cleared are lost.          *)
LogBlamesTheTest ==
    [][UpdateResult /\ ~Raises(Dmesg) =>
          (blamed' <=> \E l \in ToSet(source[Log]) : l.id > start)]_monitoringVars
===============================================================================
