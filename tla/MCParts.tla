-------------------------------- MODULE MCParts --------------------------------
(***************************************************************************)
(* Instances of the parts that share no state with the run of the tests    *)
(* nor with each other: the objects tests share (the rules of a monitored  *)
(* run, the description of the GL, the directory of traces) and the files  *)
(* piglit reads and writes (profiles, results of an old version, JUnit     *)
(* results, summaries, generated tests).  A behaviour is one of them at    *)
(* work, which the variable subject names.                                 *)
(***************************************************************************)
EXTENDS MCInputs, Monitoring, WflInfo, ReplayTrace, JsonUpdate, KeyedSet, Registry,
        Summary, JUnitFiles, Profiles, PackingTests

CONSTANTS fileRule, lockedRule, logRule, dmesg, file, log, t1, t2, t3

VARIABLES subject,
          fields, names, structs,
          calls, call, stored, signatures,
          doubleCalls, doubleCall, doubleStored, doubleSignatures

(* The values of the constants.  The plain file is not stamped; the locked *)
(* file is the same file.                                                  *)
MCRules    == <<fileRule, lockedRule, logRule>>
MCKind     == (fileRule :> "file") @@ (lockedRule :> "locked_file")
              @@ (logRule :> "dmesg") @@ (dmesg :> "dmesg")
MCSourceOf == (fileRule :> file) @@ (lockedRule :> file) @@ (logRule :> log) @@ (dmesg :> log)
MCStamped  == {log}

(* One test needs nothing, one what there is, one a version too high. *)
MCHas   == [shader |-> 2, api |-> 2, extensions |-> {"ext"}]
MCNeeds == (t1 :> [shader |-> 0, api |-> 0, extensions |-> {}])
           @@ (t2 :> [shader |-> 2, api |-> 2, extensions |-> {"ext"}])
           @@ (t3 :> [shader |-> 0, api |-> 3, extensions |-> {"new"}])

(* A node for each key. *)
MCNodes == 1..3

MCTestNames == {<<"a">>}

(* gl.xml: the mask of all bits, an enum of two ranges, the wrong one in the *)
(* range with the upper bound 2, special numbers; a feature and extensions,  *)
(* one with two elements for different apis. Then the same with something    *)
(* missing, renamed or unknown.                                              *)
MaskGroup == [group |-> "AttribMask", type |-> "bitmask", vendor |-> Absent, start |-> Absent, end |-> Absent,
              enums |-> <<Enum(9, 99, "None"), Enum(8, 1, "None")>>]
RangeGroup(n, vendor, seq) ==
    [group |-> Absent, type |-> Absent, vendor |-> vendor, start |-> n, end |-> n + 1, enums |-> seq]
SpecialGroup == [MaskGroup EXCEPT !.group = "SpecialNumbers", !.type = Absent, !.enums = <<Enum(7, 0, "None"), Enum(7, 1, "None")>>]
BadEnum == [Enum(1, 2, "EXT") EXCEPT !.api = "gles2"]
Needed(api, kind, name) == [api |-> api, kind |-> kind, name |-> name]
MCFeature == [provider |-> [Provider("feature", FALSE, "None", 1) EXCEPT !.supported = {"gl"}],
              requires |-> <<Needed("all", "command", "a"), Needed("gles1", "enum", 7)>>]
MCExtension(v, n, apis, needs) ==
    [provider |-> [Provider("extension", FALSE, v, n) EXCEPT !.supported = apis], requires |-> needs]
MCDocument ==
    [commands |-> <<GLCommand("b", "a"), GLCommand("a", "none")>>,
     enums |-> <<SpecialGroup, RangeGroup(2, "ARB", <<Enum(2, 2, "ARB"), BadEnum>>), MaskGroup,
                 RangeGroup(5, "ARB", <<[Enum(1, 5, "EXT") EXCEPT !.api = "gl"]>>)>>,
     features |-> <<MCFeature>>,
     extensions |-> <<MCExtension("EXT", 2, {"gl", "gles2"}, <<Needed("gl", "enum", 1), Needed("gles2", "enum", 1), Needed("all", "command", "b")>>),
                      MCExtension("None", 3, {"gl"}, <<>>)>>]
MCDocuments ==
    {MCDocument,
     [MCDocument EXCEPT !.enums = Tail(@)],
     [MCDocument EXCEPT !.enums = Reverse(@)],
     [MCDocument EXCEPT !.enums = SubSeq(@, 1, 2)],
     [MCDocument EXCEPT !.enums[1].type = "bitmask"],
     [MCDocument EXCEPT !.enums[2].enums = Tail(Tail(@))],
     [MCDocument EXCEPT !.enums[4].end = Absent],
     [MCDocument EXCEPT !.enums[3].type = "mask"],
     [MCDocument EXCEPT !.commands = Tail(@)],
     [MCDocument EXCEPT !.features[1].requires = <<>>],
     [MCDocument EXCEPT !.extensions = Tail(@)],
     [MCDocument EXCEPT !.extensions = <<Head(@)>>],
     [MCDocument EXCEPT !.extensions[1].provider.supported = {"gl"}],
     [MCDocument EXCEPT !.extensions[1].provider.supported = {"gl", "vulkan"}]}

U == INSTANCE UniformBlocks WITH
       BasicTypes <- MCBasicTypes, ArraySizes <- {2}, Requirements <- MCRequirements,
       MaxMembers <- 2, AllowRowMajorStructure <- TRUE

(* The members required are among those the generator draws. *)
ASSUME RequirementsDrawn == MCRequirements \subseteq U!Drawn(TRUE)

B == INSTANCE BuiltinFunction WITH Width <- 3, Samples <- MCSamples

D == INSTANCE BuiltinFunctionFp64 WITH
       Samples <- MCSamples, calls <- doubleCalls, call <- doubleCall, stored <- doubleStored,
       signatures <- doubleSignatures

blockVars == <<fields, names, structs>>
registryVars == <<keyedVars, aliasVars, orderVars, documentVars>>
builtinVars == <<calls, call, stored, signatures>>
doubleVars == <<doubleCalls, doubleCall, doubleStored, doubleSignatures>>
generatorVars == <<blockVars, builtinVars, doubleVars, packingVars>>
sharedVars == <<monitoringVars, wflinfoVars, replayVars>>
fileVars == <<profileVars, compared, updateVars, junitVars>>

Init == /\ MonitoringInit /\ WflInfoInit /\ ReplayInit /\ UpdateInit /\ AliasInit /\ KeyedInit /\ OrderInit
        /\ U!Init /\ PackingInit
        /\ subject \in {"monitoring", "wflinfo", "replay", "blocks", "profiles", "summary", "update", "junit",
                        "keyed set", "aliases", "order", "registry", "builtins", "doubles", "packing"}
        (* The inputs of the subjects that are not at work stay one. *)
        /\ subject # "monitoring" => \A s \in DOMAIN source : source[s][1].text = "text"
        /\ ProfilesInit /\ (subject # "profiles" => command = CHOOSE c \in MCCommandLines : TRUE)
        /\ IF subject = "summary" THEN SummaryInit ELSE compared = <<>>
        /\ RegistryInit /\ (subject # "registry" => document = CHOOSE d \in MCDocuments : TRUE)
        /\ JUnitInit /\ (subject # "junit" => \A n \in Listed : expected[n] = "pass")
        /\ IF subject = "builtins" THEN B!Init ELSE calls = {} /\ call = <<>> /\ stored = {} /\ signatures = {}
        /\ IF subject = "doubles" THEN D!Init
           ELSE doubleCalls = {} /\ doubleCall = <<>> /\ doubleStored = {} /\ doubleSignatures = {}

MonitoringStep == /\ subject = "monitoring" /\ MonitoringNext
                  /\ UNCHANGED <<subject, wflinfoVars, replayVars, fileVars, registryVars, generatorVars>>
WflInfoStep == /\ subject = "wflinfo" /\ WflInfoNext
               /\ UNCHANGED <<subject, monitoringVars, replayVars, fileVars, registryVars, generatorVars>>
ReplayStep == /\ subject = "replay" /\ ReplayNext
              /\ UNCHANGED <<subject, monitoringVars, wflinfoVars, fileVars, registryVars, generatorVars>>
ProfileStep == /\ subject = "profiles" /\ ProfilesNext
               /\ UNCHANGED <<subject, sharedVars, compared, updateVars, junitVars, registryVars, generatorVars>>
SummaryStep == /\ subject = "summary" /\ SummaryNext
               /\ UNCHANGED <<subject, sharedVars, profileVars, updateVars, junitVars, registryVars, generatorVars>>
UpdateStep == /\ subject = "update" /\ UpdateNext
              /\ UNCHANGED <<subject, sharedVars, profileVars, compared, junitVars, registryVars, generatorVars>>
JUnitStep == /\ subject = "junit" /\ JUnitNext
             /\ UNCHANGED <<subject, sharedVars, profileVars, compared, updateVars, registryVars, generatorVars>>
KeyedSetStep == /\ subject = "keyed set" /\ KeyedNext
                /\ UNCHANGED <<subject, sharedVars, fileVars, aliasVars, orderVars, documentVars, generatorVars>>
AliasStep == /\ subject = "aliases" /\ AliasNext
             /\ UNCHANGED <<subject, sharedVars, fileVars, keyedVars, orderVars, documentVars, generatorVars>>
OrderStep == /\ subject = "order" /\ OrderNext
             /\ UNCHANGED <<subject, sharedVars, fileVars, keyedVars, aliasVars, documentVars, generatorVars>>
RegistryStep == /\ subject = "registry" /\ RegistryNext
                /\ UNCHANGED <<subject, sharedVars, fileVars, keyedVars, elementsLeft, sorted, generatorVars>>
BlockStep == /\ subject = "blocks" /\ U!Next
             /\ UNCHANGED <<subject, sharedVars, fileVars, registryVars, builtinVars, doubleVars, packingVars>>
BuiltinStep == /\ subject = "builtins" /\ B!Next
               /\ UNCHANGED <<subject, sharedVars, fileVars, registryVars, blockVars, doubleVars, packingVars>>
DoubleStep == /\ subject = "doubles" /\ D!Next
              /\ UNCHANGED <<subject, sharedVars, fileVars, registryVars, blockVars, builtinVars, packingVars>>
PackingStep == /\ subject = "packing" /\ PackingNext
               /\ UNCHANGED <<subject, sharedVars, fileVars, registryVars, blockVars, builtinVars, doubleVars>>
Next == \/ MonitoringStep \/ WflInfoStep \/ ReplayStep
        \/ BlockStep \/ ProfileStep \/ SummaryStep \/ UpdateStep \/ JUnitStep
        \/ KeyedSetStep \/ AliasStep \/ OrderStep \/ RegistryStep
        \/ BuiltinStep \/ DoubleStep \/ PackingStep

(* Only the threads that ask for the description must go on. *)
FairSpec == /\ Init /\ [][Next]_<<subject, sharedVars, fileVars, registryVars, generatorVars>>
            /\ \A t \in Askers :
                  WF_wflinfoVars(subject = "wflinfo" /\ Asker(t)
                                 /\ UNCHANGED <<subject, monitoringVars, replayVars, fileVars, registryVars, generatorVars>>)

(* The invariants of the generated tests are evaluated where those are made; *)
(* a part that is not at work stays in its initial state.                    *)
MembersDisjoint       == subject = "blocks" => U!MembersDisjoint
BlocksAgree           == subject = "blocks" => U!BlocksAgree /\ U!NamesAndDeclarations
BuiltinsSound         == /\ subject = "builtins" => B!VectorsCoverScalars /\ B!OverloadsSound
                         /\ subject = "doubles" => D!VectorsCoverScalars /\ D!OverloadsSound
================================================================================
