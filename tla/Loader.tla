---------------------------------- MODULE Loader ----------------------------------
(*****************************************************************************)
(* Synth::loadSfzFile: reading a file with its includes and defines, giving  *)
(* its opcodes to regions header by header, and registering the regions.     *)
(*                                                                           *)
(* A load goes through three phases, as the three loops of the code do:      *)
(* "reading" takes a line at a time (Parser::readSfzFile), "parsing" a       *)
(* header at a time (Synth::callback), "registering" a region at a time.     *)
(* The text is a sequence of tokens; the regular expressions that find them  *)
(* are left out.  Handlers do not run meanwhile: that is the business of     *)
(* Gate.                                                                     *)
(*****************************************************************************)
EXTENDS Opcodes

CONSTANTS
    Disks,              \* what the file system may hold
    HostFiles,          \* the paths that the host may load
    WorkingDirectory,   \* an absolute path
    Generators,         \* the sample names that begin with a star
    PreloadSize,        \* config::preloadSize
    Garbage,            \* loops that an uninitialised SF_INSTRUMENT may hold
    Notes, CCs,         \* the keys and controllers that have a list
    MaxLoads            \* bound on the loads of a behaviour

\* A path is a sequence of names, beginning with "/" if it is absolute.  A disk has
\*   texts         from paths to sequences of lines, each one of [include |-> path],
\*                 [define |-> name, as |-> value], [tokens |-> sequence]
\*   samples       from paths to [frames, channels, instrument, loop]: instrument says
\*                 whether there is an instrument chunk, and loop is Null or its loop
\*   directories   a set of paths
\*   guards        the settings of the include guard that the host may choose
\* A token is [header |-> name], or an opcode, whose value may be <<"variable", name>>.
ASSUME LoaderAssumption ==
    /\ PreloadSize \in Nat \ {0}
    /\ Notes \subseteq 0..127 /\ CCs \subseteq 0..127
    /\ WorkingDirectory[1] = "/"

\* What the regular expressions make of a text: numbers, and note names that are notes.
IsValue(value) ==
    /\ value[1] = "number" => value[2] \in Int
    /\ value[1] = "note" => value[2] \in 0..127

IsToken(token) ==
    \/ DOMAIN token = {"header"}
    \/ /\ DOMAIN token = {"name", "parameter", "value"}
       /\ IsValue(token.value) /\ token.parameter \in Nat \cup {Null}

IsLine(line) ==
    /\ "define" \in DOMAIN line => IsValue(line.as)
    /\ "tokens" \in DOMAIN line =>
           /\ line.tokens \in Seq({line.tokens[i] : i \in DOMAIN line.tokens})
           /\ \A i \in DOMAIN line.tokens : IsToken(line.tokens[i])

ASSUME DisksAssumption ==
    \A d \in Disks :
        /\ \A path \in DOMAIN d.texts :
              /\ d.texts[path] \in Seq({d.texts[path][i] : i \in DOMAIN d.texts[path]})
              /\ \A i \in DOMAIN d.texts[path] : IsLine(d.texts[path][i])
        /\ \A path \in DOMAIN d.samples :
              LET s == d.samples[path] IN
              s.frames \in Nat /\ (s.loop # Null => s.loop \in Nat \X Nat)

VARIABLES
    phase,              \* "idle", "reading", "parsing" or "registering"
    file,               \* the argument of the load
    disk, recursiveIncludeGuard,
    stack,              \* the calls of readSfzFile: [path, line]
    includedFiles, defines, rootDirectory,
    aggregatedContent,  \* the tokens read so far
    position,           \* of the header that the parser looks at
    unknownOpcodes,
    opcodes,            \* globalOpcodes, masterOpcodes and groupOpcodes
    regions,            \* each with the number of its header, id
    currentRegion, lastRegion,
    preloadedData,      \* from samples to the frames of their heads
    lists,              \* the noteActivationLists and ccActivationLists, of ids
    cc, defaultSwitch,
    leftover,           \* history: what the parser had kept when the load began,
                        \* and the kinds of it that made a difference since
    built,              \* history: the regions before pruning
    past                \* history: the loads so far

environment == <<disk, recursiveIncludeGuard>>
reader == <<stack, includedFiles, defines, aggregatedContent>>
parser == <<position, unknownOpcodes, opcodes, rootDirectory>>
instrument == <<regions, preloadedData, lists, cc, defaultSwitch>>
registration == <<currentRegion, lastRegion>>
history == <<leftover, built, past>>
vars == <<phase, file, environment, reader, parser, instrument, registration, history>>

-----------------------------------------------------------------------------
(* The file system.                                                          *)

Absolute(path) == path # <<>> /\ path[1] = "/"

\* The operator / of std::filesystem.
Under(directory, path) == IF Absolute(path) THEN path ELSE directory \o path

Resolved(path) == Under(WorkingDirectory, path)

Exists(path) ==
    Resolved(path) \in DOMAIN disk.texts \cup DOMAIN disk.samples \cup disk.directories

ParentPath(path) == SubSeq(path, 1, Len(path) - 1)

\* The calls of readSfzFile that a file gives: none if it cannot be opened.
Opened(path) ==
    IF Resolved(path) \in DOMAIN disk.texts THEN <<[path |-> path, line |-> 1]>> ELSE <<>>

-----------------------------------------------------------------------------
NoLists == [notes |-> [k \in Notes |-> <<>>], ccs |-> [c \in CCs |-> <<>>]]
NoOpcodes == [global |-> <<>>, master |-> <<>>, group |-> <<>>]
NoData == [sample \in {} |-> 0]

Init ==
    /\ phase = "idle" /\ file = <<>>
    /\ disk \in Disks /\ recursiveIncludeGuard \in disk.guards
    /\ rootDirectory = WorkingDirectory
    /\ stack = <<>> /\ includedFiles = {} /\ defines = [name \in {} |-> Null]
    /\ aggregatedContent = <<>> /\ position = 1
    /\ unknownOpcodes = {} /\ opcodes = NoOpcodes
    /\ regions = <<>> /\ preloadedData = NoData /\ lists = NoLists
    /\ cc = [c \in CCs |-> 0] /\ defaultSwitch = Null
    /\ currentRegion = 0 /\ lastRegion = 0
    /\ leftover = [included |-> {}, defined |-> {}, unknown |-> {}, met |-> {}]
    /\ built = <<>> /\ past = <<>>

\* Mutant: the opcodes of the last group stay.
ClearKeepingGroup ==
    /\ regions' = <<>> /\ preloadedData' = NoData /\ lists' = NoLists
    /\ cc' = [c \in CCs |-> 0] /\ defaultSwitch' = Null
    /\ opcodes' = [NoOpcodes EXCEPT !.group = opcodes.group]

\* Synth::clear, and FilePool::clear which it calls.  What the parser keeps, and
\* unknownOpcodes, stay.
Clear ==
    /\ regions' = <<>> /\ preloadedData' = NoData /\ lists' = NoLists
    /\ cc' = [c \in CCs |-> 0] /\ defaultSwitch' = Null
    /\ opcodes' = NoOpcodes

\* The load ends.
Returns(result) ==
    /\ phase' = "idle"
    /\ past' = Append(past, [file |-> file', returned |-> result, met |-> leftover'.met,
                             root |-> rootDirectory', regions |-> regions', lists |-> lists', cc |-> cc',
                             defaultSwitch |-> defaultSwitch'])

\* The load begins.  Whether the file exists is tested under the root directory of the
\* load before; then it is opened as it is named.
Begin(path) ==
    /\ phase = "idle" /\ Len(past) < MaxLoads
    /\ file' = path
    /\ Clear
    /\ leftover' = [included |-> includedFiles, defined |-> DOMAIN defines,
                    unknown |-> leftover.unknown, met |-> {}]
    /\ built' = <<>>
    /\ IF Exists(Under(rootDirectory, path))
       THEN /\ phase' = "reading"
            /\ rootDirectory' = ParentPath(path)
            /\ stack' = Opened(path)
            /\ aggregatedContent' = <<>>
            /\ UNCHANGED past
       ELSE UNCHANGED <<rootDirectory, stack, aggregatedContent>> /\ Returns(FALSE)
    /\ UNCHANGED <<environment, includedFiles, defines, position, unknownOpcodes, registration>>

-----------------------------------------------------------------------------
(* Reading.                                                                  *)

Top == stack[Len(stack)]
Lines == disk.texts[Resolved(Top.path)]
Line == Lines[Top.line]
Advanced == [stack EXCEPT ![Len(stack)].line = @ + 1]

ReadsLine(kind) ==
    /\ phase = "reading" /\ stack # <<>> /\ Top.line <= Len(Lines)
    /\ kind \in DOMAIN Line
    /\ UNCHANGED <<phase, file, environment, parser, instrument, registration, built, past>>

\* The load is influenced by what an earlier one left, if the condition holds.
Meets(kind, condition) ==
    leftover' = IF condition THEN [leftover EXCEPT !.met = @ \cup {kind}] ELSE leftover

\* #include.  A file is included under the root directory, wherever the line stands.
Include ==
    /\ ReadsLine("include")
    /\ LET newFile == Under(rootDirectory, Line.include)
           again == newFile \in includedFiles /\ recursiveIncludeGuard
       IN /\ stack' = IF Exists(newFile) /\ ~ again THEN Advanced \o Opened(newFile)
                                                    ELSE Advanced
          /\ includedFiles' = IF Exists(newFile) THEN includedFiles \cup {newFile}
                                                 ELSE includedFiles
          /\ Meets("include", again /\ newFile \in leftover.included)
    /\ UNCHANGED <<defines, aggregatedContent>>

\* #define.
Define ==
    /\ ReadsLine("define")
    /\ stack' = Advanced
    /\ defines' = With(defines, Line.define, Line.as)
    /\ leftover' = [leftover EXCEPT !.defined = @ \ {Line.define}]
    /\ UNCHANGED <<includedFiles, aggregatedContent>>

IsHeader(token) == "header" \in DOMAIN token
Variables(token) == IF IsHeader(token) \/ token.value[1] # "variable" THEN {}
                    ELSE {token.value[2]}

\* Variables are replaced.  The dollar sign of one that is not defined is no part of a
\* value, so that the opcode vanishes.
Expansion(token) ==
    IF Variables(token) = {} THEN <<token>>
    ELSE IF Variables(token) \subseteq DOMAIN defines
         THEN <<[token EXCEPT !.value = defines[@[2]]]>>
         ELSE <<>>

Expanded(tokens) ==
    LET upTo[i \in 0..Len(tokens)] ==
            IF i = 0 THEN <<>> ELSE upTo[i - 1] \o Expansion(tokens[i])
    IN upTo[Len(tokens)]

ReadTokens ==
    /\ ReadsLine("tokens")
    /\ stack' = Advanced
    /\ aggregatedContent' = aggregatedContent \o Expanded(Line.tokens)
    /\ Meets("define", \E i \in DOMAIN Line.tokens :
                           Variables(Line.tokens[i]) \cap leftover.defined # {})
    /\ UNCHANGED <<includedFiles, defines>>

EndOfFile ==
    /\ phase = "reading" /\ stack # <<>> /\ Top.line > Len(Lines)
    /\ stack' = SubSeq(stack, 1, Len(stack) - 1)
    /\ UNCHANGED <<phase, file, environment, includedFiles, defines, aggregatedContent,
                   parser, instrument, registration, history>>

\* The index of the first header from i on.
NextHeader(i) ==
    CHOOSE j \in i..Len(aggregatedContent) + 1 :
        /\ j <= Len(aggregatedContent) => IsHeader(aggregatedContent[j])
        /\ \A k \in i..j - 1 : ~ IsHeader(aggregatedContent[k])

Members(i) == SubSeq(aggregatedContent, i + 1, NextHeader(i + 1) - 1)

\* What an unknown name reads as that is the name of no opcode.
NoName == "?"

Names(tokens) == {tokens[i].name : i \in {j \in DOMAIN tokens : ~ IsHeader(tokens[j])}}

\* The text of the load before is freed, and unknownOpcodes holds views of it: each
\* reads as anything from here on.  Text before the first header is dropped.
EndOfText ==
    /\ phase = "reading" /\ stack = <<>>
    /\ phase' = "parsing" /\ position' = NextHeader(1)
    /\ unknownOpcodes' \in
           IF unknownOpcodes = {} THEN {{}}
           ELSE {{NoName} \cup names : names \in
                    {some \in SUBSET Names(aggregatedContent) :
                        Cardinality(some) <= Cardinality(unknownOpcodes)}}
    /\ leftover' = [leftover EXCEPT !.unknown = unknownOpcodes']
    /\ UNCHANGED <<file, environment, reader, opcodes, rootDirectory, instrument,
                   registration, built, past>>

-----------------------------------------------------------------------------
(* Parsing.                                                                  *)

Seqs == INSTANCE SequencesExt

Header == aggregatedContent[position].header

ParsesHeader(names) ==
    /\ phase = "parsing" /\ position <= Len(aggregatedContent)
    /\ Header \in names
    /\ position' = NextHeader(position + 1)
    /\ UNCHANGED <<phase, file, environment, reader, preloadedData, lists, registration, past>>

\* handleGlobalOpcodes.
DefaultSwitchAfter(old, opcode) ==
    IF opcode.name = "sw_default" /\ Read(opcode.value, 0, 127) # Null
    THEN Read(opcode.value, 0, 127) ELSE old

ParseInherited ==
    /\ ParsesHeader({"global", "master", "group"})
    /\ opcodes' = [opcodes EXCEPT ![Header] = Members(position)]
    /\ defaultSwitch' = IF Header = "global"
                        THEN Seqs!FoldLeft(DefaultSwitchAfter, defaultSwitch, Members(position))
                        ELSE defaultSwitch
    /\ UNCHANGED <<unknownOpcodes, rootDirectory, regions, cc, leftover, built>>

\* handleControlOpcodes.
CCAfter(old, opcode) ==
    LET x == Read(opcode.value, 0, 127)
    IN IF opcode.name \in {"set_cc", "Set_cc"} /\ Parameter(opcode) \in CCs /\ x # Null
       THEN [old EXCEPT ![Parameter(opcode)] = x]
       ELSE old

RootAfter(old, opcode) ==
    IF opcode.name \in {"default_path", "Default_path"} /\ Exists(opcode.value[2])
    THEN opcode.value[2] ELSE old

ParseControl ==
    /\ ParsesHeader({"control"})
    /\ cc' = Seqs!FoldLeft(CCAfter, cc, Members(position))
    /\ rootDirectory' = Seqs!FoldLeft(RootAfter, rootDirectory, Members(position))
    /\ UNCHANGED <<unknownOpcodes, opcodes, regions, defaultSwitch, leftover, built>>

\* One opcode of buildRegion.
Handed(acc, opcode) ==
    IF opcode.name \in acc.unknown THEN acc
    ELSE IF Recognised(opcode)
         THEN [acc EXCEPT !.region = ParseOpcode(@, opcode)]
         ELSE [acc EXCEPT !.unknown = @ \cup {opcode.name}]

\* All of them, given to a new region.
Collected(given) ==
    LET after[i \in 0..Len(given)] ==
            IF i = 0 THEN [region |-> NewRegion, unknown |-> unknownOpcodes]
            ELSE Handed(after[i - 1], given[i])
    IN after[Len(given)]

\* Mutant: a master counts after its group.
InheritedSwapped == opcodes.global \o opcodes.group \o opcodes.master

Inherited == opcodes.global \o opcodes.master \o opcodes.group

\* buildRegion.
BuildRegion ==
    /\ ParsesHeader({"region"})
    /\ LET all == Inherited \o Members(position)
           result == Collected(all)
           region == With(result.region, "id", Len(regions) + 1)
       IN /\ regions' = Append(regions, region)
          /\ built' = Append(built, region)
          /\ unknownOpcodes' = result.unknown
          /\ Meets("unknown", leftover.unknown \cap Names(all) # {})
    /\ UNCHANGED <<opcodes, rootDirectory, cc, defaultSwitch>>

\* Curves, effects and unknown headers.
ParseOther ==
    /\ ParsesHeader({"curve", "effect", "unknown"})
    /\ UNCHANGED <<unknownOpcodes, opcodes, rootDirectory, regions, cc, defaultSwitch,
                   leftover, built>>

EndOfParse ==
    /\ phase = "parsing" /\ position > Len(aggregatedContent)
    /\ UNCHANGED <<file, environment, reader, parser, instrument, leftover, built>>
    /\ IF regions = <<>>
       THEN Returns(FALSE) /\ UNCHANGED registration
       ELSE /\ phase' = "registering"
            /\ currentRegion' = 1 /\ lastRegion' = Len(regions)
            /\ UNCHANGED past

-----------------------------------------------------------------------------
(* Registering.                                                              *)

IsGenerator(region) == region.sample[2] \in Generators
SampleUnder(root, region) == Resolved(Under(root, region.sample[2]))
SamplePath(region) == SampleUnder(rootDirectory, region)

\* getFileInformation: what there is to know of a sample, {} if nothing.  The loop of a
\* file without an instrument chunk is what the memory of the structure held.
NoLoop == <<0, Largest>>
LoopsOf(sample) ==
    IF ~ sample.instrument THEN {NoLoop} \cup Garbage
    ELSE {IF sample.loop = Null THEN NoLoop ELSE sample.loop}

SamplesFor(region) ==
    IF SamplePath(region) \notin DOMAIN disk.samples THEN {}
    ELSE {s \in {disk.samples[SamplePath(region)]} : s.channels \in {1, 2}}

\* Frames to preload: the arithmetic is that of uint32_t.
PreloadedSize(region, frames) ==
    Least(frames, (region.offset + region.offsetRandom + PreloadSize) % (Largest + 1))

\* Mutant: a sample that is preloaded already is never read again.
HeadFramesFirst(region, frames) ==
    IF region.sample \in DOMAIN preloadedData THEN preloadedData[region.sample]
    ELSE PreloadedSize(region, frames)

\* The head that the region gets.  A longer one than the pool has is for this region
\* only: the pool keeps its own.
HeadFrames(region, frames) ==
    IF region.sample \in DOMAIN preloadedData
    THEN Greatest(preloadedData[region.sample], PreloadedSize(region, frames))
    ELSE PreloadedSize(region, frames)

\* The region with what the file says, for each loop that it may say.
WithSample(region) ==
    IF IsGenerator(region) THEN {region}
    ELSE {[region EXCEPT !.sampleEnd = Least(@, info[1].frames),
                         !.loopRange = ShrinkIfSmaller(@, info[2][1], info[2][2]),
                         !.preloadedData = HeadFrames(region, info[1].frames)] :
             info \in UNION {{s} \X LoopsOf(s) : s \in SamplesFor(region)}}

\* addEndpointsToVelocityCurve.  The sort is not stable.
ByVelocity(points) ==
    {[i \in DOMAIN points |-> points[order[i]]] :
        order \in {f \in [DOMAIN points -> DOMAIN points] :
                      \A i, j \in DOMAIN points :
                          i < j => f[i] # f[j] /\ points[f[i]][1] <= points[f[j]][1]}}

WithEndpoints(points, ampVeltrack) ==
    LET first == points[1][1]  last == points[Len(points)][1] IN
    IF points = <<>> THEN points
    ELSE IF ampVeltrack > 0
         THEN (IF first = 0 THEN <<>> ELSE <<<<0, 0>>>>) \o points
                  \o (IF last = 127 THEN <<>> ELSE <<<<127, RandOne>>>>)
         ELSE (IF first = 127 THEN <<>> ELSE <<<<127, 0>>>>) \o points
                  \o (IF last = 0 THEN <<>> ELSE <<<<0, RandOne>>>>)

\* The switches as the opcodes left them.
ParsedState(region) ==
    [InitialState(region) EXCEPT !.keySwitched = region.keySwitched,
                                 !.previousKeySwitched = region.previousKeySwitched,
                                 !.sequenceSwitched = region.sequenceSwitched]

InNoteList(region, k) ==
    ContainsWithEnd(region.keyRange, k) \/ ContainsWithEnd(region.keyswitchRange, k)

InCCList(region, c) == c \in DOMAIN region.ccTriggers \cup DOMAIN region.ccConditions

\* The region goes into the lists of these keys or controllers.
Listed(list, keys, region) ==
    [k \in DOMAIN list |-> IF k \in keys THEN Append(list[k], region.id) ELSE list[k]]

Current == regions[currentRegion]
IsPlayable(region) == IsGenerator(region) \/ SamplesFor(region) # {}

Registers(playable) ==
    /\ phase = "registering" /\ currentRegion <= lastRegion
    /\ IsPlayable(Current) = playable
    /\ UNCHANGED <<phase, file, environment, reader, parser, cc, defaultSwitch, history>>

RegisterRegion ==
    /\ Registers(TRUE)
    /\ \E region \in WithSample(Current), points \in ByVelocity(Current.velocityPoints) :
          /\ regions' = [regions EXCEPT ![currentRegion] =
                With([region EXCEPT !.velocityPoints = WithEndpoints(points, region.ampVeltrack)],
                     "state", Registered(region, ParsedState(region), cc, defaultSwitch))]
          /\ preloadedData' = IF IsGenerator(region) \/ region.sample \in DOMAIN preloadedData
                              THEN preloadedData
                              ELSE With(preloadedData, region.sample, region.preloadedData)
    /\ lists' =
           [notes |-> Listed(lists.notes, {k \in Notes : InNoteList(Current, k)}, Current),
            ccs |-> Listed(lists.ccs, {c \in CCs : InCCList(Current, c)}, Current)]
    /\ currentRegion' = currentRegion + 1
    /\ UNCHANGED lastRegion

\* Mutant: the region that takes the place of the removed one is passed over.
RemoveRegionAndGoOn ==
    /\ Registers(FALSE)
    /\ regions' = [regions EXCEPT ![currentRegion] = regions[lastRegion],
                                  ![lastRegion] = Current]
    /\ lastRegion' = lastRegion - 1 /\ currentRegion' = currentRegion + 1
    /\ UNCHANGED <<preloadedData, lists>>

\* A region without its sample changes places with the last one.
RemoveRegion ==
    /\ Registers(FALSE)
    /\ regions' = [regions EXCEPT ![currentRegion] = regions[lastRegion],
                                  ![lastRegion] = Current]
    /\ lastRegion' = lastRegion - 1
    /\ UNCHANGED <<preloadedData, lists, currentRegion>>

\* The regions after the last one are destroyed.
EndOfLoad ==
    /\ phase = "registering" /\ currentRegion > lastRegion
    /\ regions' = SubSeq(regions, 1, lastRegion)
    /\ UNCHANGED <<file, environment, reader, parser, preloadedData, lists, cc,
                   defaultSwitch, registration, leftover, built>>
    /\ Returns(TRUE)

-----------------------------------------------------------------------------
Step ==
    \/ Include \/ Define \/ ReadTokens \/ EndOfFile \/ EndOfText
    \/ ParseInherited \/ ParseControl \/ BuildRegion \/ ParseOther \/ EndOfParse
    \/ RegisterRegion \/ RemoveRegion \/ EndOfLoad

Next == Step \/ \E path \in HostFiles : Begin(path)

Spec == Init /\ [][Next]_vars

-----------------------------------------------------------------------------
(* Properties.                                                               *)

\* What a region header at index i inherits: the last header of each kind before it.
LastMembers(header, i) ==
    LET before == {j \in 1..i - 1 : IsHeader(aggregatedContent[j])
                                    /\ aggregatedContent[j].header = header}
    IN IF before = {} THEN <<>>
       ELSE Members(CHOOSE j \in before : \A k \in before : k <= j)

RegionHeaders == {i \in DOMAIN aggregatedContent : IsHeader(aggregatedContent[i])
                                                  /\ aggregatedContent[i].header = "region"}
HeaderOf(n) ==
    CHOOSE i \in RegionHeaders : Cardinality({j \in RegionHeaders : j <= i}) = n

OpcodesOf(n) ==
    LastMembers("global", HeaderOf(n)) \o LastMembers("master", HeaderOf(n))
        \o LastMembers("group", HeaderOf(n)) \o Members(HeaderOf(n))

\* An opcode whose value is of use to it.
IsReadable(opcode) ==
    LET s == Settings[opcode.name] IN
    CASE s.kind = "choice" -> opcode.value[1] = "word" /\ opcode.value[2] \in s.words
      [] s.kind \in {"value", "start", "end", "key"} -> Read(opcode.value, s.lo, s.hi) # Null
      [] s.kind \in {"startOfCC", "endOfCC"} ->
             Parameter(opcode) # Null /\ Read(opcode.value, s.lo, s.hi) # Null
      [] s.kind = "point" -> Parameter(opcode) # Null /\ opcode.value[1] = "number"
      [] OTHER -> TRUE

\* The members that an opcode is about.
About(opcode) ==
    IF ~ Recognised(opcode) \/ opcode.name \in Ignored THEN {}
    ELSE {Settings[opcode.name].member}
             \cup (IF opcode.name = "key" THEN {"pitchKeycenter"} ELSE {})

\* The member m of a region is as the opcode says, as if it were the only one.
SaidBy(opcode, m, value) ==
    LET s == Settings[opcode.name]
        x == Read(opcode.value, s.lo, s.hi)
    IN CASE s.kind = "start" -> value[1] = x /\ value[1] <= value[2]
         [] s.kind = "end" -> value[2] = x /\ value[1] <= value[2]
         [] m = "pitchKeycenter" -> value = x
         [] s.kind = "startOfCC" -> value[Parameter(opcode)][1] = x /\ x <= value[Parameter(opcode)][2]
         [] s.kind = "endOfCC" -> value[Parameter(opcode)][2] = x /\ x >= value[Parameter(opcode)][1]
         [] s.kind = "point" -> value[Len(value)] = <<Parameter(opcode), x>>
         [] OTHER -> value = NewValue(s, opcode, NewRegion[m])

\* Each member of a region is as the last opcode about it says, of those of its global,
\* master, group and region headers, in this order; without one it has its default.  An
\* opcode is passed over only if there was one of its name with a wrong parameter, or if
\* its name is unknown from an earlier load.
OpcodesTakeEffect ==
    /\ \A n \in DOMAIN built :
        LET given == OpcodesOf(n)
            useful == {i \in DOMAIN given : About(given[i]) # {} /\ IsReadable(given[i])}
        IN \A m \in DOMAIN NewRegion \ DOMAIN SwitchDefaults :
            LET about == {i \in useful : m \in About(given[i])} IN
            IF \E i \in about : given[i].name \in unknownOpcodes THEN TRUE
            ELSE IF about = {} THEN m \in CCMembers \/ built[n][m] = NewRegion[m]
            ELSE SaidBy(given[CHOOSE i \in about : \A j \in about : j <= i], m, built[n][m])
    /\ phase # "reading" => \A name \in unknownOpcodes \cap DOMAIN Settings :
        \/ name \in leftover.unknown
        \/ \E i \in DOMAIN aggregatedContent :
              /\ ~ IsHeader(aggregatedContent[i])
              /\ aggregatedContent[i].name = name /\ ~ Recognised(aggregatedContent[i])

\* An instrument has been loaded, and no load has begun since.
Loaded == phase = "idle" /\ past # <<>> /\ past[Len(past)].returned

\* The regions that a load keeps are exactly those that are generators or have their
\* sample, each once; and the lists hold no region that was destroyed, and none twice.
InstrumentIsComplete ==
    Loaded =>
        LET kept == {regions[i].id : i \in DOMAIN regions} IN
        /\ kept = {n \in DOMAIN built : IsPlayable(built[n])}
        /\ Cardinality(kept) = Len(regions)
        /\ \A list \in {lists.notes[k] : k \in Notes} \cup {lists.ccs[c] : c \in CCs} :
            /\ {list[i] : i \in DOMAIN list} \subseteq kept
            /\ Cardinality({list[i] : i \in DOMAIN list}) = Len(list)

\* What a voice relies on in a region with a sample: it ends within the file, its head
\* covers the offsets that it may start with, whatever regions share the sample, and its
\* loop is within that of the file.  A velocity curve with positive tracking covers all
\* velocities, in order.  Left out are the head of a region whose offsets and preload size
\* are together beyond uint32_t (the sum wraps, and the head is too short), and the
\* loop of a file without an instrument chunk (whatever the structure held).
IsReady(r) ==
    LET wanted == r.offset + r.offsetRandom + PreloadSize
        points == r.velocityPoints
    IN /\ \A s \in SamplesFor(r) : ~ IsGenerator(r) =>
            /\ r.sampleEnd <= s.frames /\ r.preloadedData <= s.frames
            /\ wanted <= Largest => r.preloadedData >= Least(s.frames, wanted)
            /\ s.instrument /\ s.loop # Null =>
                  /\ r.loopRange[1] >= Least(s.loop[1], s.loop[2])
                  /\ r.loopRange[2] <= Greatest(s.loop[1], s.loop[2])
       /\ points # <<>> /\ r.ampVeltrack > 0 =>
            /\ points[1][1] = 0 /\ points[Len(points)][1] = 127
            /\ \A j \in 1..Len(points) - 1 : points[j][1] <= points[j + 1][1]

\* Every region of a loaded instrument is ready.
SoundsAreReady == Loaded => \A i \in DOMAIN regions : IsReady(regions[i])

\* A loop that a load does not determine: that of a region whose own sample, where that
\* load found it, has no instrument chunk.
LoopIsGarbage(load, region) ==
    /\ ~ IsGenerator(region)
    /\ SampleUnder(load.root, region) \in DOMAIN disk.samples
    /\ ~ disk.samples[SampleUnder(load.root, region)].instrument

\* A load of the same file gives the same instrument, region by region with its loop, its
\* head and its switches: clear leaves nothing of the load before that the next one builds
\* on.  Left out are loads that met something the parser had kept (a guarded
\* include, a define, an unknown name), relative paths, which can name another file the
\* second time, and the loops that no load determines; the order of points of the same
\* velocity is the sort's.
ReloadIsSame ==
    LET Points(region) == {region.velocityPoints[i] : i \in DOMAIN region.velocityPoints}
        Plain(load, region) ==
            <<[region EXCEPT !.velocityPoints = <<>>,
                             !.loopRange = IF LoopIsGarbage(load, region) THEN Null ELSE @],
              Points(region)>>
        Result(load) == <<load.returned, load.lists, load.cc, load.defaultSwitch,
                          [i \in DOMAIN load.regions |-> Plain(load, load.regions[i])]>>
    IN \A i, j \in DOMAIN past :
        past[i].file = past[j].file /\ Absolute(past[i].file)
            /\ past[i].met = {} /\ past[j].met = {} => Result(past[i]) = Result(past[j])

=============================================================================
