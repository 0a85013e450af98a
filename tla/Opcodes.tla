--------------------------------- MODULE Opcodes ---------------------------------
(*****************************************************************************)
(* The opcodes of a region: what Region::parseOpcode does with each of them. *)
(*                                                                           *)
(* An opcode is a record of its name, its parameter (the number at the end   *)
(* of the name, or Null) and its value, which is <<"number", n>>,            *)
(* <<"note", n>> for a note name such as c#4, <<"word", w>>, or              *)
(* <<"path", p>> where p is a sequence of names.  Numbers are whole: the     *)
(* fraction that an integer opcode drops is left out, and opcodes between 0  *)
(* and 1 are in hundredths (RandOne).  A region is a record of the members   *)
(* of Region, so that the operators of Region apply to it.                   *)
(*****************************************************************************)
EXTENDS Region, Sequences, TLC

CONSTANT Largest            \* the largest uint32_t

ASSUME LargestAssumption == Largest \in Nat /\ Largest >= 127

Least(a, b) == IF a < b THEN a ELSE b
Greatest(a, b) == IF a > b THEN a ELSE b

\* The functions f and g in one.
Joined(f, g) == [x \in DOMAIN f \cup DOMAIN g |-> IF x \in DOMAIN f THEN f[x] ELSE g[x]]

\* The function f with the value y at x.
With(f, x, y) == [z \in DOMAIN f \cup {x} |-> IF z = x THEN y ELSE f[z]]

-----------------------------------------------------------------------------
(* Ranges, <<start, end>>.                                                   *)

SetStart(range, x) == <<x, Greatest(x, range[2])>>
SetEnd(range, x) == <<Least(range[1], x), x>>

\* The new ends can be on either side: a range shrunk to one that it does not meet
\* ends before it starts.
ShrinkIfSmaller(range, a, b) ==
    <<Greatest(range[1], Least(a, b)), Least(range[2], Greatest(a, b))>>

-----------------------------------------------------------------------------
(* The table of the opcodes.  A setting is the member that the opcode sets,  *)
(* how, and the range to which a number is clamped.                          *)

Setting(kind, member, lo, hi) == [kind |-> kind, member |-> member, lo |-> lo, hi |-> hi]

Value(member, lo, hi) == Setting("value", member, lo, hi)
Start(member, lo, hi) == Setting("start", member, lo, hi)
End(member, lo, hi) == Setting("end", member, lo, hi)
Pair(member, lo, hi) == Setting("pair", member, lo, hi)
StartOfCC(member) == Setting("startOfCC", member, 0, 127)
EndOfCC(member) == Setting("endOfCC", member, 0, 127)
Choice(member, words) == [kind |-> "choice", member |-> member, words |-> words]
Switch(member) == [kind |-> "switch", member |-> member]

SoundSource == [
    sample |-> [kind |-> "text", member |-> "sample"],
    delay |-> Value("delay", 0, 100), delay_random |-> Value("delayRandom", 0, 100),
    offset |-> Value("offset", 0, Largest),
    offset_random |-> Value("offsetRandom", 0, Largest),
    end |-> Value("sampleEnd", 0, Largest), count |-> Value("sampleCount", 0, Largest),
    loopmode |-> Choice("loopMode", {"no_loop", "one_shot", "loop_continuous", "loop_sustain"}),
    loop_mode |-> Choice("loopMode", {"no_loop", "one_shot", "loop_continuous", "loop_sustain"}),
    loopend |-> End("loopRange", 0, Largest), loop_end |-> End("loopRange", 0, Largest),
    loopstart |-> Start("loopRange", 0, Largest), loop_start |-> Start("loopRange", 0, Largest),
    group |-> Value("group", 0, Largest),
    offby |-> Value("offBy", 0, Largest), off_by |-> Value("offBy", 0, Largest),
    off_mode |-> Choice("offMode", {"fast", "normal"})]

\* key is a setting of its own: see ParseKey.
Conditions == [
    lokey |-> Start("keyRange", 0, 127), hikey |-> End("keyRange", 0, 127),
    key |-> [kind |-> "key", member |-> "keyRange", lo |-> 0, hi |-> 127],
    lovel |-> Start("velocityRange", 0, 127), hivel |-> End("velocityRange", 0, 127),
    lochan |-> Start("channelRange", 1, 16), hichan |-> End("channelRange", 1, 16),
    lobend |-> Start("bendRange", -8192, 8192), hibend |-> End("bendRange", -8192, 8192),
    locc |-> StartOfCC("ccConditions"), hicc |-> EndOfCC("ccConditions"),
    sw_lokey |-> Start("keyswitchRange", 0, 127), sw_hikey |-> End("keyswitchRange", 0, 127),
    sw_last |-> Value("keyswitch", 0, 127), sw_down |-> Value("keyswitchDown", 0, 127),
    sw_up |-> Value("keyswitchUp", 0, 127), sw_previous |-> Value("previousNote", 0, 127),
    sw_vel |-> Choice("velocityOverride", {"current", "previous"}),
    sustain_sw |-> Switch("checkSustain"), sostenuto_sw |-> Switch("checkSostenuto"),
    lochanaft |-> Start("aftertouchRange", 0, 127), hichanaft |-> End("aftertouchRange", 0, 127),
    lobpm |-> Start("bpmRange", 0, 500), hibpm |-> End("bpmRange", 0, 500),
    lorand |-> Start("randRange", 0, RandOne), hirand |-> End("randRange", 0, RandOne),
    seq_length |-> Value("sequenceLength", 1, 100),
    seq_position |-> Value("sequencePosition", 1, 100),
    trigger |-> Choice("trigger", Triggers),
    on_locc |-> StartOfCC("ccTriggers"), on_hicc |-> EndOfCC("ccTriggers")]

Curve == {"power", "gain"}

Amplifier == [
    volume |-> Value("volume", -144, 6), amplitude |-> Value("amplitude", 0, 100),
    amplitude_cc |-> Pair("amplitudeCC", 0, 100), amplitude_oncc |-> Pair("amplitudeCC", 0, 100),
    pan |-> Value("pan", -100, 100), pan_oncc |-> Pair("panCC", -200, 200),
    position |-> Value("position", -100, 100), position_oncc |-> Pair("positionCC", -200, 200),
    width |-> Value("width", -100, 100), width_oncc |-> Pair("widthCC", -200, 200),
    amp_keycenter |-> Value("ampKeycenter", 0, 127), amp_keytrack |-> Value("ampKeytrack", -96, 12),
    amp_veltrack |-> Value("ampVeltrack", -100, 100), amp_random |-> Value("ampRandom", 0, 24),
    amp_velcurve_ |-> Setting("point", "velocityPoints", 0, RandOne),
    xfin_lokey |-> Start("crossfadeKeyInRange", 0, 127),
    xfin_hikey |-> End("crossfadeKeyInRange", 0, 127),
    xfout_lokey |-> Start("crossfadeKeyOutRange", 0, 127),
    xfout_hikey |-> End("crossfadeKeyOutRange", 0, 127),
    xfin_lovel |-> Start("crossfadeVelInRange", 0, 127),
    xfin_hivel |-> End("crossfadeVelInRange", 0, 127),
    xfout_lovel |-> Start("crossfadeVelOutRange", 0, 127),
    xfout_hivel |-> End("crossfadeVelOutRange", 0, 127),
    xf_keycurve |-> Choice("crossfadeKeyCurve", Curve),
    xf_velcurve |-> Choice("crossfadeVelCurve", Curve),
    xf_cccurve |-> Choice("crossfadeCCCurve", Curve),
    xfin_locc |-> StartOfCC("crossfadeCCInRange"), xfin_hicc |-> EndOfCC("crossfadeCCInRange"),
    xfout_locc |-> StartOfCC("crossfadeCCOutRange"), xfout_hicc |-> EndOfCC("crossfadeCCOutRange"),
    rt_decay |-> Value("rtDecay", 0, 200)]

Pitch == [
    pitch_keycenter |-> Value("pitchKeycenter", 0, 127),
    pitch_keytrack |-> Value("pitchKeytrack", -1200, 1200),
    pitch_veltrack |-> Value("pitchVeltrack", -9600, 9600),
    pitch_random |-> Value("pitchRandom", 0, 9600),
    transpose |-> Value("transpose", -127, 127), tune |-> Value("tune", -100, 100)]

EnvelopeTimes == [
    ampeg_attack |-> Value("egAttack", 0, 100), ampeg_decay |-> Value("egDecay", 0, 100),
    ampeg_delay |-> Value("egDelay", 0, 100), ampeg_hold |-> Value("egHold", 0, 100),
    ampeg_release |-> Value("egRelease", 0, 100), ampeg_start |-> Value("egStart", 0, 100),
    ampeg_sustain |-> Value("egSustain", 0, 100),
    ampeg_vel2attack |-> Value("vel2attack", -100, 100),
    ampeg_vel2decay |-> Value("vel2decay", -100, 100),
    ampeg_vel2delay |-> Value("vel2delay", -100, 100),
    ampeg_vel2hold |-> Value("vel2hold", -100, 100),
    ampeg_vel2release |-> Value("vel2release", -100, 100),
    ampeg_vel2sustain |-> Value("vel2sustain", -100, 100),
    ampeg_attack_oncc |-> Pair("ccAttack", -100, 100),
    ampeg_decay_oncc |-> Pair("ccDecay", -100, 100),
    ampeg_delay_oncc |-> Pair("ccDelay", -100, 100),
    ampeg_hold_oncc |-> Pair("ccHold", -100, 100),
    ampeg_release_oncc |-> Pair("ccRelease", -100, 100),
    ampeg_start_oncc |-> Pair("ccStart", -100, 100),
    ampeg_sustain_oncc |-> Pair("ccSustain", -100, 100)]

Ignored == {"ampeg_depth", "ampeg_vel2depth"}

Settings ==
    Joined(SoundSource, Joined(Conditions, Joined(Amplifier, Joined(Pitch, EnvelopeTimes))))

-----------------------------------------------------------------------------
(* A region as it is made, before any opcode.                                *)

NoCC == [cc \in {} |-> <<0, 127>>]

SoundDefaults == [
    sample |-> <<"path", <<>>>>, delay |-> 0, delayRandom |-> 0, offset |-> 0, offsetRandom |-> 0,
    sampleEnd |-> Largest, sampleCount |-> Null, loopMode |-> "no_loop",
    loopRange |-> <<0, Largest>>, group |-> 0, offBy |-> Null, offMode |-> "fast",
    preloadedData |-> Null]

ConditionDefaults == [
    keyRange |-> <<0, 127>>, velocityRange |-> <<0, 127>>, channelRange |-> <<1, 16>>,
    bendRange |-> <<-8192, 8192>>, ccConditions |-> NoCC, keyswitchRange |-> <<0, 127>>,
    keyswitch |-> Null, keyswitchUp |-> Null, keyswitchDown |-> Null, previousNote |-> Null,
    velocityOverride |-> "current", checkSustain |-> TRUE, checkSostenuto |-> TRUE,
    aftertouchRange |-> <<0, 127>>, bpmRange |-> <<0, 500>>, randRange |-> <<0, RandOne>>,
    sequenceLength |-> 1, sequencePosition |-> 1, trigger |-> "attack", ccTriggers |-> NoCC]

SwitchDefaults == [
    keySwitched |-> TRUE, previousKeySwitched |-> TRUE, sequenceSwitched |-> TRUE]

AmplifierDefaults == [
    volume |-> -3, amplitude |-> 100, pan |-> 0, width |-> 0, position |-> 0,
    amplitudeCC |-> Null, panCC |-> Null, widthCC |-> Null, positionCC |-> Null,
    ampKeycenter |-> 60, ampKeytrack |-> 0, ampVeltrack |-> 100, velocityPoints |-> <<>>,
    ampRandom |-> 0, crossfadeKeyInRange |-> <<0, 0>>, crossfadeKeyOutRange |-> <<127, 127>>,
    crossfadeVelInRange |-> <<0, 0>>, crossfadeVelOutRange |-> <<127, 127>>,
    crossfadeKeyCurve |-> "power", crossfadeVelCurve |-> "power", crossfadeCCCurve |-> "power",
    crossfadeCCInRange |-> NoCC, crossfadeCCOutRange |-> NoCC, rtDecay |-> 0,
    pitchKeycenter |-> 60, pitchKeytrack |-> 100, pitchRandom |-> 0, pitchVeltrack |-> 0,
    transpose |-> 0, tune |-> 0]

EnvelopeDefaults == [
    egAttack |-> 0, egDecay |-> 0, egDelay |-> 0, egHold |-> 0, egRelease |-> 0,
    egStart |-> 0, egSustain |-> 100, vel2attack |-> 0, vel2decay |-> 0, vel2delay |-> 0,
    vel2hold |-> 0, vel2release |-> 0, vel2sustain |-> 0, ccAttack |-> Null,
    ccDecay |-> Null, ccDelay |-> Null, ccHold |-> Null, ccRelease |-> Null,
    ccStart |-> Null, ccSustain |-> Null]

NewRegion ==
    Joined(SoundDefaults, Joined(ConditionDefaults, Joined(SwitchDefaults,
        Joined(AmplifierDefaults, EnvelopeDefaults))))

CCMembers == {"ccConditions", "ccTriggers", "crossfadeCCInRange", "crossfadeCCOutRange"}

\* The range that a map from controllers gives a new controller.
DefaultOfCC(member) ==
    CASE member = "crossfadeCCInRange" -> <<0, 0>>
      [] member = "crossfadeCCOutRange" -> <<127, 127>>
      [] OTHER -> <<0, 127>>

-----------------------------------------------------------------------------
(* Parsing one opcode.                                                       *)

Clamp(x, lo, hi) == Greatest(lo, Least(x, hi))

\* What readOpcode, and else readNoteValue, make of a value; Null if nothing.  A note
\* name is not clamped to the range of the opcode.
Read(value, lo, hi) ==
    CASE value[1] = "number" -> Clamp(value[2], lo, hi)
      [] value[1] = "note" -> value[2]
      [] OTHER -> Null

\* Opcode's constructor keeps the parameter in a uint8_t.
Parameter(opcode) == IF opcode.parameter = Null THEN Null ELSE opcode.parameter % 256

\* What parseOpcode returns.
Recognised(opcode) ==
    /\ Parameter(opcode) # Null => Parameter(opcode) <= 127
    /\ opcode.name \in DOMAIN Settings \cup Ignored

\* The value that an opcode gives to its member, which has the value old.
NewValue(s, opcode, old) ==
    LET value == opcode.value
        x == Read(value, s.lo, s.hi)
        cc == Parameter(opcode)
        range == IF cc \in DOMAIN old THEN old[cc] ELSE DefaultOfCC(s.member)
    IN CASE s.kind = "text" -> value
         [] s.kind = "choice" -> IF value[1] = "word" /\ value[2] \in s.words THEN value[2] ELSE old
         [] s.kind = "switch" -> value # <<"word", "off">>
         [] s.kind = "value" -> IF x = Null THEN old ELSE x
         [] s.kind = "start" -> IF x = Null THEN old ELSE SetStart(old, x)
         [] s.kind = "end" -> IF x = Null THEN old ELSE SetEnd(old, x)
         [] s.kind = "key" -> IF x = Null THEN old ELSE SetEnd(SetStart(old, x), x)
         [] s.kind = "startOfCC" ->
                IF cc = Null THEN old
                ELSE With(old, cc, IF x = Null THEN range ELSE SetStart(range, x))
         [] s.kind = "endOfCC" ->
                IF cc = Null THEN old
                ELSE With(old, cc, IF x = Null THEN range ELSE SetEnd(range, x))
         [] s.kind = "pair" -> IF value[1] = "number" /\ cc # Null THEN <<cc, x>> ELSE Null
         [] s.kind = "point" ->
                IF value[1] = "number" /\ cc # Null THEN Append(old, <<cc, x>>) ELSE old

\* Some opcodes also turn a switch off, whatever their value; seq_position=1 turns its
\* switch on, if the value is written like this.
Switched(region, opcode) ==
    [region EXCEPT
        !.keySwitched = @ /\ opcode.name \notin {"sw_last", "sw_down"},
        !.previousKeySwitched = @ /\ opcode.name # "sw_previous",
        !.sequenceSwitched = IF opcode.name = "seq_position"
                             THEN opcode.value = <<"number", 1>> ELSE @]

\* key also sets the centre of the pitch.
KeyCentred(region, opcode) ==
    IF opcode.name = "key" /\ Read(opcode.value, 0, 127) # Null
    THEN [region EXCEPT !.pitchKeycenter = Read(opcode.value, 0, 127)]
    ELSE region

\* The region after parseOpcode.
ParseOpcode(region, opcode) ==
    IF ~ Recognised(opcode) \/ opcode.name \in Ignored THEN region
    ELSE LET s == Settings[opcode.name]
             set == [region EXCEPT ![s.member] = NewValue(s, opcode, @)]
         IN KeyCentred(Switched(set, opcode), opcode)

=================================================================================
