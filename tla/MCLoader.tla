--------------------------------- MODULE MCLoader ---------------------------------
(*****************************************************************************)
(* Instruments to load: one for each opcode and value, one for each two      *)
(* opcodes about the same member, and some that combine headers, includes,   *)
(* defines, samples and wrong input.                                         *)
(*****************************************************************************)
EXTENDS Loader

Op(name, parameter, value) == [name |-> name, parameter |-> parameter, value |-> value]
Num(name, n) == Op(name, Null, <<"number", n>>)
CC(name, c, n) == Op(name, c, <<"number", n>>)
Wrd(name, w) == Op(name, Null, <<"word", w>>)
Pth(name, p) == Op(name, Null, <<"path", p>>)
H(name) == [header |-> name]
Sine == Pth("sample", <<"*sine">>)

Main == <<"/", "main">>
Text(lines) == Main :> lines
Tokens(tokens) == [tokens |-> tokens]

Samples ==
    <<"/", "long">> :> [frames |-> 20, channels |-> 2, instrument |-> TRUE, loop |-> Null]
    @@ <<"/", "looped">> :> [frames |-> 12, channels |-> 1, instrument |-> TRUE, loop |-> <<3, 9>>]
    @@ <<"/", "bare">> :> [frames |-> 9, channels |-> 1, instrument |-> FALSE, loop |-> Null]
    @@ <<"/", "surround">> :> [frames |-> 9, channels |-> 6, instrument |-> TRUE, loop |-> Null]
    @@ <<"/", "dir", "long">> :> [frames |-> 5, channels |-> 1, instrument |-> TRUE, loop |-> Null]

Disk(texts, guards) ==
    [texts |-> texts, samples |-> Samples, directories |-> {<<"/">>, <<"/", "dir">>},
     guards |-> guards]

One(tokens) == Disk(Text(<<Tokens(tokens)>>), {FALSE})

-----------------------------------------------------------------------------
(* Single opcodes, and a region without any.                                 *)

Words(s) == IF s.kind = "choice" THEN s.words \cup {"off"} ELSE {"off", "on"}

ValuesOf(s) ==
    ({"number"} \X {-20000, -7, 0, 1, 60, 128, 20000}) \cup {<<"note", 61>>}
        \cup ({"word"} \X Words(s))

Singles ==
    {One(<<H("region"), Sine>> \o opcode) : opcode \in
        {<<>>} \cup {<<Op(name, parameter, value)>> : name \in Ignored, parameter \in {Null, 200},
                                             value \in {<<"number", 5>>}}
        \cup UNION {{<<Op(name, parameter, value)>> :
                        parameter \in {Null, 7, 200}, value \in ValuesOf(Settings[name])} :
                    name \in DOMAIN Settings \ {"sample"}}}

\* Two opcodes about the same member, in a master and its group.
Doubles ==
    UNION {{One(<<H("master"), CC(a, 7, x), H("group"), CC(b, 7, y), H("region"), Sine>>) :
                x \in {3, 100}, y \in {5, 90}} :
           <<a, b>> \in {names \in (DOMAIN Settings) \X (DOMAIN Settings) :
                            /\ Settings[names[1]].member = Settings[names[2]].member
                            /\ Settings[names[1]].kind \notin {"text", "choice", "switch"}}}

-----------------------------------------------------------------------------
(* Instruments.                                                              *)

\* Headers of all kinds, that replace each other.
Layers == One(<<
    Num("volume", 1), H("global"), Num("sw_default", 1), Num("volume", 2), CC("locc", 7, 30),
    H("control"), CC("set_cc", 7, 20), CC("set_cc", 64, 127), CC("set_cc", 200, 5),
        Wrd("label_cc", "Pedal"),
    H("master"), Num("volume", 3), Num("sw_last", 1), Num("sw_lokey", 1), Num("sw_hikey", 2),
    H("group"), Num("volume", 4), Num("lokey", 60), H("region"), Sine, Num("hikey", 50),
    H("curve"), Num("v000", 0), H("region"), Pth("sample", <<"long">>), Num("key", 60),
    H("group"), Wrd("trigger", "release"), H("region"), Pth("sample", <<"nowhere">>),
    H("region"), Sine, Num("volume", 5), Num("sw_last", 2), H("master"), Num("pan", 3),
    H("region"), Pth("sample", <<"long">>), CC("on_locc", 64, 10), CC("hicc", 64, 100),
    H("unknown"), Num("pan", 9), H("effect"), H("global"), Num("volume", 0),
    H("group"), H("region"), Sine>>)

\* A region before the first group.
Late == One(<<H("region"), Sine, H("group"), Num("pan", 5), H("region"), Sine>>)

\* Regions that share a sample; velocity curves.
Shared == One(<<
    H("region"), Pth("sample", <<"surround">>), H("region"), Pth("sample", <<"long">>),
    Num("offset", 1), CC("amp_velcurve_", 100, 50), CC("amp_velcurve_", 20, 30),
    H("region"), Pth("sample", <<"nowhere">>), H("region"), Pth("sample", <<"long">>),
    Num("offset", 4), Num("offset_random", 3), CC("amp_velcurve_", 127, 90),
    CC("amp_velcurve_", 127, 80), CC("amp_velcurve_", 0, 10),
    H("region"), Pth("sample", <<"long">>), Num("end", 15), Num("loop_start", 2),
    H("region"), Pth("sample", <<"looped">>), Num("loop_end", 7), Num("amp_veltrack", 0), CC("amp_velcurve_", 60, 30),
    H("region"), Pth("sample", <<"bare">>), Num("offset", 198), Num("offset_random", 3),
    H("region"), Pth("sample", <<"nowhere">>)>>)

\* Names that are not known, or not with their parameter.
Wrong == One(<<
    H("region"), Sine, Num("ampeg_atack", 3), CC("locc", 200, 3), CC("locc", 7, 3),
    CC("hicc", 7, 3), H("region"), Sine, Num("ampeg_atack", 3), Num("pan", 3), CC("locc", 64, 3)>>)

\* The paths of samples.
Elsewhere == One(<<
    H("control"), Pth("default_path", <<"/", "nothing">>), Pth("default_path", <<"/", "dir">>),
    H("region"), Pth("sample", <<"long">>), H("region"), Pth("sample", <<"looped">>)>>)

\* Nothing, no region, and only regions that cannot play.
Silent == {One(<<>>), One(<<H("global"), Num("volume", 1)>>),
           One(<<H("region"), H("region"), Num("key", 1)>>)}

-----------------------------------------------------------------------------
(* Files.                                                                    *)

Part == <<"/", "part">>
Kick == Tokens(<<H("region"), Sine, Op("key", Null, <<"variable", "kick">>), Num("pan", 1)>>)
Kicks(n) == [define |-> "kick", as |-> <<"number", n>>]

\* Files that include each other, under the guard.
Mutual == Disk(
    Text(<<[include |-> <<"part">>], Kick, Kicks(36), Kick, [include |-> <<"missing">>]>>)
        @@ Part :> <<Kicks(35), Kick, [include |-> Main], [include |-> <<"dir">>]>>,
    {TRUE})

\* A file that is included twice.
Twice == Disk(
    Text(<<Kicks(35), [include |-> <<"part">>], Kicks(36), [include |-> <<"part">>], Kick>>)
        @@ Part :> <<Kick>>,
    {TRUE, FALSE})

\* A name that the working directory has too.
Relative == Disk(
    Text(<<Tokens(<<H("region"), Sine>>)>>)
        @@ <<"/", "home", "main">> :> <<Tokens(<<H("region"), Pth("sample", <<"long">>)>>)>>,
    {FALSE})

MCDisks ==
    Singles \cup Doubles \cup Silent
        \cup {Layers, Late, Shared, Wrong, Elsewhere, Mutual, Twice, Relative}

MCHostFiles == {Main, <<"main">>}
MCWorkingDirectory == <<"/", "home">>
MCGenerators == {<<"*sine">>}
MCGarbage == {<<2, 5>>, <<150, 160>>}

=================================================================================
