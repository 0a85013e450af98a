--------------------------------- MODULE MCSynth ---------------------------------
(*****************************************************************************)
(* A small instrument on few voices, so that they run out.                   *)
(*****************************************************************************)
EXTENDS Synth, TLC

Base ==
    [channelRange |-> <<1, 16>>, keyRange |-> <<0, 127>>, velocityRange |-> <<0, 127>>,
     keyswitchRange |-> <<0, 127>>, bendRange |-> <<-8192, 8192>>,
     aftertouchRange |-> <<0, 127>>, bpmRange |-> <<0, 500>>, randRange |-> <<0, RandOne>>,
     keyswitch |-> Null, keyswitchUp |-> Null, keyswitchDown |-> Null, previousNote |-> Null,
     sequenceLength |-> 1, sequencePosition |-> 1, trigger |-> "attack",
     ccConditions |-> <<>>, ccTriggers |-> <<>>,
     group |-> 0, offBy |-> Null, oneShot |-> FALSE, checkSustain |-> TRUE, ends |-> FALSE]

\* Key 1 closes a hi-hat that keys 2 and 3 open; key 2 has a release sample.
HatDescription ==
    "closed" :> [Base EXCEPT !.keyRange = <<1, 1>>, !.group = 1, !.checkSustain = FALSE]
    @@ "open" :> [Base EXCEPT !.keyRange = <<2, 3>>, !.group = 2, !.offBy = 1]
    @@ "noise" :> [Base EXCEPT !.keyRange = <<2, 2>>, !.trigger = "release", !.ends = TRUE]
MCHat == <<"closed", "open", "noise">>

\* The hat, a one-shot, and a sample that the pedal itself plays.
BandDescription ==
    "closed" :> [Base EXCEPT !.keyRange = <<1, 1>>, !.group = 1, !.checkSustain = FALSE]
    @@ "open" :> [Base EXCEPT !.keyRange = <<2, 2>>, !.group = 2, !.offBy = 1]
    @@ "noise" :> [Base EXCEPT !.keyRange = <<2, 2>>, !.trigger = "release", !.ends = TRUE]
    @@ "knock" :> [Base EXCEPT !.keyRange = <<1, 1>>, !.oneShot = TRUE, !.ends = TRUE]
    @@ "pedal" :> [Base EXCEPT !.keyRange = <<3, 3>>, !.ccTriggers = 64 :> <<64, 127>>,
                               !.ends = TRUE]
MCBand == <<"closed", "open", "noise", "knock", "pedal">>

=================================================================================
