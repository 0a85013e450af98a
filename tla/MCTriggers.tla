-------------------------------- MODULE MCTriggers --------------------------------
(*****************************************************************************)
(* Small instruments.  Keys 0 and 1 are keyswitches, 2 to 4 are played.      *)
(*****************************************************************************)
EXTENDS Triggers, TLC

Base ==
    [channelRange |-> <<1, 1>>, keyRange |-> <<2, 4>>, velocityRange |-> <<0, 127>>,
     keyswitchRange |-> <<0, 1>>, bendRange |-> <<-8192, 8192>>,
     aftertouchRange |-> <<0, 127>>, bpmRange |-> <<0, 500>>, randRange |-> <<0, RandOne>>,
     keyswitch |-> Null, keyswitchUp |-> Null, keyswitchDown |-> Null, previousNote |-> Null,
     sequenceLength |-> 1, sequencePosition |-> 1, trigger |-> "attack",
     ccConditions |-> <<>>, ccTriggers |-> <<>>]

InSequence(p) == [Base EXCEPT !.sequenceLength = 3, !.sequencePosition = p]
Half == [Base EXCEPT !.randRange = <<0, 50>>, !.velocityRange = <<64, 127>>]

\* The instrument of notes: a sequence of three, a phrase, a pair of articulations,
\* one with sw_previous, one of release samples, one with sw_down and one with sw_up.
PlayedDescription ==
    "s1" :> InSequence(1) @@ "s2" :> InSequence(2) @@ "s3" :> InSequence(3)
    @@ "first" :> [Base EXCEPT !.trigger = "first"]
    @@ "legato" :> [Base EXCEPT !.trigger = "legato"]
    @@ "art0" :> [Base EXCEPT !.keyswitch = 0]
    @@ "art1" :> [Base EXCEPT !.keyswitch = 1]
    @@ "previous" :> [Base EXCEPT !.previousNote = 3, !.channelRange = <<1, 16>>]
    @@ "release" :> [Half EXCEPT !.trigger = "release", !.keyRange = <<3, 3>>]
    @@ "down" :> [Half EXCEPT !.keyswitchDown = 0]
    @@ "up" :> [Base EXCEPT !.keyswitchUp = 1]

MCSequences == {{"s1", "s2", "s3"}}
MCArticulations == {{"art0", "art1"}}
MCPhrases == {<<"first", "legato">>}

\* The instrument of switches: conditions on two controllers, on the pitch wheel,
\* on aftertouch and on the tempo, and a region that a controller plays.
SwitchedDescription ==
    "cc" :> [Base EXCEPT !.ccConditions = 1 :> <<64, 127>> @@ 2 :> <<0, 63>>]
    @@ "bend" :> [Base EXCEPT !.bendRange = <<0, 8192>>]
    @@ "touch" :> [Base EXCEPT !.aftertouchRange = <<64, 127>>]
    @@ "tempo" :> [Base EXCEPT !.bpmRange = <<0, 100>>]
    @@ "onCC" :> [Base EXCEPT !.ccTriggers = 2 :> <<64, 127>>,
                              !.ccConditions = 1 :> <<0, 63>>]

MCDescription == PlayedDescription @@ SwitchedDescription
MCRegions == DOMAIN MCDescription
MCBends == {-8192, 0}
MCTempos == {30, 120}

\* Bound: keys are pressed while all other inputs are as the load leaves them, and the
\* others move before the first key.
AtRest ==
    \A c \in Channels :
        inputs[c] = [cc |-> [n \in CCs |-> 0], bend |-> 0, aftertouch |-> 0, tempo |-> 30]
OneKindOfInput == notes = 0 \/ AtRest

=================================================================================
