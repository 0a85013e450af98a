-------------------------------- MODULE MCMixing --------------------------------
(*****************************************************************************)
(* A mono sample, a stereo sample and a generator, with one controller that  *)
(* moves several of the levels of each.  The first is crossfaded by the key  *)
(* and has a curve of the velocity, the second is crossfaded by the          *)
(* controller and the velocity, and the third sounds when a key is let go.   *)
(*****************************************************************************)
EXTENDS Mixing

Moves(ls, n) == [l \in Levels |-> IF l \in ls THEN n ELSE 0]

NoFades ==
    [keyIn |-> <<0, 0>>, keyOut |-> <<Top, Top>>, keyCurve |-> "power",
     velIn |-> <<0, 0>>, velOut |-> <<Top, Top>>, velCurve |-> "power",
     ccIn |-> <<>>, ccOut |-> <<>>, ccCurve |-> "power"]

Plain ==
    [generator |-> FALSE, stereo |-> FALSE, on |-> Moves({}, 1), trigger |-> "attack",
     ccTriggered |-> FALSE, amplitude |-> Unity, volume |-> 0, rtDecay |-> 0, fades |-> NoFades,
     ampKeytrack |-> 0, ampKeycenter |-> 2, ampVeltrack |-> 100, velocityPoints |-> <<>>]

Point(velocity, gain) == [velocity |-> velocity, gain |-> gain]

MCSounds ==
    {[Plain EXCEPT !.on = Moves({"amplitude", "pan", "width"}, 1),
        !.fades.keyIn = <<0, 4>>, !.ampKeytrack = 1, !.ampKeycenter = 1,
        !.velocityPoints = <<Point(0, 0), Point(2, Unity \div 2), Point(4, Unity)>>],
     [Plain EXCEPT !.stereo = TRUE, !.on = Moves({"width", "position"}, 1),
        !.ccTriggered = TRUE, !.ampVeltrack = 0,
        !.fades = [@ EXCEPT !.ccIn = <<[cc |-> 1, range |-> <<0, 4>>]>>,
                            !.velOut = <<1, 5>>, !.velCurve = "gain"]],
     [Plain EXCEPT !.generator = TRUE, !.on = Moves({"amplitude", "volume", "position"}, 1),
        !.trigger = "release", !.rtDecay = 1, !.volume = 1, !.ampVeltrack = -50]}

Strike(type, number, velocity) == [type |-> type, number |-> number, value |-> velocity]
MCStrikes == {Strike("NoteOn", 1, 2), Strike("CC", 1, 1)}

-----------------------------------------------------------------------------
(* The crossfades by themselves.                                             *)

Ranges == {<<a, b>> \in (0 .. 4) \X (0 .. 4) : a < b /\ b - a # 3}

\* Two regions that are crossfaded in and out over one range sound, with the linear
\* curve, as loud as one; and a range of one value switches.
ASSUME CrossfadesAddUp ==
    \A range \in Ranges, x \in 0 .. 5 :
        CrossfadeIn(range, x, "gain") + CrossfadeOut(range, x, "gain") = Unity

\* tests/RegionCrossfadesT.cpp:60-73 and 186-192, 244-250.
ASSUME TestedCrossfades ==
    /\ \A x \in 1 .. 5 : CrossfadeIn(<<1, 5>>, x, "gain") = 12 * (x - 1)
    /\ CrossfadeIn(<<20, 24>>, 19, "power") = 0 /\ CrossfadeIn(<<20, 24>>, 20, "power") = 0
    /\ CrossfadeIn(<<20, 24>>, 21, "power") = Unity \div 2
    /\ CrossfadeOut(<<20, 24>>, 23, "power") = Unity \div 2
    /\ \A x \in 20 .. 25 : CrossfadeOut(<<20, 24>>, x, "gain") = Max({12 * (24 - x), 0})
=================================================================================
