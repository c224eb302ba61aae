-------------------------- MODULE MCFusionPipeline --------------------------
(***************************************************************************)
(* FusionPipeline for TLC: one cell, two invocations, a strong radar and a *)
(* strong thermal reading that raise an alert together, a radar reading    *)
(* whose amplitude has the wrong sign, a body the handler skips and one    *)
(* that makes it raise.  Messages and invocations are interchangeable.     *)
(***************************************************************************)
EXTENDS FusionPipeline, TLC

CONSTANTS radar, inverted, thermal, junk, bad, cell

AllCells == [r \in Readings |-> cell]
ReadingModality == [r \in Readings |-> IF r = thermal THEN "thermal" ELSE "radar"]
ReadingScore ==
    [r \in Readings |-> CASE r = thermal -> ScoreThermal(50, 600)
                          [] r = inverted -> ScoreRadar(TRUE, 0, 0 - 10, 2)
                          [] OTHER -> ScoreRadar(TRUE, 30, 10, 2)]
ReadingForm ==
    [r \in Readings |-> IF r = bad THEN "nonobject" ELSE IF r = junk THEN "invalid" ELSE "valid"]

Symmetry == Permutations(Copies) \cup Permutations(Workers)
=============================================================================
