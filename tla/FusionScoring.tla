--------------------------- MODULE FusionScoring ----------------------------
(***************************************************************************)
(* The scoring functions of lambda/fusion_engine.py and of the Starlink    *)
(* sensor module, on integers: a score is a whole number of millionths     *)
(* (the precision of d()), a fused probability of thousandths.  Products   *)
(* are kept exact until the one rounding the code does.                    *)
(***************************************************************************)
EXTENDS Integers

One == 1000000

\* What the scorers guarantee of a score: it is capped above, and no scorer but
\* the Starlink one looks at the sign of what a sensor reports.
Score == {n \in Int : n <= One}

Modalities == {"radar", "thermal", "acoustic", "starlink", "celltower"}

Least(a, b) == IF a <= b THEN a ELSE b

\* score_radar: periodicity in hundredths of a hertz, amplitude in tenths,
\* depth in metres.
ScoreRadar(void_detected, periodicity, amplitude, depth) ==
    LET base == IF periodicity \in 15 .. 60 THEN 600000
                ELSE IF periodicity \in 80 .. 200 THEN 450000 ELSE 0
        score == base + 35000 * Least(amplitude, 10)
    IN  IF ~void_detected THEN 0
        ELSE Least(IF depth > 4 THEN (score * 85) \div 100 ELSE score, One)

\* score_thermal: delta_t in tenths of a degree, hotspot_size in cm2; the size
\* counts 0.3 of its share of 600 cm2.
ScoreThermal(delta_t, hotspot_size) ==
    LET temp_score == IF delta_t < 30 THEN 10000 * delta_t
                      ELSE IF delta_t <= 80 THEN 700000 ELSE 400000
        size_part == Least(500 * hotspot_size, 300000)
    IN  IF delta_t <= 0 THEN 0
        ELSE Least((temp_score * 7) \div 10 + size_part, One)

\* score_acoustic: voice_likelihood in tenths, snr in dB.
ScoreAcoustic(tap_pattern, voice_likelihood, snr) ==
    LET score == (IF tap_pattern THEN 600000 ELSE 0) + 40000 * voice_likelihood
    IN  Least(IF snr < 6 THEN (score * 7) \div 10 ELSE score, One)

\* score_celltower of fusion_engine.py: accuracy in metres.
ScoreCelltower(accuracy) ==
    IF accuracy <= 20 THEN One
    ELSE IF accuracy <= 50 THEN 900000
    ELSE IF accuracy <= 100 THEN 800000
    ELSE IF accuracy <= 250 THEN 600000
    ELSE IF accuracy <= 500 THEN 400000 ELSE 200000

\* _score_starlink: elevation in degrees, quality in hundredths of the unit
\* scale (the dB scale is already normalised), a trusted observation source;
\* the sum is rounded to thousandths.
ScoreStarlink(elevation, quality, trusted) ==
    LET elevation_part == IF elevation >= 40 THEN 350000 ELSE IF elevation >= 20 THEN 200000
                          ELSE IF elevation >= 10 THEN 100000 ELSE 0
        quality_part == IF quality > 0 THEN 2500 * Least(quality, 100) ELSE 0
        score == 350000 + elevation_part + quality_part + (IF trusted THEN 50000 ELSE 0)
    IN  1000 * ((Least(score, One) + 500) \div 1000)

-----------------------------------------------------------------------------
\* fuse_scores: a modality counts as active above 0.3.
Active(score) == IF score > 300000 THEN 1 ELSE 0

ActiveCount(radar, thermal, acoustic, starlink) ==
    Active(radar) + Active(thermal) + Active(acoustic) + Active(starlink)

Bonus(active) ==
    CASE active = 2 -> 100000 [] active = 3 -> 200000 [] active = 4 -> 250000 [] OTHER -> 0

\* Mutant of Weighted: the base is not scaled down beside a Starlink score.
WeightedUnscaled(radar, thermal, acoustic, starlink) ==
    100 * (4 * radar + 3 * thermal + 3 * acoustic) + 600 * starlink

\* The weighted sum before the bonus, in thousandths of a millionth.
Weighted(radar, thermal, acoustic, starlink) ==
    LET base == 4 * radar + 3 * thermal + 3 * acoustic
    IN  IF starlink > 0 THEN 85 * base + 150 * starlink ELSE 100 * base

\* Thousandths; an exact half, which the code's binary floats round either
\* way, is rounded up.
FuseScores(radar, thermal, acoustic, starlink) ==
    LET bonus == 1000 * Bonus(ActiveCount(radar, thermal, acoustic, starlink))
        total == Weighted(radar, thermal, acoustic, starlink) + bonus
    IN  (Least(total, 1000 * One) + 500000) \div 1000000

\* The fused probability of a cell that holds these scores; celltower_score is
\* stored and takes no part.
Fused(score) ==
    FuseScores(score["radar"], score["thermal"], score["acoustic"], score["starlink"])

Corroborated(score) ==
    ActiveCount(score["radar"], score["thermal"], score["acoustic"], score["starlink"]) >= 2
=============================================================================
