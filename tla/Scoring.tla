------------------------------- MODULE Scoring -------------------------------
(***************************************************************************)
(* How the geography plugin turns a right answer into points.              *)
(*                                                                         *)
(* calculate_score works in f32; here everything is an integer number of   *)
(* hundredths of a point.  All factors of the code (1.5, 1.25, 0.75, the   *)
(* tenths of the streak bonus) are whole hundredths, so the two agree      *)
(* wherever f32 carries base_points exactly.  The trait's default          *)
(* calculate_score has the same body as the plugin's override.             *)
(***************************************************************************)
EXTENDS Integers

CONSTANT NoLimit      \* temps_limite_sec is NULL

ASSUME NoLimitAssumption == NoLimit \notin Int

(***************************************************************************)
(* ratio = time_spent / limit against tenths/10, without dividing.  The    *)
(* code never checks the limit: a negative one turns the ratio's sign, and *)
(* with 0 the f32 quotient is +inf, -inf or (0/0) a NaN that is neither    *)
(* below nor above anything.                                               *)
(***************************************************************************)
RatioBelow(time, limit, tenths) ==
  IF limit >= 0 THEN 10 * time < tenths * limit ELSE 10 * time > tenths * limit

RatioAbove(time, limit, tenths) ==
  IF limit >= 0 THEN 10 * time > tenths * limit ELSE 10 * time < tenths * limit

SpeedPercent(time, limit) ==
  IF limit = NoLimit THEN 100
  ELSE IF RatioBelow(time, limit, 3) THEN 150
  ELSE IF RatioBelow(time, limit, 5) THEN 125
  ELSE IF RatioAbove(time, limit, 9) THEN 75
  ELSE 100

StreakPercent(streak) ==
  IF streak < 3 THEN 0
  ELSE IF (streak - 2) * 10 > 50 THEN 50
  ELSE (streak - 2) * 10

\* f32::round: the nearest integer, halves away from zero.
RoundHundredths(h) == IF h >= 0 THEN (h + 50) \div 100 ELSE -((50 - h) \div 100)

\* calculate_score; the validations of this plugin never set partial_score.
CalculateScore(base, isCorrect, time, limit, streak) ==
  IF isCorrect
    THEN RoundHundredths(base * (SpeedPercent(time, limit) + StreakPercent(streak)))
    ELSE 0
=============================================================================
