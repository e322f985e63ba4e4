------------------------------ MODULE Personality ------------------------------
(***************************************************************************)
(* From the answers of the personality test to the robot's behaviour:        *)
(* ComputePersonalityUseCase, PersonalityVector and PersonalityDisplacement. *)
(* Scores are in hundredths, which is exact: an average of two answers is a  *)
(* multiple of one half.                                                     *)
(***************************************************************************)
EXTENDS Integers, FiniteSetsExt

CONSTANT Traits   \* number of traits asked about; 5 in the code, odd as there

ASSUME TraitsAssumption == Traits \in {1, 3, 5}

(* Extroversion, agreeableness, conscientiousness, emotional stability,      *)
(* openness to experiences.                                                  *)
TraitIds          == 1 .. Traits
Conscientiousness == 3

Questions == 1 .. 2 * Traits
Scale     == 1 .. 7

median == [i \in TraitIds |-> <<444, 523, 540, 483, 538>>[i]]
stdDev == [i \in TraitIds |-> <<145, 111, 132, 142, 107>>[i]]

(* Slip: the other half of the questions is reversed.                        *)
ScoredOtherWay(q, answer) == IF q % 2 = 1 THEN 8 - answer ELSE answer

(* Every second question is worded against its trait.                        *)
Scored(q, answer) == IF q % 2 = 0 THEN 8 - answer ELSE answer

(* groupBy { it.key % 5u }, average, and 0.0 where no question was answered. *)
computePersonalityVector(answers) ==
    [i \in TraitIds |->
        LET group == {q \in DOMAIN answers : q % Traits = i % Traits}
        IN  IF group = {} THEN 0
            ELSE (100 * MapThenSumSet(LAMBDA q : Scored(q, answers[q]), group))
                     \div Cardinality(group)]

ComputePersonality(answers) ==
    IF DOMAIN answers = {} THEN median ELSE computePersonalityVector(answers)

(* Conscientiousness is left out of the subtraction (PersonalityVector:62).  *)
symmetricVector(v) ==
    [i \in TraitIds |-> IF i = Conscientiousness THEN 2 * median[i]
                                                 ELSE 2 * median[i] - v[i]]

(* computeDisplacement: how many standard deviations from the median, and to *)
(* which side, between -2 and 2.                                             *)
Displacement(v, i) ==
    LET sign  == IF v[i] > median[i] THEN 1 ELSE -1
        delta == sign * (v[i] - median[i])
    IN  IF delta < stdDev[i] THEN 0
        ELSE IF delta < 2 * stdDev[i] THEN sign ELSE 2 * sign
----------------------------------------------------------------------------
(* The test as it is published (Ten-Item Personality Inventory): of the two  *)
(* questions of a trait one counts as it is answered, one reversed.          *)

DirectQuestion   == [i \in TraitIds |-> IF i % 2 = 1 THEN i ELSE i + Traits]
ReversedQuestion == [i \in TraitIds |-> IF i % 2 = 1 THEN i + Traits ELSE i]

TipiScore(answers, i) ==
    (100 * (answers[DirectQuestion[i]] + 8 - answers[ReversedQuestion[i]])) \div 2
=============================================================================
