----------------------------- MODULE MCCascade -----------------------------
EXTENDS CascadeAggregator, TLC

CONSTANTS a1, a2, a3, end

MCAnswers == {a1, a2, a3}
MCControls == {end}
MCKnownNodes == {2}

AnswerSymmetry == Permutations(MCAnswers)
=============================================================================
