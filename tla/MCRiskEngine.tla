----------------------------- MODULE MCRiskEngine -----------------------------
EXTENDS RiskEngine

\* Below, inside and above the range of a score.
MCNumbers == {-7, 30, 101}
=============================================================================
