------------------------------ MODULE MCAlerts ------------------------------
(* Model-checking instance of Alerts.                                        *)
EXTENDS Alerts, TLC

CONSTANTS w1, w2, src1, src2, scan, flood

MCWorkers == {w1, w2}

MCSources == {src1, src2}

MCTechniques == {scan, flood}

MCSymmetry == Permutations(MCWorkers) \cup Permutations(MCSources) \cup Permutations(MCTechniques)
=============================================================================
