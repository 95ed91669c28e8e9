------------------------------ MODULE MCDossier ------------------------------
(* Model-checking instance of Feed and Dossier.                              *)
EXTENDS Dossier

CONSTANTS normal, suspicious

MCVerdicts == {normal, suspicious}

MCFilters == {suspicious}

MCRole == <<"source", "source", "target", "source">>
=============================================================================
