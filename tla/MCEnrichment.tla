---------------------------- MODULE MCEnrichment ----------------------------
(* Model-checking instance of Enrichment: workers that share a cache.        *)
EXTENDS Enrichment

CONSTANTS w1, w2, w3, x, y

MCThreads == {w1, w2, w3}

MCIPs == {x, y}
=============================================================================
