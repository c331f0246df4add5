--------------------------- MODULE MC_ProjectCache ---------------------------
(* Instances of ProjectCache for TLC.                                      *)
EXTENDS ProjectCache

CONSTANTS e1, e2, r1, s1

\* Safety: two envelopes that can both wait on the same fetch.
MCEnvelopes == {e1, e2}
\* One envelope; the fetch and no_cache logic is unchanged.
MCOneEnvelope == {e1}
MCReceivers == {r1}
\* One AddSamplingState message, or none.
MCSamplings == {s1}
MCNoSamplings == {}
=============================================================================
