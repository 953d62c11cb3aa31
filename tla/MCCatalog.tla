------------------------------ MODULE MCCatalog ------------------------------
EXTENDS Catalog, TLC

CONSTANTS c1, c2, k1, k2, t1, t2
MCClients == {c1, c2}
MCKeys == {k1, k2}
MCPipelines == {"p1"}
MCTexts == {t1, t2}
MCRuns == {"r1"}
MCFewRequests == 2

\* Bound: requests beyond the first two are about the settings alone.
FewRequests ==
  \/ requests <= MCFewRequests
  \/ /\ \A p \in Pipelines : pipes[p] = None
     /\ \A c \in Clients : request[c].step \in {"idle", "read", "save"}
     /\ \A r \in Runs : file[r] = None /\ used[r] = {}

\* Clients are interchangeable, so are secrets and texts, and no run checks a
\* liveness property.
MCSymmetry ==
  Permutations(MCClients) \cup Permutations(MCKeys) \cup Permutations(MCTexts)
=============================================================================
