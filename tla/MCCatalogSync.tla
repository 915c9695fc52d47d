------------------------------ MODULE MCCatalogSync ------------------------------
\* A small library for TLC.
EXTENDS CatalogSync, TLC

CatalogSymmetry ==
    Permutations(Books) \cup Permutations(VersionIds) \cup Permutations(Documents)

\* BOUND: behaviours are followed until the ids of versions are used up, and on
\* to the activation of staged ones where no delta was exported.
VersionsLeft ==
    \/ \E v \in VersionIds : versions[v].status = "NONE"
    \/ /\ \E v \in VersionIds : versions[v].status = "STAGING"
       /\ \A d \in Documents : documents[d].role = "NONE"

================================================================================
