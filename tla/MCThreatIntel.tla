--------------------------- MODULE MCThreatIntel ----------------------------
(* A small instance of ThreatIntel for TLC: a domain the embedded feed     *)
(* does not list and VirusTotal's engines change their mind about.         *)
EXTENDS ThreatIntel, TLC, SequencesExt

CONSTANTS domain

MCKindOf == domain :> "domain"
MCListing == domain :> "unlisted"
MCProviders == <<"local_threat_feed", "virustotal">>

\* Merging any three reports at all gives the worst of them.
ASSUME MergeIsWorst ==
    \A said \in UNION {[1 .. n -> Report] : n \in 0 .. 3} :
        Merges(FoldLeft(MergeReport, Unknown, said), said)
=============================================================================
