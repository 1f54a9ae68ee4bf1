-------------------------- MODULE MCAnalysisClaims --------------------------
\* Instances of AnalysisClaims for TLC: the endpoints of the API and, where no
\* liveness is checked, interchangeable rows, requests and workers.
EXTENDS AnalysisClaims, TLC

Endpoints == {{"classify", "sentiment"}, {"suggest"}}
AnalysisEndpoint == {{"classify", "sentiment"}}
SuggestEndpoint == {{"suggest"}}
AllOperations == {"classify", "sentiment", "suggest"}
TicketOperations == {"classify", "sentiment"}

Interchangeable ==
    Permutations(Analyses) \cup Permutations(Requests) \cup Permutations(Workers)
=============================================================================
