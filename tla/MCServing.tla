------------------------------ MODULE MCServing ------------------------------
(***************************************************************************)
(* An instance for TLC of what is computed, stored and served: summaries,  *)
(* AI calls and their ledger, cached aggregates, the SLA figures, and the  *)
(* passages a document is cut into.  They share no state, so a behaviour   *)
(* is one of a single part, the others at rest.                            *)
(***************************************************************************)
EXTENDS SummaryFreshness, AiCall, AnalyticsCache, SlaFigures, MCSlaSweep, MCDocumentText, TLC

VARIABLE part

Parts == {"summary", "ai", "cache", "figures", "text"}

ServingInit ==
    /\ part \in Parts
    /\ Init /\ AiInit /\ CacheInit /\ SlaInit /\ TextInit
    /\ part # "ai" => keyed = Services /\ vendor = CHOOSE v \in Vendors : TRUE
    /\ part # "text" => page = <<>>

\* The figures are of committed rows: between its decision and its commit no step but
\* a request's own matters to them.
Prompted == SlaNext /\ ((\E r \in Staff : writes[r].act # "none") => writes' # writes)

ServingNext ==
    \/ part = "summary" /\ Next /\ UNCHANGED <<part, aiVars, cacheVars, slaVars, textVars>>
    \/ part = "ai" /\ AiNext /\ UNCHANGED <<part, vars, cacheVars, slaVars, textVars>>
    \/ part = "cache" /\ CacheNext /\ UNCHANGED <<part, vars, aiVars, slaVars, textVars>>
    \/ part = "figures" /\ Prompted /\ UNCHANGED <<part, vars, aiVars, cacheVars, textVars>>
    \/ part = "text" /\ TextNext /\ UNCHANGED <<part, vars, aiVars, cacheVars, slaVars>>

ServingSpec ==
    ServingInit /\ [][ServingNext]_<<part, vars, aiVars, cacheVars, slaVars, textVars>>

-----------------------------------------------------------------------------
\* Messages are interchangeable: only their timestamps are compared.
Interchangeable == Permutations(Messages)
=============================================================================
