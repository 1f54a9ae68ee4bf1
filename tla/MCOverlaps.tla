------------------------------ MODULE MCOverlaps ------------------------------
(***************************************************************************)
(* An instance for TLC of the background work whose runs may overlap: a    *)
(* worker that takes up an analysis another one still has, and two sweeps  *)
(* of one organization.  They share no state, so a behaviour is one of a   *)
(* single part, the other at rest.                                         *)
(***************************************************************************)
EXTENDS MCAnalysisClaims, MCSlaSweep

VARIABLE part

OverlapsInit == part \in {"claims", "sla"} /\ Init /\ SlaInit

OverlapsNext ==
    \/ part = "claims" /\ Next /\ UNCHANGED <<part, slaVars>>
    \/ part = "sla" /\ SlaNext /\ UNCHANGED <<part, vars>>

OverlapsSpec == OverlapsInit /\ [][OverlapsNext]_<<part, vars, slaVars>>
=============================================================================
