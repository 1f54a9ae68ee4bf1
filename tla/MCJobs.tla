-------------------------------- MODULE MCJobs --------------------------------
(***************************************************************************)
(* An instance for TLC of everything that runs beside the requests and has *)
(* to come to an end: analyses, ingestion, e-mail, the SLA sweep, sockets, *)
(* fetches and rate-limit windows.  They share no state, so a behaviour is *)
(* one of a single part, the others at rest: the states checked are the    *)
(* sum of the parts' states and not their product.  Fairness is each       *)
(* part's own.                                                             *)
(***************************************************************************)
EXTENDS MCAnalysisClaims, RateLimit, MCSlaSweep, EmailDelivery, Inbox, KnowledgeBase,
        RealtimeHub, UrlFetch

VARIABLE part

Parts == {"claims", "limit", "sla", "mail", "inbox", "knowledge", "hub", "fetch"}

JobsInit ==
    /\ part \in Parts
    /\ Init /\ LimitInit /\ SlaInit /\ MailInit /\ InboxInit /\ KnowledgeInit /\ HubInit
    /\ FetchInit

JobsNext ==
    \/ /\ part = "claims" /\ Next
       /\ UNCHANGED <<part, limitVars, slaVars, mailVars, inboxVars, knowledgeVars, hubVars,
                      fetchVars>>
    \/ /\ part = "limit" /\ LimitNext
       /\ UNCHANGED <<part, vars, slaVars, mailVars, inboxVars, knowledgeVars, hubVars,
                      fetchVars>>
    \/ /\ part = "sla" /\ SlaNext
       /\ UNCHANGED <<part, vars, limitVars, mailVars, inboxVars, knowledgeVars, hubVars,
                      fetchVars>>
    \/ /\ part = "mail" /\ MailNext
       /\ UNCHANGED <<part, vars, limitVars, slaVars, inboxVars, knowledgeVars, hubVars,
                      fetchVars>>
    \/ /\ part = "inbox" /\ InboxNext
       /\ UNCHANGED <<part, vars, limitVars, slaVars, mailVars, knowledgeVars, hubVars,
                      fetchVars>>
    \/ /\ part = "knowledge" /\ KnowledgeNext
       /\ UNCHANGED <<part, vars, limitVars, slaVars, mailVars, inboxVars, hubVars, fetchVars>>
    \/ /\ part = "hub" /\ HubNext
       /\ UNCHANGED <<part, vars, limitVars, slaVars, mailVars, inboxVars, knowledgeVars,
                      fetchVars>>
    \/ /\ part = "fetch" /\ FetchNext
       /\ UNCHANGED <<part, vars, limitVars, slaVars, mailVars, inboxVars, knowledgeVars,
                      hubVars>>

JobsVars ==
    <<part, vars, limitVars, slaVars, mailVars, inboxVars, knowledgeVars, hubVars, fetchVars>>

\* Fair, SlaFair, MailFair, KnowledgeFair and HubFairness, each while its part
\* runs.
JobsFair ==
    /\ \A r \in Requests :
          WF_vars(part = "claims" /\ Write(r)) /\ WF_vars(part = "claims" /\ Enqueue(r))
    /\ \A w \in Workers :
          /\ WF_vars(part = "claims" /\ \E m \in queue : Deliver(w, m))
          /\ WF_vars(part = "claims" /\ Run(w))
          /\ WF_vars(part = "claims" /\ TimeOut(w))
    /\ WF_vars(part = "claims" /\ Tick) /\ WF_vars(part = "claims" /\ Reap)
    /\ \A s \in Sweeps : WF_slaVars(part = "sla" /\ SweepStep(s))
    /\ \A w \in Postmen : WF_mailVars(part = "mail" /\ PostmanStep(w))
    /\ \A w \in Ingesters :
          /\ WF_knowledgeVars(part = "knowledge" /\ IngesterStep(w))
          /\ WF_knowledgeVars(part = "knowledge" /\ StopIngester(w))
    /\ WF_knowledgeVars(part = "knowledge" /\ Minute)
    /\ WF_knowledgeVars(part = "knowledge" /\ ReapDocuments)
    /\ \A s \in Sockets :
          /\ WF_hubVars(part = "hub" /\ TakeNext(s))
          /\ WF_hubVars(part = "hub" /\ (Send(s) \/ SendFails(s)))
          /\ WF_hubVars(part = "hub" /\ sockets[s].pc = "closed" /\ Disconnect(s))

JobsSpec == JobsInit /\ [][JobsNext]_JobsVars /\ JobsFair

-----------------------------------------------------------------------------
\* Who connects: an agent, a customer, and a portal account without a link.
Identities ==
    {[org |-> "a", role |-> "agent", user |-> "u1", customer |-> "nobody"],
     [org |-> "a", role |-> "customer", user |-> "u2", customer |-> "c1"],
     [org |-> "a", role |-> "customer", user |-> "u3", customer |-> "nobody"]}

\* What is published: a note, an event of a ticket without customer or agent, and
\* a notification.
Messages ==
    {[org |-> "a", kind |-> "note", agent |-> "u1", customer |-> "c1", user |-> "nobody"],
     [org |-> "a", kind |-> "ticket", agent |-> "nobody", customer |-> "nobody",
      user |-> "nobody"],
     [org |-> "a", kind |-> "notification", agent |-> "nobody", customer |-> "nobody",
      user |-> "u2"]}
=============================================================================
