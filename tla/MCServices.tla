------------------------------ MODULE MCServices -----------------------------
(***************************************************************************)
(* The three background queues whose workers claim by updating a row       *)
(* (buildings, broadcast repair and the semantic index) and the owner's    *)
(* chat with the agent.  They share no state, so a behaviour of this       *)
(* instance is one of one of them: service is chosen at the start and the  *)
(* others stay as they are.                                                *)
(***************************************************************************)
EXTENDS BuildingJobs, RepairQueue, SemanticIndex, SelfChat

VARIABLE service

serviceVars == <<service, bvars, repVars, semVars, chatVars>>

ServicesInit ==
  /\ service \in {"building", "repair", "semantic", "chat"}
  /\ BuildingInit /\ RepairInit /\ SemanticInit /\ ChatInit
  /\ service = "chat" \/ streaming

ServicesNext ==
  \/ /\ service = "building" /\ BuildingNext
     /\ UNCHANGED <<service, repVars, semVars, chatVars>>
  \/ /\ service = "repair" /\ RepairNext
     /\ UNCHANGED <<service, bvars, semVars, chatVars>>
  \/ /\ service = "semantic" /\ SemanticNext
     /\ UNCHANGED <<service, bvars, repVars, chatVars>>
  \/ /\ service = "chat" /\ ChatNext
     /\ UNCHANGED <<service, bvars, repVars, semVars>>

(* The fairness of each module, for the part the behaviour is about.       *)
ServicesFairness ==
  /\ \A w \in Enricher : WF_bvars(service = "building" /\ Poll(w))
  /\ \A w \in Enricher, j \in BJob : WF_bvars(service = "building" /\ ProcessJob(w, j))
  /\ \A j \in BJob : WF_bvars(service = "building" /\ ClockPasses(j))
  /\ \A w \in Repairer : WF_repVars(service = "repair" /\ RunOnce(w))
  /\ \A p \in Parent : /\ WF_repVars(service = "repair" /\ ChildStep(p))
                       /\ WF_repVars(service = "repair" /\ QueueRepair(p))
  /\ \A w \in Indexer : WF_semVars(service = "semantic" /\ IndexStep(w))
  /\ \A e \in Entity : WF_semVars(service = "semantic" /\ BackoffEnds(e))
  /\ \A c \in Cmd : /\ WF_chatVars(service = "chat" /\ (GoStep(c) \/ GoStops(c)))
                    /\ WF_chatVars(service = "chat" /\ ApiStep(c))

ServicesSpec == ServicesInit /\ [][ServicesNext]_serviceVars /\ ServicesFairness
=============================================================================
