-------------------------- MODULE MCServiceInject --------------------------
(***************************************************************************)
(* Three services and a plugin's component.  The services are related by   *)
(* every graph, so one order of the inventory stands for all of them.  To  *)
(* keep the initial states few, a service has at most one Option field, at *)
(* most one is misconfigured and at most one component is registered       *)
(* beforehand.                                                             *)
(***************************************************************************)
EXTENDS ServiceInject

AtMostOne(S) == {{}} \cup {{x} : x \in S}

MCInit ==
  /\ needs \in [Service -> SUBSET Component]
  /\ wants \in [Service -> AtMostOne(Component)]
  /\ \A s \in Service : s \notin needs[s] \cup wants[s] /\ needs[s] \cap wants[s] = {}
  /\ misconfigured \in AtMostOne(Service)
  /\ base \in AtMostOne(Component)
  /\ pending = CHOOSE inventory \in SetToSeqs(Service) : TRUE
  /\ Init

MCSpec == MCInit /\ [][Next]_vars /\ WF_vars(Next)
=============================================================================
