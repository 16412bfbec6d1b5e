----------------------------- MODULE MCPipeline -----------------------------
(* Every combination of options of a route, chains of two; of the document *)
(* and of what is not a route's, every combination that bears on it.       *)
EXTENDS RequestPipeline, TLC

AllConfigs ==
  {c \in ConfigType :
     /\ c.path # "route" =>
          ~c.body /\ ~c.refine /\ ~c.guards /\ ~c.hooks /\ ~c.timed /\ ~c.checked
     /\ c.path \notin {"document", "route"} => ~c.secured /\ ~c.context}
=============================================================================
