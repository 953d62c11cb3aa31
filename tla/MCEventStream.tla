--------------------------- MODULE MCEventStream ---------------------------
EXTENDS EventStream

MCEmitters == {"main", "agent"}
MCMain == "main"
MCMaxEvents == [e \in MCEmitters |-> IF e = MCMain THEN 1 ELSE 2]
=============================================================================
