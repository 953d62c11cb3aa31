---------------------------- MODULE MCStageWork ----------------------------
EXTENDS StageWork, TLC

MCAgents == {"dev", "doc", "lost"}
MCKnown == {"dev", "doc"}
MCPrompted == {"doc"}
MCSchemaless == {}

\* A required gate with a retry, one whose threshold may fail to parse, an
\* optional one and one of a type that is not supported.
MCGates ==
  << [name |-> "unit", kind |-> "command", command |-> TRUE, required |-> TRUE,
      retries |-> 1],
     [name |-> "cover", kind |-> "threshold", command |-> TRUE, required |-> TRUE,
      retries |-> 0],
     [name |-> "lint", kind |-> "other", command |-> TRUE, required |-> TRUE,
      retries |-> 0] >>

MCChecks ==
  << [kind |-> "command", severity |-> "warning", blocking |-> TRUE],
     [kind |-> "baseline", severity |-> "error", blocking |-> TRUE] >>

Quiet == {<<>>}

\* One agent with two configured artifacts, both required; two agents in
\* threads; an artifact named after an output file; an agent that is not
\* configured, in threads and in turn; no agents for a required artifact;
\* two agents for an artifact that needs a single one.
MCSetups ==
  { [agents |-> <<"dev">>, parallel |-> FALSE, json |-> 2,
     required |-> {<<"stage", 1>>, <<"stage", 2>>},
     says |-> {<<1, 2>>, <<0, 1, 2>>, <<1>>, <<2, 1>>}, gate |-> "hard"],
    [agents |-> <<"dev", "doc">>, parallel |-> TRUE, json |-> 0,
     required |-> {}, says |-> Quiet, gate |-> "soft"],
    [agents |-> <<"dev">>, parallel |-> FALSE, json |-> 0,
     required |-> {<<"dev", 0>>}, says |-> {<<1>>, <<1, 1>>}, gate |-> "hard"],
    [agents |-> <<"lost", "dev">>, parallel |-> TRUE, json |-> 0,
     required |-> {}, says |-> Quiet, gate |-> "hard"],
    [agents |-> <<"dev", "lost">>, parallel |-> FALSE, json |-> 0,
     required |-> {}, says |-> Quiet, gate |-> "hard"],
    [agents |-> <<>>, parallel |-> FALSE, json |-> 1, required |-> {<<"stage", 1>>},
     says |-> Quiet, gate |-> "hard"],
    [agents |-> <<"dev", "doc">>, parallel |-> FALSE, json |-> 1,
     required |-> {}, says |-> Quiet, gate |-> "hard"] }
=============================================================================
