---------------------------- MODULE MCCodeTask ----------------------------
EXTENDS CodeTask
CONSTANTS f1, f2
MCFiles == {f1, f2}
MCPurposes == {"plan", "propose", "review", "repair", "repair_review", "local_process"}
\* An uncapped streaming connection in both modes, with and without a token
\* allowance, and a capped chat connection.
MCClients ==
  [capped : {FALSE}, stream : {TRUE}, limited : BOOLEAN, modes : {<<"responses", "chat">>}]
  \cup [capped : {TRUE}, stream : {FALSE}, limited : {TRUE}, modes : {<<"chat">>}]
=============================================================================
