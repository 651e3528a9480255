----------------------------- MODULE MCAgentLoop -----------------------------
(* Small instances of AgentLoop: one file with two contents.               *)
EXTENDS AgentLoop

CONSTANTS file, oldText, newText, tests, yes

NoCommands  == <<>>
OneCommand  == <<tests>>
NoFileEdits == {}
OneEdit     == {<<file, oldText, newText>>}
==============================================================================
