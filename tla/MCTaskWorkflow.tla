---------------------------- MODULE MCTaskWorkflow ----------------------------
EXTENDS TaskWorkflow

CONSTANTS f1, f2, f3

One == {f1}
Three == {f1, f2, f3}
Nothing == {}

AllModes == {"codex", "yes", "prompt"}
CodexOnly == {"codex"}

\* The user leaves the tree alone while a command of the worker runs.
Idle == {"idle"}

=============================================================================
