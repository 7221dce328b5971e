--------------------------- MODULE MCUsageStatistics ---------------------------
EXTENDS UsageStatistics

CONSTANTS chat, second, gateway, worker

OneThread == {chat}
TwoThreads == {chat, second}
Gateway == {gateway}
BothProcesses == {gateway, worker}

\* Two requests of the gateway, or a request and a run of the worker.
Pairs == {f \in [TwoThreads -> BothProcesses] : f[chat] = gateway}
Alone == {[t \in OneThread |-> gateway]}

\* A thread records twice, and another once.
Records == [t \in Threads |-> IF t = chat THEN 2 ELSE 1]

New == {0}
BeforeLast == {2}

=============================================================================
