------------------------ MODULE MCPendingOperations ------------------------
EXTENDS PendingOperations

CONSTANTS web, panel, read, write, call, home

TwoOnWeb == [m \in Messages |-> IF m = home THEN panel ELSE web]

\* A client that keeps asking gets its reply, and until a stop no reply is
\* evicted while its server has room for it (claim() and store(),
\* operations.py:324).
PatientIsServed == NoNeedlessEviction /\ PatientClientServed
=============================================================================
