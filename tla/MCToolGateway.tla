--------------------------- MODULE MCToolGateway ---------------------------
\* Two tools, a name that is none, and two threads; threshold, slots and timeout
\* small enough for a circuit to open, half-open and close again while calls are
\* under way.
EXTENDS ToolGateway

CONSTANTS fine_tune, get_runtime, unknown, execute_tool, t1, t2

MCTools == {fine_tune, get_runtime, unknown}
MCRegistered == {fine_tune, get_runtime}
MCCallers == {t1, t2}
=============================================================================
