------------------------------ MODULE MCScripts ------------------------------
EXTENDS Scripts

CONSTANTS a, b

\* Two scripts that call each other; two queued ones could wait for each other
\* for ever.
MCModesOf == [s \in Scripts |-> IF s = a THEN {"restart", "queued"}
                                ELSE {"single", "restart", "parallel"}]
MCMayCall == [s \in Scripts |-> IF s = a THEN {a, b} ELSE {a}]
=============================================================================
