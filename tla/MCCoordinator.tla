---------------------------- MODULE MCCoordinator ----------------------------
EXTENDS Coordinator

\* The default debouncer, which calls at once, and one that never does.
MCOptions == {[immediate |-> TRUE, polling |-> TRUE, always |-> FALSE],
              [immediate |-> FALSE, polling |-> TRUE, always |-> TRUE]}
=============================================================================
