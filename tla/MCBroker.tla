------------------------------ MODULE MCBroker ------------------------------
(* Small instances of Broker for TLC. *)
EXTENDS Broker, TLC

CONSTANTS oldA, newA, onlyB,      \* host connections
          iA, iB,                 \* installs
          m1, m2,                 \* mcp sessions
          read, eval              \* a plain request and one of the armed tier

MCInstallOf == [h \in Hosts |-> IF h = onlyB THEN iB ELSE iA]
MCAsker     == [r \in Requests |-> m1]
MCTarget    == [r \in Requests |-> iA]
=============================================================================
