------------------------------- MODULE MCGate -------------------------------
\* A small instance of Gate: a buy button with a limit of its own over a
\* longer window, and a console button without one.
EXTENDS Gate

MCActions == {"buy_item"}
MCActionLimit == [a \in MCActions |-> 1]
MCActionWindow == [a \in MCActions |-> 3]
MCKinds == {"buy_", "console"}
MCAction == [k \in MCKinds |-> IF k = "buy_" THEN "buy_item" ELSE "default"]
=============================================================================
