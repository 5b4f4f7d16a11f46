----------------------------- MODULE MCFlowGate -----------------------------
\* Two producers of one handler, two concurrent grants, and one stream that
\* may end at any time.
EXTENDS FlowGate, TLC

CONSTANTS p1, p2, g1, g2

MCProducers == {p1, p2}
MCGranters == {g1, g2}
MCAmounts == {1, 2}
=============================================================================
