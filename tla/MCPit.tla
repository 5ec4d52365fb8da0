------------------------------- MODULE MCPit -------------------------------
EXTENDS PitSystem

Cmd(rls, ms) == [rl : rls, m : ms]
Modes     == Cmd({1}, {2, 5}) \cup Cmd({2}, {1}) \cup Cmd({3}, {7})
                 \cup Cmd({0}, {0})
WordModes == Cmd({3}, {3})
=============================================================================
