------------------------ MODULE MCUnitStatusHandler -------------------------
EXTENDS UnitStatusHandler

\* The unit config, which has a handler of its own, and one of the others.
MCParts == <<"config", "nodes">>
=============================================================================
