------------------------------ MODULE MCParse -------------------------------
EXTENDS Parse
=============================================================================
