------------------------------- MODULE MCPing -------------------------------
EXTENDS PingFlood

CONSTANTS n1, n2, n3, f1, f2, f3
=============================================================================
