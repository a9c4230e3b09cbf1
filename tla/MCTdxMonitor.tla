---------------------------- MODULE MCTdxMonitor ----------------------------
EXTENDS TdxMonitor
=============================================================================
