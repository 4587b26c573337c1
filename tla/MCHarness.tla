------------------------------ MODULE MCHarness ------------------------------
EXTENDS Harness
CONSTANT east
==============================================================================
