-------------------------- MODULE MCContinualRequest --------------------------
EXTENDS ContinualRequest
CONSTANTS mesh, istio, tenantA, tenantB
==============================================================================
