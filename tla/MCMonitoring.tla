---------------------------- MODULE MCMonitoring -----------------------------
EXTENDS Monitoring

CONSTANTS r1

MCRules == {r1}
==============================================================================
