---------------------------- MODULE MCResources -----------------------------
EXTENDS Resources
=============================================================================
