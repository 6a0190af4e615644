--------------------------- MODULE BayeuxClientMC ---------------------------
EXTENDS BayeuxClient
=============================================================================
