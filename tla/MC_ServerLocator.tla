-------------------------- MODULE MC_ServerLocator --------------------------
EXTENDS ServerLocator
=============================================================================
