------------------------------- MODULE MCCalls --------------------------------
\* Two API clients, three instance ids, calls up to two levels deep, one crash.
EXTENDS Calls
=============================================================================
