----------------------------- MODULE MCMlsStartup -----------------------------
EXTENDS MlsStartup

CONSTANTS owner, member, d1, d2

MCUserOf == [d \in Devices |-> IF d = d1 THEN owner ELSE member]
=============================================================================
