----------------------------- MODULE MCMlsChannel -----------------------------
(* OwnerDevices are the owner's, every other device is the member's.  The    *)
(* founder starts up to FounderTries operations, every other OtherTries.     *)
EXTENDS MlsChannel

CONSTANTS owner, member, OwnerDevices, FounderTries, OtherTries

MCUserOf == [d \in Devices |-> IF d \in OwnerDevices THEN owner ELSE member]

MCMaxTries == [d \in Devices |-> IF d = Founder THEN FounderTries ELSE OtherTries]
=============================================================================
