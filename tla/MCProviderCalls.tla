---------------------------- MODULE MCProviderCalls ----------------------------
(* Two onboardings and a lookup over sockets of which two may be lost.        *)
EXTENDS ProviderCalls

CONSTANTS o1, o2, l1

MCOnboardings == {o1, o2}
MCLookups == {l1}
=============================================================================
