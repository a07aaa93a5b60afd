-------------------------- MODULE MCStoryGovernance --------------------------
\* Hosts for TLC: each serves one slot, so that their event loops are apart.
EXTENDS StoryGovernance

OneEach == [s \in Slot |-> s]
=============================================================================
