--------------------------- MODULE MCStoryProcess ---------------------------
\* Instances for TLC: as many as workers, each serving one of them.
EXTENDS StoryProcess

OneEach == [s \in Worker |-> s]
=============================================================================
