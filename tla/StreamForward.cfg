CONSTANT MaxChunks = 1
SPECIFICATION FairSpec
\* A forward that has ended does nothing any more.
CHECK_DEADLOCK FALSE
INVARIANTS FinComesLast RefusedIsUntouched
PROPERTIES TunnelSpec HalfCloseLosesNothing OnlySilentPeersHoldIt
