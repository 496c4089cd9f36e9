--------------------------- MODULE MCProviderTurn ---------------------------
\* One slot, two conversations, and the classes that are told apart.
EXTENDS ProviderTurn

=============================================================================
