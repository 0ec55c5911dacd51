-------------------------- MODULE MCFixSuggestions --------------------------
EXTENDS FixSuggestions
=============================================================================
