---------------------------- MODULE MCConversation ----------------------------
\* Constants of the run of Conversation: the threads that flush and silence.
EXTENDS Conversation

CONSTANTS keyboard, control
=============================================================================
