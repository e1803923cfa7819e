---------------------------- MODULE MCChatLoops -----------------------------
EXTENDS ChatLoops
==============================================================================
