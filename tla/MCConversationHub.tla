-------------------------- MODULE MCConversationHub --------------------------
(* Instances of ConversationHub for TLC.                                    *)
EXTENDS ConversationHub

CONSTANTS hermes, codex, butler, none
=============================================================================
