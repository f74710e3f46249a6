--------------------------- MODULE MCAssistantChats --------------------------
(* Two chats in one tab. *)
EXTENDS AssistantChats
=============================================================================
