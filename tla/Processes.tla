----------------------------- MODULE Processes -----------------------------
(* The operating-system processes of the workspace: one study-tts command each. *)

CONSTANT Proc
=============================================================================
