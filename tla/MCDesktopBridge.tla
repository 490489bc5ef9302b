--------------------------- MODULE MCDesktopBridge ---------------------------
(***************************************************************************)
(* An instance of DesktopBridge.                                           *)
(***************************************************************************)
EXTENDS DesktopBridge
=============================================================================
