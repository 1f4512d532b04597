----------------------------- MODULE MCToolGate -----------------------------
(* The permission modes for the instances of ToolGate that TLC checks. *)
EXTENDS ToolGate

AllPermissions == {"auto", "confirm", "suggest"}
=============================================================================
