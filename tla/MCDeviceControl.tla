-------------------------- MODULE MCDeviceControl --------------------------
(* DeviceControl for TLC, with update tasks as model values.               *)
EXTENDS DeviceControl

CONSTANT u1
=============================================================================
