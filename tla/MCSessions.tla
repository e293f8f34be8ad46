----------------------------- MODULE MCSessions -----------------------------
(* Sessions on a small instance: two logins from one kind of device.        *)
EXTENDS Sessions, TLC
=============================================================================
