---------------------------- MODULE MCDeviceFlow ----------------------------
(* Small instances of DeviceFlow for TLC. *)
EXTENDS DeviceFlow

\* One interval below MinInterval and one above it.
AskedIntervals == {MinInterval - 1, MinInterval + 1}
=============================================================================
