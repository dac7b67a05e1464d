-------------------------- MODULE BluetoothLinkClaims --------------------------
(***************************************************************************)
(* What a comment of notifyowner.go says of the Bluetooth leg, and the     *)
(* code does not keep: its check is expected to find it violated.          *)
(***************************************************************************)
EXTENDS BluetoothLink

\* notifyowner.go:15, "It is therefore correct in front of any BluetoothClient": once
\* everything has settled, a leg that is shown as connected over a live link delivers
\* notifications.
ListensAfterReconnect ==
  Quiet /\ status = "connected" /\ connected /\ gatt # NoGatt /\ link[gatt] = "up"
    => installed /\ subscribed = gatt
=============================================================================
