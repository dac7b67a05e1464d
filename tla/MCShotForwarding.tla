-------------------------- MODULE MCShotForwarding --------------------------
(* ShotForwarding with two shots, and notifications whose spins are absent,  *)
(* negative and positive, under three validity masks.                       *)
EXTENDS ShotForwarding
Spin == {<<0, 128>>, <<255, 255>>, <<44, 1>>}
MCFrames ==
  {<<17, 2, mask, 1, 0, 2, 0, 3, 0>> \o total \o axis \o back \o side :
     mask \in {0, 2, 55}, total \in Spin, axis \in Spin, back \in Spin, side \in Spin}
=============================================================================
