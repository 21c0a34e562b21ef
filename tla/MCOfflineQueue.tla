--------------------------- MODULE MCOfflineQueue ---------------------------
(* Instances of OfflineQueue for TLC: a delivery photo and a status update. *)
EXTENDS OfflineQueue

CONSTANTS photo, photo2, status, t1, t2

TwoActions == {photo, status}
ThreeActions == {photo, photo2, status}
OnePhoto   == {photo}
TwoTaps    == {t1, t2}
OneTap     == {t1}
=============================================================================
