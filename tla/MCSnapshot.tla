----------------------------- MODULE MCSnapshot -----------------------------
(* Snapshot with the sets that TLC needs.                                   *)
EXTENDS Snapshot

CONSTANTS b1, b2, b3

ThreeBackends == {b1, b2, b3}
OneUpdater == {b1}
OneMarker == {b2}
OneCleaner == {b3}
=============================================================================
