-------------------------- MODULE MCSettingsMirror --------------------------
(* Instances of SettingsMirror for TLC.                                       *)
EXTENDS SettingsMirror

CONSTANTS r1, r2, p1

TwoReplicas == {r1, r2}
OnePut == {p1}
=============================================================================
