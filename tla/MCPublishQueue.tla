---------------------------- MODULE MCPublishQueue ----------------------------
(* Instances of PublishQueue for TLC. *)
EXTENDS PublishQueue

ShortBackoff == <<1, 2>>
=============================================================================
