--------------------------- MODULE MCAssertions ---------------------------
(***************************************************************************)
(* Assertions in two scenes, of which the initial state picks one: in the  *)
(* first, keys rotate while assertions, some of them damaged, are under    *)
(* way; in the second, an assertion is presented again and again until it  *)
(* is too old.                                                             *)
(***************************************************************************)
EXTENDS Assertions

AllDamages == {"none", "invalidToken", "algorithm", "signature", "issuer", "audience"}

VARIABLE scene

ScenesInit == scene \in {"rotation", "replay"} /\ AssertionsInit

Rotation == time <= Epoch + 2 /\ Len(presented) <= 1

Replay ==
  /\ active = 1 /\ published = KeySet(1)
  /\ \A i \in DOMAIN presented : presented[i].damage = "none"

ScenesNext ==
  /\ AssertionsNext
  /\ IF scene = "rotation" THEN Rotation' ELSE Replay'
  /\ UNCHANGED scene

ScenesSpec == ScenesInit /\ [][ScenesNext]_<<assertionVars, scene>>
===========================================================================
