--------------------------- MODULE MCLoadBalance ---------------------------
(* Instances of TimingGroup and LoadBalance for TLC: a group whose entries  *)
(* stay, one whose counters have four bits and wrap, and one with wrappers. *)
EXTENDS LoadBalance

Setting(direct, fixed, modulus, limit) ==
  [direct |-> direct, fixed |-> fixed, modulus |-> modulus, limit |-> limit]

AllSettings == {Setting(TRUE, TRUE, 1024, 60),
                Setting(TRUE, FALSE, 16, 60),
                Setting(FALSE, FALSE, 128, 6)}
============================================================================
