----------------------------- MODULE MCUpgrade -----------------------------
(* Instances of Upgrade: two processes on a fresh database, on databases   *)
(* of older releases and of a newer one.                                   *)
EXTENDS Upgrade

CONSTANTS p1, p2, f1, f2, t1, v1, v2, w

MCFunctions == <<f1, f2>>
MCNames == <<t1, v1, v2, w>>
MCViews == {v1, v2, w}
(* A constraint of t1 calls f2; v1 reads t1, v2 reads v1, w is VALUES.     *)
MCRefs == [d \in {f1, f2, t1, v1, v2, w} |->
    CASE d = t1 -> {f2} [] d = v1 -> {t1} [] d = v2 -> {v1} [] OTHER -> {}]

All(n) == [d \in Defs |-> n]
Old(b, p, s) ==
    [fmt |-> [bin |-> b, plan |-> p, seed |-> s], bin |-> All(b), dangling |-> {},
     viewdep |-> {v1, v2}, plans |-> {p} \ {0}, seed |-> IF s = 8 THEN "cur" ELSE "old"]
Fresh == [fmt |-> [bin |-> 0, plan |-> 0, seed |-> 0], bin |-> All(0), dangling |-> {},
          viewdep |-> {}, plans |-> {}, seed |-> "none"]
(* Some nodes of f1 were left behind by an error of an older release.      *)
Left(d) == [d EXCEPT !.dangling = {f1}, !.bin[f1] = 0]
MCDatabases ==
    {Fresh, Old(19, 29, 0), Old(19, 29, 6), Old(19, 29, 7), Old(19, 30, 8), Old(20, 29, 8),
     Old(21, 30, 8), Left(Old(19, 29, 7))}

=============================================================================
