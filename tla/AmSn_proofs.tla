---------------------------- MODULE AmSn_proofs ----------------------------
(***************************************************************************)
(* Facts about sequence-number arithmetic, for windows of every size.      *)
(***************************************************************************)
EXTENDS AmSn, DataLemmas

\* A distance is a sequence number, and zero between equal ones only.
LEMMA ModSnType ==
    ASSUME NEW x \in Sn, NEW z \in Sn
    PROVE  /\ ModSn(x, z) \in Sn
           /\ ModSn(x, z) = 0 <=> x = z
  BY WinSzAssumption, SMT DEF Sn, SnMod, ModSn

\* Adding to a sequence number stays in the space.
LEMMA AddSnType ==
    ASSUME NEW x \in Sn, NEW k \in 0 .. SnMod
    PROVE  AddSn(x, k) \in Sn
  BY WinSzAssumption, SMT DEF Sn, SnMod, AddSn

\* Adding a distance and taking it are inverse to each other.
LEMMA ModSnAddSn ==
    ASSUME NEW z \in Sn, NEW k \in Sn
    PROVE  ModSn(AddSn(z, k), z) = k
  BY WinSzAssumption, SMT DEF Sn, SnMod, AddSn, ModSn

\* Going the distance from base to sn leads from base to sn.
LEMMA AddSnModSn ==
    ASSUME NEW x \in Sn, NEW z \in Sn
    PROVE  AddSn(z, ModSn(x, z)) = x
  BY WinSzAssumption, SMT DEF Sn, SnMod, AddSn, ModSn

\* Two sequence numbers at the same distance are the same.
LEMMA ModSnInjective ==
    ASSUME NEW x \in Sn, NEW y \in Sn, NEW z \in Sn, ModSn(x, z) = ModSn(y, z)
    PROVE  x = y
  BY WinSzAssumption, SMT DEF Sn, SnMod, ModSn

\* The successor is one further from base, unless it is base itself.
LEMMA ModSnSucc ==
    ASSUME NEW x \in Sn, NEW z \in Sn, ModSn(x, z) < WinSz
    PROVE  ModSn(AddSn(x, 1), z) = ModSn(x, z) + 1
  BY WinSzAssumption, SMT DEF Sn, SnMod, AddSn, ModSn

\* Moving the base by k subtracts k from the distance of what is not passed
\* and adds the rest of the circle to what is.
LEMMA ModSnShift ==
    ASSUME NEW x \in Sn, NEW z \in Sn, NEW k \in Sn
    PROVE  ModSn(x, AddSn(z, k)) = IF k <= ModSn(x, z) THEN ModSn(x, z) - k
                                   ELSE ModSn(x, z) - k + SnMod
  BY WinSzAssumption, SMT DEF Sn, SnMod, AddSn, ModSn

=============================================================================
