------------------------------- MODULE MCUpgrade -------------------------------
(***************************************************************************)
(* Upgrade of a HW2 64drive with what NewRPK reads from archives: two      *)
(* firmwares for it, one for HW1, a bootloader, and a firmware whose root  *)
(* blob lost a child, which leaves it without an asset.                    *)
(***************************************************************************)
EXTENDS Upgrade

MCOriginals ==
  {[type |-> t, magic |-> "UDEV", variant |-> v, asset |-> a] :
     <<t, v, a>> \in {<<"firmware", "B", "2.05">>, <<"firmware", "B", "2.06">>,
                      <<"firmware", "A", "1.05">>, <<"bootloader", "B", "boot">>}}

Rpk == INSTANCE Rpk

MCFiles ==
  LET published == {Rpk!Published(a, "C", "U") : a \in MCOriginals}
  IN  published \cup {[file EXCEPT ![1].children = 1] : file \in published}

MCArchives == {Rpk!NewRPK(file).rpk : file \in {f \in MCFiles : Rpk!NewRPK(f).ok}}

\* The archive of each command, when damaged, was refused or read as it was published
\* (newBlobFromReader, NewRPKFromReader).
DamageDetected == pc = "version" => Rpk!DamageDetected(archive)
==============================================================================
