----------------------------- MODULE PkgRegistry -----------------------------
(***************************************************************************)
(* What nprt-pkg promises its user: a set of installed packages that each  *)
(* command changes as a whole or not at all.  Lose is the one thing that   *)
(* the implementation does beyond that.                                    *)
(***************************************************************************)
CONSTANTS Packages, Versions

VARIABLES installed,
          lost  \* the list was lost at least once

Line(package, version) == [name |-> package, version |-> version]
Others(package) == {l \in installed : l.name # package}
IsInstalled(package) == \E l \in installed : l.name = package

RegistryInit == installed = {} /\ lost = FALSE

Install(package, version) ==
  /\ installed' = Others(package) \cup {Line(package, version)}
  /\ UNCHANGED lost

Update(package, version) ==
  /\ IsInstalled(package)
  /\ installed' = Others(package) \cup {Line(package, version)}
  /\ UNCHANGED lost

Remove(package) ==
  /\ IsInstalled(package)
  /\ installed' = Others(package)
  /\ UNCHANGED lost

\* Everything is gone, never a part of it.
Lose == installed' = {} /\ lost' = TRUE

RegistryNext ==
  \/ \E package \in Packages, version \in Versions :
       Install(package, version) \/ Update(package, version)
  \/ \E package \in Packages : Remove(package)
  \/ Lose

RegistrySpec == RegistryInit /\ [][RegistryNext]_<<installed, lost>>
=============================================================================
