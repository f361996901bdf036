------------------------------ MODULE MCBridge ------------------------------
(***************************************************************************)
(* Bridge instantiated for TLC.  The random generator the Math module owns *)
(* is always the first object address.                                     *)
(***************************************************************************)
EXTENDS Bridge, TLC

CONSTANTS o1, o2, o3, p1, p2, p3

\* The love::Type hierarchy of the objects the modelled wrappers create.
MCParent ==
    [k \in {"Object", "Data", "File", "NativeFile", "FileData", "RandomGenerator"} |->
        CASE k = "Object" -> "none"
          [] k = "FileData" -> "Data"
          [] k = "NativeFile" -> "File"
          [] OTHER -> "Object"]

\* Proxy slots are interchangeable, and so are the addresses no module owns.
Symm == Permutations(Proxies) \cup Permutations(Objects \ ModuleOwned)

=============================================================================
