------------------------------- MODULE MCHostCwd -------------------------------
(* A host that works in two directories, with one relative and one absolute  *)
(* output directory.                                                         *)
EXTENDS HostCwd

CONSTANTS h1, h2, o1, o2, abs, rel

MCDirs == {h1, h2, o1, o2, abs, Library}
MCchild == [d \in {h1, h2}, n \in {rel} |-> IF d = h1 THEN o1 ELSE o2]

\* The host's directories stay, the library may go away, outputs do anything.
MCStates == [d \in MCDirs |->
    CASE d \in {h1, h2} -> {"open"} [] d = Library -> {"open", "gone"} [] OTHER -> Fates]

ASSUME HostDoesStay == HostStays
=============================================================================
