-------------------------------- MODULE HostCwd --------------------------------
(***************************************************************************)
(* The working directory of the host process during a force call           *)
(* (src/src/cpmdc_memfd.c, called by run_embed_scf).  A cold call enters   *)
(* the pseudopotential library, both kinds of call run CPMD in the output  *)
(* directory, and every call is to leave the host where it was.            *)
(*                                                                         *)
(* A call is split where other processes can change the file system under  *)
(* it: while CPMD reads the library and while the SCF runs.                *)
(*                                                                         *)
(* A definition marked "Fault" is a wrong variant of the one after it.  No *)
(* behaviour uses it: it is there to show that a property would notice.    *)
(***************************************************************************)
EXTENDS Naturals

CONSTANTS
    Dirs,       \* directories, by absolute path
    HostDirs,   \* those the host itself works in
    Library,    \* the pseudopotential directory
    Outputs,    \* output directories named by an absolute path
    Names,      \* relative output directories
    child,      \* child[d, n]: the directory that n names from host directory d
    States,     \* States[d]: what can become of directory d
    None        \* no output directory; nothing saved

\* open: can be entered.  closed: exists, but cannot be entered.
Fates == {"open", "closed", "gone"}

ASSUME Layout ==
    /\ HostDirs \cup Outputs \cup {Library} \subseteq Dirs
    /\ child \in [HostDirs \X Names -> Dirs]
    /\ States \in [Dirs -> SUBSET Fates]
    /\ None \notin Dirs \cup Names /\ Names \cap Dirs = {}

\* Nobody asks CPMD to write into its library, or works in it.
ASSUME LibraryIsApart ==
    /\ Library \notin HostDirs \cup Outputs
    /\ \A d \in HostDirs, n \in Names : child[d, n] # Library

VARIABLES
    at,     \* the working directory of the process
    saved,  \* g_host_cwd, None when g_host_cwd_saved is 0
    fs,     \* the state of every directory
    phase,  \* host: outside a call; reading: in the library; scf: CPMD runs
    home,   \* where the host last put itself
    out,    \* the output directory of the call in progress
    latched \* embed_basis_latched: the engine can serve a warm call

vars == <<at, saved, fs, phase, home, out, latched>>

Asked == {None} \cup Names \cup Outputs

Init ==
    /\ home \in HostDirs
    /\ at = home
    /\ saved = None
    /\ fs = [d \in Dirs |-> "open"]
    /\ phase = "host"
    /\ out = None
    /\ latched = FALSE

-----------------------------------------------------------------------------
(* cpmdc_memfd.c, on a process p = [at, saved]; ok is the return value *)

Process == [at |-> at, saved |-> saved, ok |-> TRUE]

Failed(p) == [p EXCEPT !.ok = FALSE]

Chdir(p, d) == IF fs[d] = "open" THEN [p EXCEPT !.at = d] ELSE Failed(p)

\* getcwd fails in a directory that was removed.
SaveHost(p) ==
    IF p.saved # None THEN p
    ELSE IF fs[p.at] = "gone" THEN Failed(p)
    ELSE [p EXCEPT !.saved = p.at]

\* Fault: the library is entered before anything is saved.
PreparePpUnsaved(p) ==
    IF fs[Library] = "gone" THEN Failed(p) ELSE Chdir(p, Library)

\* The library is looked at before the host directory is saved.
PreparePp(p) ==
    LET s == SaveHost(p)
    IN  IF fs[Library] = "gone" THEN Failed(p)
        ELSE IF s.ok THEN Chdir(s, Library) ELSE s

\* Where CPMD is to run for a host in directory d.
Resolve(o, d) == IF o = None THEN d ELSE IF o \in Names THEN child[d, o] ELSE o

\* Fault: without an output directory the process stays where it is.
EnterOutputIfNamed(p, o) ==
    LET s    == SaveHost(p)
        base == IF s.ok /\ o \in Names THEN Chdir(s, s.saved) ELSE s
    IN  IF o = None \/ ~base.ok THEN base ELSE Chdir(base, Resolve(o, base.saved))

\* An absolute path needs no stop in the host directory.
EnterOutput(p, o) ==
    LET s    == SaveHost(p)
        base == IF s.ok /\ o \in Names THEN Chdir(s, s.saved) ELSE s
    IN  IF base.ok THEN Chdir(base, Resolve(o, base.saved)) ELSE base

\* Fault: the saved directory is remembered for the next call.
RestoreRemembers(p) ==
    IF p.saved # None /\ fs[p.saved] = "open" THEN [p EXCEPT !.at = p.saved] ELSE p

RestoreHost(p) ==
    IF p.saved = None THEN p
    ELSE IF fs[p.saved] = "open" THEN [p EXCEPT !.at = p.saved, !.saved = None]
    ELSE Failed(p)

Move(p) == at' = p.at /\ saved' = p.saved

-----------------------------------------------------------------------------
(* run_embed_scf *)

\* Fault: a call that cannot enter the output directory ends where it is.
ToOutputOrStay(p, o) ==
    Move(EnterOutput(p, o)) /\ phase' = IF EnterOutput(p, o).ok THEN "scf" ELSE "host"

\* Into the output directory and on with the SCF, or back to the host.
ToOutput(p, o) ==
    LET e == EnterOutput(p, o)
    IN  IF e.ok THEN Move(e) /\ phase' = "scf"
        ELSE Move(RestoreHost(e)) /\ phase' = "host"

WarmCall(o) ==
    /\ phase = "host"
    /\ latched
    /\ out' = o
    /\ ToOutput(Process, o)
    /\ UNCHANGED <<fs, home, latched>>

\* The first call, or one on another basis.  A library that cannot be entered
\* ends the call without a restore; so does a deck that cannot be composed,
\* which leaves the directory alone.
ColdCall(o) ==
    /\ phase = "host"
    /\ out' = o
    /\ latched' = FALSE
    /\ \/ /\ Move(PreparePp(Process))
          /\ phase' = IF PreparePp(Process).ok THEN "reading" ELSE "host"
       \/ UNCHANGED <<at, saved, phase>>
    /\ UNCHANGED <<fs, home>>

LeaveLibrary ==
    /\ phase = "reading"
    /\ ToOutput(Process, out)
    /\ UNCHANGED <<fs, home, out, latched>>

\* A converged SCF latches, a stopgm clears the latch.
Return ==
    /\ phase = "scf"
    /\ Move(RestoreHost(Process))
    /\ phase' = "host"
    /\ latched' \in BOOLEAN
    /\ UNCHANGED <<fs, home, out>>

\* The host's own chdir, between two calls.
HostChdir(d) ==
    /\ phase = "host"
    /\ fs[d] = "open"
    /\ at' = d
    /\ home' = d
    /\ UNCHANGED <<saved, fs, phase, out, latched>>

\* Someone else removes, closes or restores a directory, at any moment.
Change(d, fate) ==
    /\ fs' = [fs EXCEPT ![d] = fate]
    /\ UNCHANGED <<at, saved, phase, home, out, latched>>

Next ==
    \/ \E o \in Asked : WarmCall(o) \/ ColdCall(o)
    \/ LeaveLibrary
    \/ Return
    \/ \E d \in HostDirs : HostChdir(d)
    \/ \E d \in Dirs : \E fate \in States[d] : Change(d, fate)

Spec == Init /\ [][Next]_vars

-----------------------------------------------------------------------------
(* Properties *)

\* Types, and the library is only ever entered with a host directory saved.
TypeOK ==
    /\ at \in Dirs
    /\ saved \in HostDirs \cup {None}
    /\ fs \in [Dirs -> Fates]
    /\ phase \in {"host", "reading", "scf"}
    /\ home \in HostDirs
    /\ out \in Asked
    /\ latched \in BOOLEAN
    /\ saved = None => at \in HostDirs

\* CPMD never runs in the pseudopotential library, whatever becomes of the
\* directories during the calls: "leave that directory before the SCF so a
\* stray write cannot land on the library".
LibraryStaysClean == phase = "scf" => at # Library

\* The file system under which a call finds its way: the directories the host
\* works in stay open, and the library may go but is never closed.
HostStays ==
    /\ \A d \in HostDirs : States[d] \subseteq {"open"}
    /\ "closed" \notin States[Library]

\* While host directories stay and the library is never closed: the SCF runs
\* in the asked directory, relative to where the host is at this call.
ScfInOutputDirectory == phase = "scf" => at = Resolve(out, home)

\* While host directories stay and the library is never closed: every call
\* leaves the host where it found it, the failing ones included.
ReturnsHome == phase = "host" => at = home
=============================================================================
