----------------------------- MODULE HostCwd_proofs -----------------------------
(* What holds of the working directory whatever the directories, the library *)
(* and the fates of the file system are.                                     *)
EXTENDS HostCwd, TLAPS

Processes == [at : Dirs, saved : HostDirs \cup {None}, ok : BOOLEAN]

\* A process that a call may leave behind: in a host directory unless it has
\* saved the one to go back to.
Anchored(p) == p \in Processes /\ (p.saved = None => p.at \in HostDirs)

\* The strengthening: the library is where the process is only while it reads
\* it or after a call that found no way home, and then the way home is saved.
IInv == TypeOK /\ LibraryStaysClean

-----------------------------------------------------------------------------
(* The steps of cpmdc_memfd.c, one lemma each *)

LEMMA ResolveDir ==
    ASSUME NEW o \in Asked, NEW d \in HostDirs
    PROVE  Resolve(o, d) \in Dirs \ {Library}
BY Layout, LibraryIsApart DEF Resolve, Asked

LEMMA ChdirAnchored ==
    ASSUME NEW p \in Processes, NEW d \in Dirs, p.saved # None
    PROVE  /\ Anchored(Chdir(p, d))
           /\ Chdir(p, d).saved = p.saved
           /\ p.ok /\ Chdir(p, d).ok => Chdir(p, d).at = d
BY Layout DEF Processes, Anchored, Chdir, Failed

LEMMA SaveHostAnchored ==
    ASSUME NEW p, Anchored(p), p.ok
    PROVE  /\ Anchored(SaveHost(p))
           /\ SaveHost(p).ok => SaveHost(p).saved \in HostDirs
BY Layout DEF Processes, Anchored, SaveHost, Failed

LEMMA PreparePpAnchored ==
    ASSUME NEW p, Anchored(p), p.ok
    PROVE  /\ Anchored(PreparePp(p))
           /\ PreparePp(p).ok => PreparePp(p).saved \in HostDirs
<1> DEFINE s == SaveHost(p)
<1>1. Anchored(s) /\ (s.ok => s.saved \in HostDirs)
  BY SaveHostAnchored
<1>2. CASE fs[Library] = "gone"
  BY <1>2 DEF PreparePp, Failed, Anchored, Processes
<1>3. CASE fs[Library] # "gone" /\ ~s.ok
  BY <1>1, <1>3 DEF PreparePp
<1>4. CASE fs[Library] # "gone" /\ s.ok
  <2>1. s \in Processes /\ s.saved # None /\ Library \in Dirs
    BY <1>1, <1>4, Layout DEF Anchored
  <2>2. Anchored(Chdir(s, Library)) /\ Chdir(s, Library).saved = s.saved
    BY <2>1, ChdirAnchored
  <2> QED BY <1>1, <1>4, <2>2 DEF PreparePp
<1> QED BY <1>2, <1>3, <1>4

LEMMA EnterOutputAnchored ==
    ASSUME NEW p, Anchored(p), p.ok, NEW o \in Asked
    PROVE  /\ Anchored(EnterOutput(p, o))
           /\ EnterOutput(p, o).ok => EnterOutput(p, o).at # Library
<1> DEFINE s == SaveHost(p)
           base == IF s.ok /\ o \in Names THEN Chdir(s, s.saved) ELSE s
           d == Resolve(o, base.saved)
<1>1. Anchored(s) /\ (s.ok => s.saved \in HostDirs)
  BY SaveHostAnchored
<1>2. CASE ~s.ok
  BY <1>1, <1>2 DEF EnterOutput
<1>3. CASE s.ok
  <2>1. s \in Processes /\ s.saved # None /\ s.saved \in Dirs
    BY <1>1, <1>3, Layout DEF Anchored
  <2>2. Anchored(base) /\ base.saved = s.saved
    BY <1>1, <2>1, ChdirAnchored
  <2>3. d \in Dirs \ {Library}
    BY <1>1, <1>3, <2>2, ResolveDir
  <2>4. CASE ~base.ok
    BY <2>2, <2>4 DEF EnterOutput
  <2>5. CASE base.ok
    <3>1. base \in Processes /\ base.saved # None
      BY <2>1, <2>2 DEF Anchored
    <3>2. /\ Anchored(Chdir(base, d))
          /\ Chdir(base, d).ok => Chdir(base, d).at = d
      BY <2>3, <2>5, <3>1, ChdirAnchored
    <3> QED BY <2>3, <2>5, <3>2 DEF EnterOutput
  <2> QED BY <2>4, <2>5
<1> QED BY <1>2, <1>3

LEMMA RestoreAnchored ==
    ASSUME NEW p, Anchored(p)
    PROVE  Anchored(RestoreHost(p))
BY Layout DEF Anchored, Processes, RestoreHost, Failed

-----------------------------------------------------------------------------

LEMMA MoveAnchored ==
    ASSUME NEW p, Anchored(p), Move(p)
    PROVE  /\ at' \in Dirs
           /\ saved' \in HostDirs \cup {None}
           /\ saved' = None => at' \in HostDirs
BY DEF Move, Anchored, Processes

LEMMA ProcessAnchored == TypeOK => Anchored(Process) /\ Process.ok
BY DEF TypeOK, Anchored, Processes, Process

LEMMA ToOutputInv ==
    ASSUME TypeOK, NEW o \in Asked, ToOutput(Process, o)
    PROVE  /\ at' \in Dirs
           /\ saved' \in HostDirs \cup {None}
           /\ saved' = None => at' \in HostDirs
           /\ phase' \in {"host", "scf"}
           /\ phase' = "scf" => at' # Library
<1> DEFINE e == EnterOutput(Process, o)
<1>1. Anchored(e) /\ (e.ok => e.at # Library)
  BY ProcessAnchored, EnterOutputAnchored
<1>2. CASE e.ok
  <2>1. Move(e) /\ phase' = "scf"
    BY <1>2 DEF ToOutput
  <2> QED BY <1>1, <1>2, <2>1, MoveAnchored DEF Move
<1>3. CASE ~e.ok
  <2>1. Move(RestoreHost(e)) /\ phase' = "host"
    BY <1>3 DEF ToOutput
  <2>2. Anchored(RestoreHost(e))
    BY <1>1, RestoreAnchored
  <2> QED BY <2>1, <2>2, MoveAnchored
<1> QED BY <1>2, <1>3

LEMMA InitInv == Init => IInv
BY Layout DEF Init, IInv, TypeOK, LibraryStaysClean, Asked, Fates

LEMMA NextInv == IInv /\ [Next]_vars => IInv'
<1> SUFFICES ASSUME IInv, [Next]_vars PROVE IInv'
  OBVIOUS
<1> USE DEF IInv, LibraryStaysClean
<1>1. ASSUME NEW o \in Asked, WarmCall(o) PROVE IInv'
  <2>1. ToOutput(Process, o)
    BY <1>1 DEF WarmCall
  <2> QED BY <1>1, <2>1, ToOutputInv DEF WarmCall, TypeOK
<1>2. ASSUME NEW o \in Asked, ColdCall(o) PROVE IInv'
  <2>1. CASE Move(PreparePp(Process)) /\ phase' \in {"reading", "host"}
    <3>1. Anchored(PreparePp(Process))
      BY ProcessAnchored, PreparePpAnchored
    <3> QED BY <1>2, <2>1, <3>1, MoveAnchored DEF ColdCall, TypeOK
  <2>2. CASE UNCHANGED <<at, saved, phase>>
    BY <1>2, <2>2 DEF ColdCall, TypeOK
  <2> QED BY <1>2, <2>1, <2>2 DEF ColdCall
<1>3. CASE LeaveLibrary
  <2>1. ToOutput(Process, out) /\ out \in Asked
    BY <1>3 DEF LeaveLibrary, TypeOK
  <2> QED BY <1>3, <2>1, ToOutputInv DEF LeaveLibrary, TypeOK
<1>4. CASE Return
  <2>1. Anchored(RestoreHost(Process))
    BY ProcessAnchored, RestoreAnchored
  <2> QED BY <1>4, <2>1, MoveAnchored DEF Return, TypeOK
<1>5. ASSUME NEW d \in HostDirs, HostChdir(d) PROVE IInv'
  BY <1>5, Layout DEF HostChdir, TypeOK
<1>6. ASSUME NEW d \in Dirs, NEW fate \in States[d], Change(d, fate) PROVE IInv'
  <2>1. fate \in Fates
    BY <1>6, Layout
  <2> QED BY <1>6, <2>1 DEF Change, TypeOK
<1>7. CASE UNCHANGED vars
  BY <1>7 DEF vars, TypeOK
<1> QED BY <1>1, <1>2, <1>3, <1>4, <1>5, <1>6, <1>7 DEF Next

\* In every file system the variables keep their types, and a process without a
\* saved directory is in one of the host's.
THEOREM TypeCorrect == Spec => []TypeOK
<1>1. IInv => TypeOK
  BY DEF IInv
<1> QED BY <1>1, InitInv, NextInv, PTL DEF Spec

\* CPMD never runs in the pseudopotential library, for any number of directories
\* and any sequence of removals, permission changes and failed calls.
THEOREM CleanLibrary == Spec => []LibraryStaysClean
<1>1. IInv => LibraryStaysClean
  BY DEF IInv
<1> QED BY <1>1, InitInv, NextInv, PTL DEF Spec
-----------------------------------------------------------------------------
(* Where CPMD runs and where the host ends, while the host's directories stay *)

\* Between two calls nothing is saved and the process is at home; during one
\* the way home is saved.  The steps of a call need more than ReturnsHome: a
\* directory left saved would be where the next call returns to.
HomeInv ==
    /\ TypeOK
    /\ \A d \in HostDirs : fs[d] = "open"
    /\ fs[Library] # "closed"
    /\ saved = IF phase = "host" THEN None ELSE home
    /\ ReturnsHome
    /\ ScfInOutputDirectory

\* A process that is at home with nothing saved, or has home saved.
HomeBound(p) ==
    /\ p \in Processes /\ p.ok
    /\ \/ p.saved = None /\ p.at = home
       \/ p.saved = home

LEMMA SaveHostHome ==
    ASSUME HomeInv, NEW p, HomeBound(p)
    PROVE  SaveHost(p) = [p EXCEPT !.saved = home]
<1>1. home # None /\ home \in HostDirs /\ fs[home] = "open"
  BY Layout DEF HomeInv, TypeOK
<1>2. p.saved = home => p = [p EXCEPT !.saved = home]
  BY DEF HomeBound, Processes
<1> QED BY <1>1, <1>2 DEF SaveHost, HomeBound

\* Entering the output directory ends there, or in a process that has home saved.
LEMMA EnterOutputHome ==
    ASSUME HomeInv, NEW p, HomeBound(p), NEW o \in Asked
    PROVE  /\ EnterOutput(p, o).saved = home
           /\ EnterOutput(p, o) \in Processes
           /\ EnterOutput(p, o).ok => EnterOutput(p, o).at = Resolve(o, home)
<1> DEFINE s == SaveHost(p)
           base == IF s.ok /\ o \in Names THEN Chdir(s, s.saved) ELSE s
<1>1. home \in HostDirs /\ home \in Dirs /\ fs[home] = "open"
  BY Layout DEF HomeInv, TypeOK
<1>2. s \in Processes /\ s.ok /\ s.saved = home
  BY <1>1, SaveHostHome DEF HomeBound, Processes
<1>3. base \in Processes /\ base.ok /\ base.saved = home
  BY <1>1, <1>2 DEF Chdir, Processes
<1>4. Resolve(o, home) \in Dirs
  BY <1>1, ResolveDir
<1>5. EnterOutput(p, o) = Chdir(base, Resolve(o, home))
  BY <1>3 DEF EnterOutput
<1> HIDE DEF base
<1> QED BY <1>3, <1>4, <1>5 DEF Chdir, Failed, Processes

LEMMA RestoreHostHome ==
    ASSUME HomeInv, NEW p \in Processes, p.saved = home
    PROVE  RestoreHost(p).at = home /\ RestoreHost(p).saved = None
<1>1. home # None /\ fs[home] = "open"
  BY Layout DEF HomeInv, TypeOK
<1> QED BY <1>1 DEF RestoreHost, Processes

LEMMA ProcessHome == HomeInv => HomeBound(Process)
BY DEF HomeInv, ReturnsHome, TypeOK, HomeBound, Process, Processes

\* The step into the SCF, or back home.
LEMMA ToOutputHome ==
    ASSUME HomeInv, NEW o \in Asked, ToOutput(Process, o)
    PROVE  /\ saved' = IF phase' = "host" THEN None ELSE home
           /\ phase' = "host" => at' = home
           /\ phase' = "scf" => at' = Resolve(o, home)
           /\ phase' \in {"host", "scf"}
<1> DEFINE e == EnterOutput(Process, o)
<1>1. e.saved = home /\ e \in Processes /\ (e.ok => e.at = Resolve(o, home))
  BY ProcessHome, EnterOutputHome
<1>2. RestoreHost(e).at = home /\ RestoreHost(e).saved = None
  BY <1>1, RestoreHostHome
<1> HIDE DEF e
<1>3. IF e.ok THEN Move(e) /\ phase' = "scf" ELSE Move(RestoreHost(e)) /\ phase' = "host"
  BY DEF ToOutput, e
<1> QED BY <1>1, <1>2, <1>3 DEF Move

LEMMA PreparePpHome ==
    ASSUME HomeInv, phase = "host"
    PROVE  LET p == PreparePp(Process)
           IN  /\ p.saved = IF p.ok THEN home ELSE None
               /\ ~p.ok => p.at = home
<1>1. SaveHost(Process) = [Process EXCEPT !.saved = home]
  BY ProcessHome, SaveHostHome
<1>2. Process.ok /\ Process.at = home /\ Process.saved = None
  BY DEF Process, HomeInv, ReturnsHome
<1>3. fs[Library] \in {"open", "gone"}
  BY Layout DEF HomeInv, TypeOK, Fates
<1> QED BY <1>1, <1>2, <1>3 DEF PreparePp, Chdir, Failed, Process

LEMMA InitHome == Init => HomeInv
BY Layout DEF Init, HomeInv, TypeOK, Asked, Fates, ReturnsHome, ScfInOutputDirectory

LEMMA NextHome ==
    ASSUME HostStays
    PROVE  HomeInv /\ LibraryStaysClean /\ [Next]_vars => HomeInv'
<1> SUFFICES ASSUME HomeInv, LibraryStaysClean, [Next]_vars PROVE HomeInv'
  OBVIOUS
<1> USE DEF HomeInv, ReturnsHome, ScfInOutputDirectory
<1>1. TypeOK'
  BY NextInv DEF IInv
<1>2. ASSUME NEW o \in Asked, WarmCall(o) PROVE HomeInv'
  BY <1>1, <1>2, ToOutputHome DEF WarmCall
<1>3. ASSUME NEW o \in Asked, ColdCall(o) PROVE HomeInv'
  <2>1. CASE Move(PreparePp(Process)) /\ phase' = IF PreparePp(Process).ok THEN "reading" ELSE "host"
    BY <1>1, <1>3, <2>1, PreparePpHome DEF ColdCall, Move
  <2>2. CASE UNCHANGED <<at, saved, phase>>
    BY <1>1, <1>3, <2>2 DEF ColdCall
  <2> QED BY <1>3, <2>1, <2>2 DEF ColdCall
<1>4. CASE LeaveLibrary
  <2>1. out \in Asked
    BY DEF TypeOK
  <2> QED BY <1>1, <1>4, <2>1, ToOutputHome DEF LeaveLibrary
<1>5. CASE Return
  <2>1. Process \in Processes /\ Process.saved = home
    BY <1>5, ProcessHome DEF Return, HomeBound, Process
  <2> QED BY <1>1, <1>5, <2>1, RestoreHostHome DEF Return, Move
<1>6. ASSUME NEW d \in HostDirs, HostChdir(d) PROVE HomeInv'
  BY <1>1, <1>6 DEF HostChdir
<1>7. ASSUME NEW d \in Dirs, NEW fate \in States[d], Change(d, fate) PROVE HomeInv'
  <2>1. /\ d \in HostDirs => fate = "open"
        /\ d = Library => fate # "closed"
    BY <1>7 DEF HostStays
  <2>2. \A h \in HostDirs \cup {Library} : fs'[h] = IF h = d THEN fate ELSE fs[h]
    BY <1>7, Layout DEF Change, TypeOK
  <2> QED BY <1>1, <1>7, <2>1, <2>2 DEF Change
<1>8. CASE UNCHANGED vars
  BY <1>1, <1>8 DEF vars
<1> QED BY <1>2, <1>3, <1>4, <1>5, <1>6, <1>7, <1>8 DEF Next

LEMMA AlwaysHome == ASSUME HostStays PROVE Spec => []HomeInv
<1>1. Init => IInv /\ HomeInv
  BY InitInv, InitHome
<1>2. (IInv /\ HomeInv) /\ [Next]_vars => (IInv /\ HomeInv)'
  BY NextInv, NextHome DEF IInv
<1> QED BY <1>1, <1>2, PTL DEF Spec

\* While the host's directories stay and the library is never closed, the SCF
\* runs in the directory the call asked for, relative to where the host is at
\* this call, whatever becomes of the other directories.
THEOREM OutputWhereAsked == ASSUME HostStays PROVE Spec => []ScfInOutputDirectory
<1>1. HomeInv => ScfInOutputDirectory
  BY DEF HomeInv
<1> QED BY <1>1, AlwaysHome, PTL

\* Under the same assumption every call, a failing one included, leaves the
\* process in the directory the host put itself in.
THEOREM BackHome == ASSUME HostStays PROVE Spec => []ReturnsHome
<1>1. HomeInv => ReturnsHome
  BY DEF HomeInv
<1> QED BY <1>1, AlwaysHome, PTL
=============================================================================
