------------------------------ MODULE DeckSections ------------------------------
(***************************************************************************)
(* The other typed sections of src/src/cpmdc_params.c, and the table of    *)
(* all of them.  In &ATOMS one pseudopotential entry stands for each, and  *)
(* a field of a list's entries is written list.field.                      *)
(***************************************************************************)
EXTENDS DeckCpmd, DeckSystem

\* FUNCTIONAL falls back to the params' functional.
DftRows ==
    << Always("FUNCTIONAL", {"functional"}), F("GC-CUTOFF", "gcCutoff"),
       F("XC_DRIVER", "xcDriver"), F("LIBXC", "libxc"), F("LR_KERNEL", "lrKernel"),
       F("REFUNCT", "refunct"), F("MTS_HIGH_FUNC", "mtsHighFunc"),
       F("MTS_LOW_FUNC", "mtsLowFunc"), F("HFX", "hfx"),
       F("HFX-SCREENING", "hfxScreening"), F("HUBBARD", "hubbard"),
       F("ALPHA", "alpha"), F("BETA", "beta"), F("OLDCODE", "oldCode"),
       F("NEWCODE", "newCode"), F("CORRELATION", "correlation"),
       F("EXCHANGE", "exchange"), F("BECKE88", "becke88") >>

\* A HUBBARD entry is numbered by its place: its element is not printed.
DftHubbardRows ==
    << F("HUBBARD", "hubbardU"), F("HFX_SCREENING", "hfxWfcCutoff"),
       F("HFX_BLOCK_SIZE", "hfxBlock"), F("HFX_DISTRIBUTION", "hfxDistribution") >>

PspOptions == {"kleinmanBylander", "lmax", "loc", "skip", "raggio", "nonlinearCore"}
PspFile == {"path", "element"}

\* One pseudopotential entry: the file is its path, else <element>.psp.
AtomsSpeciesRows ==
    << F("!SPECIES", "element"), AnyOf("*", PspFile), Rides("kleinmanBylander", PspFile),
       Rides("lmax", PspFile), Rides("loc", PspFile), Rides("skip", PspFile),
       Rides("raggio", PspFile), Rides("nonlinearCore", PspFile) >>

AtomsExtrasRows ==
    << F("CONSTRAINTS", "constraints"), F("ISOTOPE", "isotopes"),
       F("VELOCITIES", "velocities"), F("DUMMY_ATOMS", "dummyAtoms"),
       F("CHANGE_BONDS", "changeBonds"), F("GENERATE_COORDINATES", "generate") >>

RespRows == << F("WEIGHT", "restraintStrength"), F("HYPERBOLIC", "hyperbolic"),
               F("BETA", "tightness") >>
ExteRows == << F("EFIELD", "externalField") >>
VectorsRows == << F("NEWORTHO", "newOrtho"), F("OVERLAP", "overlap") >>
PropRows == << F("DIPOLE_MOMENT", "dipoleMoment"), F("LOCALIZE", "localize"),
               F("POLARIZABILITY", "polarizability"), F("CUBECENTER", "cubecenter"),
               F("CUBEFILE_DENSITY", "cubefileDensity"),
               F("CUBEFILE_ORBITALS", "cubefileOrbitals"), F("CHARGES", "chargesGaussian") >>
LinresRows == << F("CONVERGENCE", "convergence"), F("MAXSTEP", "maxSteps"), F("HTHRS", "hthrs") >>
PimdRows == << F("TROTTER_DIMENSION", "replicas"), F("FACMASS", "facmass"),
               F("CENTROID_DYNAMICS", "centroidDynamics"), F("NORMAL_MODES", "normalModes"),
               F("STAGING", "staging") >>
PathRows == << F("REPLICA_NUMBER", "replicaNumber"), F("SPRING", "nebSpring"),
               F("FACTOR", "factor"), F("NLOOP", "nloop"), F("ALPHA", "alpha") >>
TddftRows == << F("STATES", "states"), F("TAMM-DANCOFF", "tammDancoff"),
                F("DIAGONALIZER", "diagonalizer"), F("CONVERGENCE", "convergence") >>
VdwRows == << F("EMPIRICAL_CORRECTION", "empiricalCorrection"), F("GRIMME", "grimme"),
              F("S6", "s6"), F("VDW-CUTOFF", "vdwCutoff"), F("VDW-CELL", "vdwCell"),
              F("RADIUS", "radius") >>

AtomsRefusals == {Without(f, PspFile) : f \in PspOptions}

Plain(rows) == [rows |-> rows, refusals |-> {}, losses |-> {}, repeats |-> {}]

Table ==
    [CPMD |-> [rows |-> CpmdRows, refusals |-> CpmdRefusals,
               losses |-> CpmdLosses, repeats |-> CpmdRepeats],
     SYSTEM |-> [rows |-> SystemRows, refusals |-> SystemRefusals,
                 losses |-> SystemLosses, repeats |-> SystemRepeats],
     DFT |-> [rows |-> DftRows \o DftHubbardRows, refusals |-> {},
              losses |-> {Dropped("hubbardU.element")}, repeats |-> {"HUBBARD"}],
     ATOMS |-> [rows |-> AtomsSpeciesRows \o AtomsExtrasRows, refusals |-> AtomsRefusals,
                losses |-> {Dropped("isotopes.element")}, repeats |-> {}],
     RESP |-> Plain(RespRows), EXTE |-> Plain(ExteRows), VECTORS |-> Plain(VectorsRows),
     PROP |-> Plain(PropRows), LINRES |-> Plain(LinresRows), PIMD |-> Plain(PimdRows),
     PATH |-> Plain(PathRows), TDDFT |-> Plain(TddftRows), VDW |-> Plain(VdwRows)]

\* Every field of a section a caller may set.
Fields(section) ==
    FieldsOf(Table[section].rows)
      \cup (UNION {r.both \cup r.without : r \in Table[section].refusals})
      \cup {l.field : l \in Table[section].losses}

\* At most one of a set: the lengths of one list, the values of one field.
Alternatives ==
    {{"task=md", "task=gradient"}, {"cell/6", "cell/9", "cell/other"},
     {"referenceCell/6", "referenceCell/9", "referenceCell/other"}}
      \cup {{f, f \o "/other"} : f \in
              {"spinOrbitCouplingStates", "classicalCell", "hfxCutoff", "constantCutoff",
               "externalField", "occupation", "couplingsLinresThresholds",
               "couplingsSurfaces", "cdftDonorWeights", "cdftAcceptorHdasDonors",
               "cdftAcceptorWeights", "lseParameters", "modifiedGoedeckerParameters", "mesh",
               "stressTensor", "kpoints", "kpointsMonkhorstPack", "kpointsMonkhorstShift",
               "kpointBands"}}
      \cup {{f, f \o "/negative"} : f \in {"couplingsLinresNvects", "kpointsBlock"}}
=============================================================================
