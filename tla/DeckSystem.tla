------------------------------- MODULE DeckSystem -------------------------------
(***************************************************************************)
(* The &SYSTEM section: render_system_section of src/src/cpmdc_params.c,   *)
(* its rows and its refusals.  "symmetry" is a nonzero symmetry code, the  *)
(* zero one asks for an isolated system.  "cell/6" and "cell/9" are a cell *)
(* of six or nine numbers, "x/other" a list of a length the renderer does  *)
(* not expect or with a member it refuses, "x/negative" a negative number. *)
(***************************************************************************)
EXTENDS DeckRows

SystemCell ==
    << Unless(Always("SYMMETRY", {"symmetry"}), {"cellVectors"}),
       F("ANGSTROM", "angstrom"),
       AnyOf("CELL", {"cell/6", "cell/9"}),
       Rides("cellVectors", {"cell/9"}), Rides("cellAbsolute", {"cell/6"}),
       Rides("cellDegree", {"cell/6"}),
       AnyOf("REFERENCE_CELL", {"referenceCell/6", "referenceCell/9"}),
       Rides("referenceCellVectors", {"referenceCell/9"}),
       Rides("referenceCellAbsolute", {"referenceCell/6"}),
       Rides("referenceCellDegree", {"referenceCell/6"}),
       F("CLASSICAL_CELL", "classicalCell"),
       Also({"classicalCell", "classicalCellAbsolute"}),
       Also({"classicalCell", "classicalCellDegree"}),
       F("ISOTROPIC_CELL", "isotropicCell"), F("ZFLEXIBLE_CELL", "zFlexibleCell"),
       F("CHECK_SYMMETRY", "checkSymmetryOff"),
       Unless(F("CHECK_SYMMETRY", "checkSymmetryPrecision"), {"checkSymmetryOff"}) >>

SystemCutoff ==
    << Always("CUTOFF", {"cutoffShape", "cutOffRy"}), F("HFX_CUTOFF", "hfxCutoff"),
       F("DENSITY_CUTOFF", "densityCutOffRy"),
       F("DENSITY_CUTOFF_NUMBER", "densityCutoffNumber"), F("DUAL", "dual"),
       F("CONSTANT_CUTOFF", "constantCutoff"), F("BOX_WALLS", "boxWalls"),
       AnyOf("SCALE", {"scale", "scaleX", "scaleY", "scaleZ", "scaleCartesian"}),
       F("CHARGE", "charge"), F("MULTIPLICITY", "multiplicity"), F("NSUP", "nSup"),
       F("STATES", "states"), F("OCCUPATION", "occupation"),
       Also({"occupation", "occupationFixed"}), F("EXTERNAL_FIELD", "externalField"),
       F("WCUT", "wCut"), F("WGAUSS", "wGauss") >>

FdFields == {"couplingsFiniteDifference", "couplingsFiniteDifferenceDisplacement"}
LinresFields ==
    {"couplingsLinres", "couplingsLinresTolerance", "couplingsLinresNvects",
     "couplingsLinresSpecify", "couplingsLinresThresholds", "couplingsLinresBruteForce"}

SystemCouplings ==
    << AnyOf("COUPLINGS_FD", FdFields),
       F("COUPLINGS_PROD", "couplingsProductDisplacement"),
       AnyOf("COUPLINGS_LINRES", LinresFields),
       F("COUPLINGS_NSURF", "couplingsSurfaces"),
       F("COUPLINGS_NAT", "couplingsFiniteDifferenceAtoms"),
       F("DONOR", "cdftDonorAtoms"), Also({"cdftDonorAtoms", "cdftDonorWeights"}),
       F("ACCEPTOR", "cdftAcceptorAtoms"),
       Also({"cdftAcceptorAtoms", "cdftAcceptorHdasDonors"}),
       Also({"cdftAcceptorAtoms", "cdftAcceptorWeights"}) >>

SystemStates ==
    << F("POINT_GROUP", "pointGroup"), Also({"pointGroup", "pointGroupMolecule"}),
       Also({"pointGroup", "pointGroupDelta"}),
       AnyOf("LOW_SPIN_EXCITATION",
             {"lowSpinExcitation", "lowSpinExcitationLsets", "lowSpinExcitationPenalty"}),
       F("LSE_PARAMETERS", "lseParameters"),
       AnyOf("MODIFIED_GOEDECKER", {"modifiedGoedeckerParameters", "modifiedGoedecker"}),
       F("ENERGY_PROFILE", "energyProfile"), F("POISSON_SOLVER", "poissonSolver"),
       Also({"poissonSolver", "poissonParameter"}), F("MESH", "mesh") >>

\* The three ways to give k points, and the options of each.
PointKinds == {"kpoints", "kpointsMonkhorstPack", "kpointBands"}
MonkhorstOptions == {"kpointsMonkhorstSymmetrized", "kpointsMonkhorstFull",
                     "kpointsMonkhorstKdp", "kpointsMonkhorstShift"}
BlockOptions == {"kpointsBlockAll", "kpointsBlockCalculated", "kpointsBlockNoSwap"}

SystemPoints ==
    << AnyOf("KPOINTS", PointKinds),
       Rides("kpointsScaled", {"kpoints", "kpointBands"}),
       Rides("kpointsOnlyDiagonal", PointKinds), Rides("kpointsBlock", PointKinds),
       Rides("kpointsBlockAll", PointKinds), Rides("kpointsBlockCalculated", PointKinds),
       Rides("kpointsBlockNoSwap", PointKinds),
       Rides("kpointsMonkhorstSymmetrized", {"kpointsMonkhorstPack"}),
       Rides("kpointsMonkhorstFull", {"kpointsMonkhorstPack"}),
       Rides("kpointsMonkhorstKdp", {"kpointsMonkhorstPack"}),
       Rides("kpointsMonkhorstShift", {"kpointsMonkhorstPack"}) >>

\* Fault: an isolated deck gets its solver even when a directive names one.
DefaultSolverAlways ==
    Unless(Always("POISSON_SOLVER", {}), {"symmetry", "cellVectors", "poissonSolver"})

\* HOCKNEY, or TUCKERMAN for a hybrid, when an isolated deck names none.
DefaultSolver ==
    Unless(Always("POISSON_SOLVER", {}),
           {"symmetry", "cellVectors", "poissonSolver", "directive:POISSON_SOLVER",
            "set:POISSON_SOLVER"})

SystemRest ==
    << F("DOUBLE_GRID", "doubleGrid"),
       F("SYMMETRIZE_COORDINATES", "symmetrizeCoordinates"), F("TESR", "tesr"),
       F("PRESSURE", "pressure"), F("STRESS_TENSOR", "stressTensor"),
       F("SURFACE", "surface"), F("POLYMER", "polymer"), F("CLUSTER", "cluster"),
       F("SHOCK_VELOCITY", "shockVelocity"), DefaultSolver,
       F("POISSON_SOLVER", "directive:POISSON_SOLVER"),
       F("POISSON_SOLVER", "set:POISSON_SOLVER") >>

SystemRows == SystemCell \o SystemCutoff \o SystemCouplings \o SystemStates
                \o SystemPoints \o SystemRest

-----------------------------------------------------------------------------
(* Refusals *)

CellRefusals ==
    {Together({"cellVectors", "cellAbsolute"}), Together({"cellVectors", "cellDegree"}),
     Without("cellVectors", {"cell/9"}), Without("cellAbsolute", {"cell/6"}),
     Without("cellDegree", {"cell/6"}),
     Without("referenceCellVectors", {"referenceCell/9"}),
     Without("referenceCellAbsolute", {"referenceCell/6"}),
     Without("referenceCellDegree", {"referenceCell/6"}), Bad("referenceCell/other"),
     Without("classicalCellAbsolute", {"classicalCell"}),
     Without("classicalCellDegree", {"classicalCell"}), Bad("classicalCell/other")}

CutoffRefusals ==
    {Bad("hfxCutoff/other"), Bad("constantCutoff/other"), Bad("externalField/other"),
     Without("occupation", {"states"}), Bad("occupation/other")}

CouplingRefusals ==
    {Together({a, b}) : a \in FdFields, b \in LinresFields}
      \cup {Together({a, "couplingsProductDisplacement"}) : a \in FdFields \cup LinresFields}
      \cup {Without("couplingsLinresSpecify", {"couplingsLinresNvects"}),
            Bad("couplingsLinresNvects/negative"), Bad("couplingsLinresThresholds/other"),
            Bad("couplingsSurfaces/other"),
            Without("cdftDonorWeights", {"cdftDonorAtoms"}), Bad("cdftDonorWeights/other"),
            Together({"cdftAcceptorHdasDonors", "cdftAcceptorWeights"}),
            Without("cdftAcceptorHdasDonors", {"cdftAcceptorAtoms"}),
            Without("cdftAcceptorWeights", {"cdftAcceptorAtoms"}),
            Bad("cdftAcceptorHdasDonors/other"), Bad("cdftAcceptorWeights/other")}

StateRefusals ==
    {Without("pointGroupMolecule", {"pointGroup"}), Without("pointGroupDelta", {"pointGroup"}),
     Bad("lseParameters/other"), Bad("modifiedGoedeckerParameters/other"),
     Bad("mesh/other"), Bad("stressTensor/other")}

PointRefusals ==
    {Together({"kpoints", "kpointsMonkhorstPack"}), Together({"kpoints", "kpointBands"}),
     Together({"kpointsMonkhorstPack", "kpointBands"}),
     Together({"kpointsMonkhorstPack", "kpointsScaled"}),
     Together({"kpointsBlockAll", "kpointsBlockCalculated"}),
     Bad("kpoints/other"), Bad("kpointsMonkhorstPack/other"), Bad("kpointBands/other"),
     Bad("kpointsMonkhorstShift/other"),
     Without("kpointsScaled", PointKinds), Without("kpointsOnlyDiagonal", PointKinds),
     Without("kpointsBlock", PointKinds)}
      \cup {Without(f, {"kpointsMonkhorstPack"}) : f \in MonkhorstOptions}
      \cup {Without(f, {"kpointsBlock"}) : f \in BlockOptions}
      \cup {Together({"kpointsBlock/negative", f}) : f \in PointKinds}

SystemRefusals == CellRefusals \cup CutoffRefusals \cup CouplingRefusals
                    \cup StateRefusals \cup PointRefusals

-----------------------------------------------------------------------------
(* What the section may lose or repeat, for the properties of DeckKeywords *)

SystemLosses ==
    {Dropped("cell/other"), Dropped("kpointsBlock/negative"),
     Needs("occupationFixed", {"occupation"}), Needs("poissonParameter", {"poissonSolver"}),
     Yields("symmetry", {"cellVectors"}),
     Yields("checkSymmetryPrecision", {"checkSymmetryOff"})}

SystemRepeats == {"POISSON_SOLVER"}
=============================================================================
