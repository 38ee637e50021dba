------------------------------- MODULE DeckCpmd -------------------------------
(***************************************************************************)
(* The &CPMD section: render_cpmd_section of src/src/cpmdc_params.c, row   *)
(* by row.  "task=md" and "task=gradient" (energy and optimize alike) are  *)
(* the top-level task, "spinPolarized" the flag the caller computes,       *)
(* "directive:X" and "set:X" a keyword X from the section's directives and *)
(* from a set directive, and a name with "/other" a list of wrong length.  *)
(***************************************************************************)
EXTENDS DeckRows

CpmdTask ==
    << Unless(AnyOf("OPTIMIZE_WAVEFUNCTION",
                  {"optimizeWavefunction", "task=gradient"}),
              {"molecularDynamics", "task=md"}),
       AnyOf("OPTIMIZE_GEOMETRY", {"optimizeGeometry",
           "optimizeGeometryOptions", "optimizeGeometrySample"}),
       AnyOf("OPTIMIZE_COMBINED", {"optimizeCombinedOptions",
           "optimizeCombinedSample"}),
       AnyOf("MOLECULAR_DYNAMICS", {"molecularDynamics", "task=md"}),
       F("ISOLATED_MOLECULE", "isolatedMolecule"),
       F("MOLECULAR_DYNAMICS_CP", "molecularDynamicsCp"),
       F("MOLECULAR_DYNAMICS_BO", "molecularDynamicsBo"),
       F("MOLECULAR_DYNAMICS_EH", "molecularDynamicsEh"),
       F("MOLECULAR_DYNAMICS_PT", "molecularDynamicsPt"),
       F("MOLECULAR_DYNAMICS_CLASSICAL", "molecularDynamicsClassical"),
       F("MOLECULAR_DYNAMICS_FILE", "molecularDynamicsFile"),
       F("MOLECULAR_DYNAMICS_FILE", "molecularDynamicsFileOptions"),
       F("MOLECULAR_DYNAMICS_BD", "molecularDynamicsBdTrajectories"),
       F("PARRINELLO-RAHMAN", "parrinelloRahmanOptions"), F("CHEBY", "cheby"),
       F("CAYLEY", "cayley"), F("RUNGE-KUTTA", "rungeKutta"),
       F("FORCEMATCH", "forceMatch"), F("DEBUG", "debugOptions") >>

CpmdMethod ==
    << AnyOf("KOHN-SHAM_ENERGIES", {"kohnShamEnergiesOptions",
           "kohnShamEnergiesCount"}),
       F("SURFACE_HOPPING", "surfaceHoppingOptions"),
       AnyOf("ROKS", {"roksOptions", "roksExpertPayload"}),
       F("PATH_SAMPLING", "pathSampling"),
       F("FIXRHO_UPWFN", "fixrhoUpwfnOptions"),
       F("FIXRHO_VECT", "fixrhoVectors"), F("FIXRHO_LOOP", "fixrhoLoop"),
       F("FIXRHO_WFTOL", "fixrhoWftol"),
       F("BOGOLIUBOV_CORRECTION", "bogoliubovCorrection"),
       AnyOf("VIBRATIONAL_ANALYSIS", {"vibrationalAnalysisOptions",
           "vibrationalAnalysisSample", "vibrationalAnalysisMode"}),
       F("ELECTRONIC_SPECTRA", "electronicSpectra"),
       F("SPIN-ORBIT_COUPLING", "spinOrbitCouplingStates"),
       F("PROPAGATION_SPECTRA", "propagationSpectra"),
       F("PROPAGATION_DISTRUB", "propagationDistrub") >>

CpmdPaths ==
    << F("GAUGEPULSE", "gaugePulse"), F("GAUGEFIELD", "gaugeFieldFrequency"),
       F("NACV", "nacv"), F("ORBITAL_HARDNESS", "orbitalHardnessOptions"),
       F("PATH_INTEGRAL", "pathIntegral"),
       F("PATH_MINIMIZATION", "pathMinimization"),
       AnyOf("LANGEVIN", {"langevinOptions", "langevinParameter"}),
       F("QMMMEASY", "qmmmEasy"), F("INTERFACE", "interfaceOptions"),
       AnyOf("TROTTER_FACTOR", {"trotterFactorPayload", "trotterFactorCount"}),
       F("TROTTER_FACTORIZATION", "trotterFactorization"),
       F("TROTTER_FACTORIZATION_OFF", "trotterFactorizationOff"),
       F("LINEAR_RESPONSE", "linearResponse"),
       F("HARMONIC_REFERENCE", "harmonicReference"),
       F("SCALED_MASSES", "scaledMasses"), F("TDDFT", "tddft"),
       AnyOf("LSD", {"lsd", "spinPolarized"}), F("SSIC", "ssic"),
       AnyOf("NONORTHOGONAL_ORBITALS", {"nonorthogonalOrbitalsOptions",
           "nonorthogonalOrbitalsLimit"}) >>

CpmdMixing ==
    << F("LANCZOS_DIAGONALIZATION", "lanczosDiagonalizationOptions"),
       AnyOf("LANCZOS_PARAMETERS", {"lanczosParametersPayload",
           "lanczosParametersCount"}),
       F("DAVIDSON_DIAGONALIZATION", "davidsonDiagonalization"),
       F("DAVIDSON_PARAMETERS", "davidsonParameters"),
       F("ALEXANDER_MIXING", "alexanderMixing"),
       AnyOf("ANDERSON_MIXING", {"andersonMixingPayload", "andersonMixingCount",
           "andersonMixingGspace"}),
       AnyOf("BROYDEN_MIXING", {"broydenMixingOptions", "broydenMixingPayload"}),
       AnyOf("DIIS_MIXING", {"diisMixingPayload", "diisMixingCount"}),
       F("MOVERHO", "moverhoMixing"),
       AnyOf("EXTRAPOLATE_WFN", {"extrapolateWfnOptions",
           "extrapolateWfnOrder"}),
       F("EXTRAPOLATE_CONSTRAINT", "extrapolateConstraintOrder") >>

CpmdOptimizers ==
    << F("TSDE", "tsdeOptions"), F("TSDP", "tsdpOptions"), F("TCGP", "tcgp"),
       F("TSDC", "tsdc"), F("STEEPEST_DESCENT", "steepestDescentOptions"),
       F("CONJUGATE_GRADIENT", "conjugateGradientOptions"),
       AnyOf("ODIIS", {"odiisOptions", "odiisVectors"}),
       F("HAMILTONIAN_CUTOFF", "hamiltonianCutoff"),
       F("GDIIS", "gdiisVectors"),
       AnyOf("LBFGS", {"lbfgsOptions", "lbfgsPayload"}),
       F("LBFGS_NTRUST", "lbfgsNtrust"), F("LBFGS_NRESTT", "lbfgsNrestt"),
       F("LBFGS_NTRSTR", "lbfgsNtrstr"), F("LBFGS_TRUSTR", "lbfgsTrustr"),
       AnyOf("PRFO", {"prfoOptions", "prfoPayload"}),
       F("PRFO_MODE", "prfoMode"), F("PRFO_MDLOCK", "prfoMdlock"),
       F("PRFO_TOLENV", "prfoTolenv") >>

CpmdStart ==
    << F("PRFO_TRUSTP", "prfoTrustp"), F("PRFO_OMIN", "prfoOmin"),
       F("PRFO_NSVIB", "prfoNsvib"), F("PRFO_CORE", "prfoCoreAtoms"),
       F("PRFO_NSMAXP", "prfoNsmaxp"),
       F("PRFO_PRJHES", "prfoProjectedHessian"),
       F("PRFO_DISPL", "prfoDisplacement"),
       F("PRFO_HESSTYPE", "prfoHessianType"), F("HESSCORE", "hesscore"),
       F("BFGS", "bfgs"), F("RFO_ORDER", "rfoOrder"),
       AnyOf("INR_PARAMETERS", {"inrParametersPayload", "inrParametersCount"}),
       AnyOf("IMPLICIT_NEWTON", {"implicitNewtonOptions",
           "implicitNewtonMaxIter"}),
       F("MIXSD", "mixsd"), F("MIXDIIS", "mixdiis"),
       F("RESTART", "restartOptions"),
       AnyOf("INTFILE", {"intFileOptions", "intFileName"}) >>

CpmdConvergence ==
    << F("INITIALIZE_WAVEFUNCTION", "initializeWavefunctionOptions"),
       F("RATTLE", "rattleParameters"),
       F("ORTHOGONALIZATION", "orthogonalizationOptions"),
       F("QUENCH", "quenchOptions"),
       AnyOf("RANDOMIZE", {"randomizeOptions", "randomizeAmplitude"}),
       F("USE_MTS", "useMts"), F("NABDY_ZMAX", "nabdyZmax"),
       F("NABDY_SOFT", "nabdySoft"),
       F("NABDY_REDISTR_AMPLI", "nabdyRedistributeAmplitude"),
       F("NABDY_SCALEP", "nabdyScaleP"), F("NABDY_THERMO", "nabdyThermo"),
       F("CONVERGENCE_ORBITALS", "convergenceOrbitals"),
       F("MAXSTEP", "maxStep"), F("MAXITER", "maxIter"),
       F("CONVERGENCE_GEOMETRY", "convergenceGeometry"),
       F("CONVERGENCE_CELL", "convergenceCell"),
       F("CONVERGENCE_ADAPT", "convergenceAdapt"),
       F("CONVERGENCE_ENERGY", "convergenceEnergy"),
       F("CONVERGENCE_CALFOR", "convergenceCalfor"),
       F("CONVERGENCE_RELAX", "convergenceRelax"),
       F("CONVERGENCE_RHOFIX", "convergenceRhofix"),
       F("CONVERGENCE_INITIAL", "convergenceInitial"),
       F("CONVERGENCE_CONSTRAINT", "convergenceConstraint"),
       F("TIMESTEP", "timestep") >>

CpmdDynamics ==
    << F("MAXRUNTIME", "maxRuntime"),
       F("TIMESTEP_ELECTRONS", "timestepElectrons"),
       F("TIMESTEP_IONS", "timestepIons"), F("EMASS", "electronMass"),
       F("CMASS", "cellMass"),
       F("TEMPERATURE_ELECTRON", "temperatureElectron"),
       F("TEMPERATURE", "temperature"),
       Also({"temperature", "temperatureRamp"}),
       Also({"temperature", "temperatureRamp", "temperatureRampTime"}),
       Also({"temperature", "temperatureRamp", "temperatureRampRate"}),
       F("RESCALE_OLD_VELOCITIES", "rescaleOldVelocities"),
       F("REVERSE_VELOCITIES", "reverseVelocities"),
       F("SUBTRACT_COMVEL", "subtractComVelocity"),
       F("SUBTRACT_ROTVEL", "subtractRotVelocity"), F("PRNGSEED", "prngSeed"),
       F("TEMPCONTROL_IONS", "tempControlIons"),
       F("TEMPCONTROL_ELECTRONS", "tempControlElectrons"),
       F("TEMPCONTROL_CELL", "tempControlCell"),
       F("BERENDSEN_IONS", "berendsenIons"),
       F("BERENDSEN_ELECTRONS", "berendsenElectrons"),
       F("BERENDSEN_CELL", "berendsenCell"), F("NOSE", "nose"),
       AnyOf("NOSE_IONS", {"noseIonsThermostat", "noseIonsOptions", "noseIons"}) >>

CpmdThermostats ==
    << AnyOf("NOSE_IONS_LOCAL", {"noseIonsLocalThermostatCount",
           "noseIonsLocalThermostats", "noseIonsLocalRangeCount",
           "noseIonsLocalRanges"}),
       Rides("noseIonsLocalT0", {"noseIonsLocalThermostatCount",
           "noseIonsLocalThermostats", "noseIonsLocalRangeCount",
           "noseIonsLocalRanges"}),
       AnyOf("NOSE_IONS_CAFES", {"noseIonsCafesGroupCount",
           "noseIonsCafesGroups"}),
       AnyOf("NOSE_ELECTRONS", {"noseElectronsThermostat", "noseElectrons"}),
       F("NOSE_CELL", "noseCellThermostat"),
       F("NOSE_PARAMETERS", "noseParameters"),
       F("USE_IN_STREAM", "useInStream"), F("USE_OUT_STREAM", "useOutStream"),
       F("USE_CUBLAS", "useCublas"), F("USE_CUFFT", "useCufft"),
       F("BLAS_N_STREAMS_PER_DEVICE", "blasNStreamsPerDevice"),
       F("BLAS_N_DEVICES_PER_TASK", "blasNDevicesPerTask"),
       F("FFT_N_STREAMS_PER_DEVICE", "fftNStreamsPerDevice"),
       F("FFT_N_DEVICES_PER_TASK", "fftNDevicesPerTask"),
       F("USE_MPI_IO", "useMpiIo"), F("TRACE", "traceOptions") >>

CpmdControl ==
    << F("TRACE_PROCEDURE", "traceProcedure"),
       F("TRACE_MAX_DEPTH", "traceMaxDepth"),
       F("TRACE_MAX_CALLS", "traceMaxCalls"), F("BERENDSEN", "berendsen"),
       F("LANGEVIN", "langevin"), F("ANNEALING", "annealing"),
       F("ANNEALING_IONS", "annealingIons"),
       F("ANNEALING_ELECTRONS", "annealingElectrons"),
       F("ANNEALING_CELL", "annealingCell"), F("DAMPING", "damping"),
       F("DAMPING_IONS", "dampingIons"),
       F("DAMPING_ELECTRONS", "dampingElectrons"),
       F("DAMPING_CELL", "dampingCell"), F("HESSIAN", "hessian"),
       F("PROJECT", "project"), F("STRESS_TENSOR", "stressTensorSample"),
       Also({"stressTensorSample", "stressTensorVirial"}),
       F("CLASSTRESS", "classStressSample"), F("QUENCH", "quench"),
       F("RATTLE", "rattle"), F("SHAKE", "shake"),
       F("CONSTRAINT", "constraint"), F("TROTTER", "trotter"),
       F("RESTART", "restart"), F("PRINT", "printOptions") >>

CpmdOutput ==
    << AnyOf("STRUCTURE", {"structureOptions", "structureSelection"}),
       F("STORE", "storeOptions"),
       AllOf("STORE", {"storeSelection", "storeInterval"}),
       Also({"storeSelection", "storeInterval",
           "storeSelfConsistentInterval"}),
       F("STORE_OFF", "storeOffSelection"), F("RESTFILE", "restFileCount"),
       Also({"restFileCount", "restFileSample"}),
       AnyOf("TRAJECTORY", {"trajectoryOptions", "trajectoryRange",
           "trajectorySample"}),
       F("MOVIE_SAMPLE", "movieSample"), F("MOVIE_OFF", "movieOff"),
       F("ENERGYBANDS", "energyBands"),
       AnyOf("EXTERNAL_POTENTIAL", {"externalPotential",
           "externalPotentialAdd"}),
       AnyOf("ELECTROSTATIC_POTENTIAL", {"electrostaticPotential",
           "electrostaticPotentialSample"}),
       AnyOf("DIPOLE_DYNAMICS", {"dipoleDynamics", "dipoleDynamicsSample",
           "dipoleDynamicsWannier"}) >>

CpmdDensities ==
    << AnyOf("RHOOUT", {"rhoOut", "rhoOutSample", "rhoOutBandsCount"}),
       Also({"rhoOutBandsCount", "rhoOutBands"}),
       AnyOf("ELF", {"elf", "elfParameters"}),
       F("WANNIER_PARAMETER", "wannierParameters"),
       F("WANNIER_OPTIMIZATION", "wannierOptimization"),
       F("WANNIER_NPROC", "wannierNproc"),
       F("WANNIER_RELOCALIZE_IN_SCF", "wannierRelocalizeInScf"),
       F("WANNIER_RECOMPUTE_DIPOLE_MATRICES_EVERY",
           "wannierRecomputeDipoleMatricesEvery"),
       F("WANNIER_RELOCALIZE_EVERY", "wannierRelocalizeEvery"),
       F("WANNIER_TYPE", "wannierType"),
       F("WANNIER_REFERENCE", "wannierReference"),
       F("WANNIER_SERIAL", "wannierSerial"), F("WANNIER_DOS", "wannierDos"),
       F("WANNIER_MOLECULAR", "wannierMolecular"),
       F("WANNIER_WFNOUT", "wannierWfnOutOptions"),
       Also({"wannierWfnOutOptions", "wannierWfnOutPayload"}),
       F("PARA_USE_MPI_IN_PLACE", "paraUseMpiInPlace"),
       F("PARA_BUFF_SIZE", "paraBuffSize"),
       F("PARA_STACK_BUFF_SIZE", "paraStackBuffSize"),
       F("COMPRESS", "compress"), F("MEMORY", "memory"),
       F("CHECK_MEMORY", "checkMemory"),
       AnyOf("REAL_SPACE_WFN", {"realSpaceWfn", "realSpaceWfnKeep",
           "realSpaceWfnSize"}) >>

CpmdLayout ==
    << F("SPLINE", "splineOptions"), Also({"splineOptions", "splinePoints"}),
       Also({"splineOptions", "splineRange"}),
       F("FINITE_DIFFERENCES", "finiteDifferences"),
       AllOf("TASKGROUPS", {"taskGroups", "taskGroupsCount"}),
       F("DISTRIBUTE_FNL", "distributeFnl"), F("CP_GROUPS", "cpGroups"),
       F("FILE_FUSION", "fileFusionPayload"),
       F("FILE_MERGE", "fileMergePayload"),
       F("FILE_SEPARATION", "fileSeparationPayload"),
       F("NO_RESET", "noReset"), F("FILEPATH", "filePath"),
       F("BENCHMARK", "benchmark"), F("MIRROR", "mirror"),
       F("SHIFT_POTENTIAL", "shiftPotential"),
       F("GLOCALIZATION_PARAMETERS", "glocalizationParameters"),
       F("GLOCALIZATION_OPTIMIZATION", "glocalizationOptimization"),
       F("GFUNCTIONAL_TYPE", "gfunctionalType"),
       F("SPREAD_RSPACE", "spreadRspace"), F("PIPPO", "gUnitarityOptions"),
       F("STEP_TUNING", "stepTuning"),
       AnyOf("G_ANTISYM", {"gAntisym", "gAntisymPenalty"}) >>

CpmdLocalization ==
    << F("G_KICK", "gKick"), F("G_COMPLEX", "gComplex"), F("G_REAL", "gReal"),
       F("READ_MATRIX", "readMatrix"), F("G_STEP_TUNE", "gStepTune"),
       F("GLOC_WFNOUT", "glocWfnOutOptions"),
       Also({"glocWfnOutOptions", "glocWfnOutPayload"}),
       F("NO_GEO_CHECK", "noGeoCheck"), F("BROKEN", "brokenSymmetry"),
       F("DISTRIBUTED_LINALG", "distributedLinalg"),
       F("LINALG_NEWORTHO", "linalgNewOrtho"),
       F("DISORTHO_BSIZE", "disorthoBlockSize"),
       F("BLOCKSIZE_STATES", "statesBlockSize"),
       F("ALLTOALL", "allToAllPrecision"), F("GSHELL", "gshell"),
       F("LOCAL_POTENTIAL", "localPotential"),
       F("CENTER_MOLECULE_OFF", "centerMoleculeOff"),
       F("CENTER_MOLECULE_ON", "centerMoleculeOn"), F("DIIS", "diis"),
       F("ODIIS", "odiis"), F("PCG", "pcg"),
       F("DIAGONALIZATION", "diagonalization"),
       F("FREE-ENERGY", "freeEnergy"), F("INTERFACE", "interface"),
       F("QMMM", "qmmm"), F("BICANONICAL_ENSEMBLE", "bicanonicalEnsemble"),
       AnyOf("CDFT", {"cdft", "cdftOptions", "cdftPayload", "cdftHdaPayload"}) >>

CpmdCombination ==
    << F("VGFACTOR", "vgfactor"), F("VMIRROR", "vMirror"),
       AnyOf("COMBINE_SYSTEMS", {"combineSystemsOptions",
           "combineSystemsPayload", "combineSystemsSabPayload"}),
       AnyOf("KSHAM", {"kshamOptions", "kshamPayload"}),
       F("CZONES_SET", "czonesSet"),
       AnyOf("WOUT", {"woutOptions", "woutPayload"}),
       F("XFMQC", "xfmqcTrajectories"), F("PROPERTIES", "properties"),
       F("VDW_CORRECTION", "vdwCorrection"), F("VDW_WANNIER", "vdwWannier"),
       F("DCACP", "dcacp"), F("RESTART_WAVEFUNCTION", "restartWavefunction"),
       F("TRAJECTORY", "trajectory") >>

\* The section's own directives, the params' file path, the set directives.
CpmdDirectives ==
    << F("FILEPATH", "directive:FILEPATH"),
       Unless(F("FILEPATH", "paramsFilePath"),
              {"directive:FILEPATH", "set:FILEPATH"}),
       F("FILEPATH", "set:FILEPATH") >>

CpmdRows ==
    CpmdTask \o CpmdMethod \o CpmdPaths \o CpmdMixing \o CpmdOptimizers \o CpmdStart
      \o CpmdConvergence \o CpmdDynamics \o CpmdThermostats \o CpmdControl \o CpmdOutput
      \o CpmdDensities \o CpmdLayout \o CpmdLocalization \o CpmdCombination
      \o CpmdDirectives

CpmdRefusals == {Bad("spinOrbitCouplingStates/other")}

-----------------------------------------------------------------------------
(* What the section may lose or repeat, for the properties of DeckKeywords *)

CpmdLosses ==
    {Needs("storeSelection", {"storeInterval"}),
     Needs("storeInterval", {"storeSelection"}),
     Needs("storeSelfConsistentInterval", {"storeSelection", "storeInterval"}),
     Needs("taskGroups", {"taskGroupsCount"}),
     Needs("taskGroupsCount", {"taskGroups"}),
     Needs("temperatureRamp", {"temperature"}),
     Needs("temperatureRampTime", {"temperature", "temperatureRamp"}),
     Needs("temperatureRampRate", {"temperature", "temperatureRamp"}),
     Needs("stressTensorVirial", {"stressTensorSample"}),
     Needs("restFileSample", {"restFileCount"}),
     Needs("rhoOutBands", {"rhoOutBandsCount"}),
     Needs("wannierWfnOutPayload", {"wannierWfnOutOptions"}),
     Needs("glocWfnOutPayload", {"glocWfnOutOptions"}),
     Needs("splinePoints", {"splineOptions"}),
     Needs("splineRange", {"splineOptions"}),
     NeedsOne("noseIonsLocalT0",
         {"noseIonsLocalThermostatCount", "noseIonsLocalThermostats",
          "noseIonsLocalRangeCount", "noseIonsLocalRanges"}),
     Yields("optimizeWavefunction", {"molecularDynamics", "task=md"}),
     Yields("task=gradient", {"molecularDynamics"}),
     Yields("paramsFilePath", {"directive:FILEPATH", "set:FILEPATH"})}

\* Keywords that two fields print on two lines when both are set.
CpmdRepeats ==
    {"MOLECULAR_DYNAMICS_FILE", "LANGEVIN", "INTERFACE", "ODIIS", "RATTLE",
     "RESTART", "QUENCH", "TRAJECTORY", "STORE", "FILEPATH"}
=============================================================================
