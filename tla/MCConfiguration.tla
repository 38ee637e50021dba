----------------------------- MODULE MCConfiguration -----------------------------
EXTENDS Configuration

MCSystem(cutoff, charge, mult, vectors, solver) ==
    [kind |-> "typed", name |-> "SYSTEM", symmetry |-> "isolated", vectors |-> vectors,
     cutoff |-> cutoff, charge |-> charge, mult |-> mult, solver |-> solver]
MCDft(functional, lsd) ==
    [kind |-> "typed", name |-> "DFT", functional |-> functional, lsd |-> lsd]
MCAtoms(psps) == [kind |-> "typed", name |-> "ATOMS", psps |-> psps]

MCSections ==
    {MCSystem(70, 0, 1, FALSE, FALSE), MCSystem(100, 0, 3, TRUE, FALSE),
     MCSystem(70, 1, 1, FALSE, TRUE), MCDft("BLYP", FALSE), MCDft("B3LYP", TRUE), MCDft("", FALSE),
     MCDft("PBEoriginal", FALSE), MCAtoms(<<"O", "H">>), MCAtoms(<<"H", "Si">>),
     MCAtoms(<<"H", "H">>), MCAtoms(<<"?">>)}
      \cup {[kind |-> "typed", name |-> "CPMD", lsd |-> FALSE], [kind |-> "typed", name |-> "VDW"],
            [kind |-> "generic", name |-> "SYSTEM"], [kind |-> "generic", name |-> "PROP"],
            [kind |-> "raw", opens |-> {"SYSTEM"}], [kind |-> "raw", opens |-> {"DFT", "CPMD"}],
            [kind |-> "unknown"]}

MCTexts == {"", "BLYP", "B3LYP", "PBE", "PBEoriginal"}

MCSetKeys ==
    {[section |-> "SYSTEM", keyword |-> "POISSON SOLVER"], [section |-> "CPMD", keyword |-> "MAXSTEP"],
     [section |-> "CPMD", keyword |-> "N_STREAMS"], [section |-> "PROP", keyword |-> "CHARGES"], [section |-> "", keyword |-> ""]}

MCOverlayFields ==
    {"present", "xc", "xcBad", "cutoff", "charge", "mult", "kMesh", "kMeshBad", "smearing",
     "smearingBad", "vdw", "vdwBad", "relativity", "scf", "basisBad"}

MCGeometries ==
    {[atoms |-> <<"O", "H">>, cell |-> "none"], [atoms |-> <<"O", "H">>, cell |-> "cubic"],
     [atoms |-> <<"H", "O">>, cell |-> "tilted"], [atoms |-> <<"H", "Si">>, cell |-> "orthorhombic"],
     [atoms |-> <<"H">>, cell |-> "degenerate"]}

MCTop(functional, charge, mult, blocks) ==
    [functional |-> functional, cutoff |-> 70, charge |-> charge, mult |-> mult, blocks |-> blocks,
     sections |-> << >>, sets |-> << >>]
MCTops ==
    {MCTop("BLYP", 0, 1, {}), MCTop("B3LYP", 0, 3, {}), MCTop("", 1, 0, {"SYSTEM"})}
=============================================================================
