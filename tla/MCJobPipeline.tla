--------------------------- MODULE MCJobPipeline ---------------------------
EXTENDS JobPipeline, TLC
WorkerSymmetry == Permutations(Workers)
=============================================================================
