SPECIFICATION Spec
CONSTANTS
  Invocations = {c1, c2, c3}
  Commits = {a, b}
  Datasets = {dataset}
  WorkflowRuns = {run, rerun}
  None = None
SYMMETRY Symmetry
INVARIANTS CompleteResumes
