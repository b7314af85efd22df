SPECIFICATION Spec
CONSTANTS
  Plugin = {db, repo}
  db = db
  repo = repo
SYMMETRY Symmetry
PROPERTY PublishedAfterAllBuilt
CHECK_DEADLOCK FALSE
