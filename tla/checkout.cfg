SPECIFICATION FairSpec
CONSTANTS
  tmpl = tmpl
  Template <- tmpl
  StudentCount = 2
  SubDirs = {"test"}
  MaxPushes = 1
  Faults <- MCFailures
  MaxMishaps = 1
INVARIANTS TypeOK CacheFaithful TestsReplaced
PROPERTIES Recovers
