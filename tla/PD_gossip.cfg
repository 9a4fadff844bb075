SPECIFICATION FairSpec
CONSTANTS
  Agents = {1, 2}
  c1 = c1
  c2 = c2
  Commits = {c1, c2}
  Author <- MCAuthor
  Merges = {m1, m2, m3}
  Slots = {s1}
  MaxAttempts <- MCMaxAttempts
PROPERTY RevisionsMeet
CHECK_DEADLOCK FALSE
