\* One hold whose release is asked for; nothing is killed and nothing fails.
SPECIFICATION ReleaseSpec
PROPERTIES ReleaseCompletes
CONSTANTS
  d1 = d1
  h1 = h1
  c1 = c1
  c2 = c2
  Deletions = {d1}
  Holds = {h1}
  Officers = {c1}
  MaxDuties = 3
  MaxMishaps = 0
