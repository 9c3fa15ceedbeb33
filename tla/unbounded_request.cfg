SPECIFICATION FairSpec
CONSTANTS
  r1 = r1
  r2 = r2
  Sampler = Sampler
  Requests = {r1, r2}
  Envs <- MCEnvs
  Objects = 2
  MinPings = 2
  MaxPings = 3
PROPERTY RequestsBounded
