\* One replay of a directory that is rewritten meanwhile.
SPECIFICATION Spec
CONSTANTS
  r1 = r1  r2 = r2  b1 = b1  b2 = b2  c1 = c1  c2 = c2
  None = None
  Replayers = {r1}
  Bases = {b1}
  Callings <- JustOne
  Candidates = {c1, c2}
  Sound = {c1}
  Rewrites = {c2}
  MaxFaults = 0
INVARIANT
  ExactBinding
