SPECIFICATION Spec
CONSTANTS
  r1 = r1
  r2 = r2
  x = x
  bad = bad
  t = t
  h1 = h1
  h2 = h2
  p = p
  Null = Null
  CfgHost = CfgHost
  FileName = FileName
  Rule = {r1, r2}
  Regex = {x, bad}
  Broken = {bad}
  Result <- MCResult
  NoMatch = 1
  Tag = {t}
  Host = {h1, h2}
  Path = {p}
  MaxValues = 3
  File <- MCFile
INVARIANT TypeOK
PROPERTY AsTheRulesSay
