SPECIFICATION Spec
CONSTANTS
  c1 = c1
  c2 = c2
  h1 = h1
  h2 = h2
  Callers = {c1, c2}
  Hosts = {h1, h2}
  Host <- TwoHosts
  Items = {i1}
  Kinds = {"reminder"}
  Intents = {n1}
  MaxFaults = 0
INVARIANT OneReminder
