SPECIFICATION Spec
CONSTANTS
  Regions = {r1}
  Arenas = {a1}
  Hooks = {h1, h2, h3}
  MaxHooks = 2
  MaxFill = 1
  None = None
INVARIANT RegisteredHooksRun
