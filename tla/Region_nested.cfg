SPECIFICATION Spec
CONSTANTS
  Regions = {r1, r2}
  Arenas = {a1, a2}
  Hooks = {h1, h2, h3}
  MaxHooks = 2
  MaxFill = 1
  None = None
INVARIANT TypeOK
PROPERTIES HooksInReverse ArenaOutlivesHooks EndEmptiesArena EndReturns
