CONSTANTS
  a = a
  b = b
  NoStory = NoStory
  Sym = {a}
  SmallCap = {a}
  MaxWatch = 1
  Window = 2
  Cooldown = 2
  Horizons = {}
  MaxNews = 2
  Filed = {"prospectus", "effect", "registration", "distress"}
  Items = {"sale"}
  Filers = {a}
  Movers = {}
SPECIFICATION Spec
INVARIANT HighIsClean
