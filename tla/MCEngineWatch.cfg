CONSTANTS
  a = a
  b = b
  NoStory = NoStory
  Sym = {a, b}
  SmallCap = {a}
  MaxWatch = 1
  Window = 2
  Cooldown = 3
  Horizons = {1}
  MaxNews = 2
  Filed = {"prospectus", "registration", "distress"}
  Items = {}
  Filers = {a}
  Movers = {a}
SPECIFICATION Spec
INVARIANT WatchInv
PROPERTY SignalsSpaced
