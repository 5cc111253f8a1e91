SPECIFICATION RetrySpec
CONSTANTS
  s1 = s1
  s2 = s2
  c1 = c1
  c2 = c2
  m644 = m644
  m755 = m755
  Partial = Partial
  NoContent = NoContent
  AnyMode = AnyMode
  NoRecord = NoRecord
  NoTemp = NoTemp
  Paths <- MCPaths
  Inside <- MCInside
  Units = {"app.container"}
  ImagesDir = "images"
  Temps <- MCTemps
  Rank <- MCRank
  Contents = {c1, c2}
  Modes = {m644, m755}
  DefaultMode = m644
  Sessions = {s1}
  Reloading = {s1}
  Projects <- AllProjects
  Trees <- AnyTree
  Records <- NoRecordYet
  Meddlings <- SomeMeddling
  MaxEdits = 0
  MaxMeddles = 1
  MaxFaults = 1
INVARIANTS Converged ReloadTakesEffect IInv
PROPERTIES Footprint Returns RetriesConverge
