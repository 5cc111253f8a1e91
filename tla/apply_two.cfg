SPECIFICATION Spec
CONSTANTS
  s1 = s1
  s2 = s2
  c1 = c1
  c2 = c2
  m644 = m644
  m755 = m755
  Partial = Partial
  NoContent = NoContent
  AnyMode = AnyMode
  NoRecord = NoRecord
  NoTemp = NoTemp
  Paths <- MCPaths
  Inside <- MCInside
  Units = {"app.container"}
  ImagesDir = "images"
  Temps <- MCTemps
  Rank <- MCRank
  Contents = {c1, c2}
  Modes = {m644, m755}
  DefaultMode = m644
  Sessions = {s1, s2}
  Reloading = {s1}
  Projects <- FileOrDir
  Trees <- TwoTrees
  Records <- NoRecordYet
  Meddlings <- SomeMeddling
  MaxEdits = 1
  MaxMeddles = 0
  MaxFaults = 1
INVARIANTS AppliedRecorded TempsOwned
PROPERTIES Undisturbed KeepsPromise
