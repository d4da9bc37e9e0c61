SPECIFICATION Spec
CONSTANTS
  web = web
  zoom = zoom
  zoomVideo = zoomVideo
  Zoom = Zoom
  Names <- AllNames
  Lower <- LowerCase
  Base <- BaseName
  Bundled <- BundledApps
  Analyses <- LowerAnalyses
  Exports <- SomeExports
  Web = {w1, w2}
  Cli = {c1}
  Absent = Absent
  Torn = Torn
  MaxStops = 1
INVARIANTS TypeOK NothingForgotten TableFollowsFile
PROPERTIES MissedOnlyInReload EntriesTakeEffect
