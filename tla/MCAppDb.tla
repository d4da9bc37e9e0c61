------------------------------ MODULE MCAppDb -------------------------------
(* Small instances of AppDb: one bundled app, one known under its full and  *)
(* its suffix-stripped name, one that an analysis may spell in capitals.    *)
EXTENDS AppDb

CONSTANTS web, zoom, zoomVideo, Zoom

AllNames == {web, zoom, zoomVideo, Zoom}
LowerCase == [a \in AllNames |-> IF a = Zoom THEN zoom ELSE a]
BaseName == [a \in AllNames |-> IF a = zoomVideo THEN zoom ELSE a]
BundledApps == [a \in {web} |-> "bundled"]

Found(names) == [a \in names |-> "ai"]
Exported(names) == [a \in names |-> "pan"]

LowerAnalyses == { Found({}), Found({zoom}), Found({web, zoomVideo}) }
SomeExports == { Exported({}), Exported({Zoom, web}) }
=============================================================================
