CONSTANTS
  Apps = {a1}
  Workers = {w1}
  Uploads = {u1}
  Events = {e1}
  Reports = {r1}
  Gets = {g1}
  Inbound = {i1}
  MaxSets = 2
  MaxItems = 2
  Frequencies = {2}
  Timeouts = {3}
  Clients = {c1, c2}
  MuxWorkers = {w1, w2}
  MaxCalls = 3
  Overlapping = FALSE
SPECIFICATION Spec
INVARIANT LayerSound
PROPERTIES AnsweredOnce CallsEnd
CHECK_DEADLOCK FALSE
