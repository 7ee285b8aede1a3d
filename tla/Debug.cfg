SPECIFICATION DebugSpec
CONSTANTS
  Pids = {p1234}
  NoPid = NoPid
  Texts = {"x"}
  BadTexts = {"1/0"}
  Modes = {"in", "over"}
  Endpoints = {"h1", "h2"}
  Latencies = {20}
  Frames = {0}
  Ranges = {r1}
  Hits = {0}
  MaxHits = 1
INVARIANTS
  SavedConditionEvaluates EndpointsAgree
PROPERTIES
  ImplementsSession
