SPECIFICATION Spec
CONSTANTS
  p = p
  q = q
  u = u
  v = v
  m = m
  i = i
  r = r
  b = b
  Files <- TheFiles
  Texts <- TheTexts
  NoPage = NoPage
  Posts = {p, q}
  Diagrams = {u, v, m}
  PluginOf <- ThePluginOf
  DiagramsIn <- TheDiagramsIn
  MaxRuns = 3
  NoPlaylist = NoPlaylist
  Playlists <- ThePlaylists
  Degrees = {0, 2}
  MaxLines = 3
  MaxTicks = 1
  Tasks = {i, r, b}
  Kind <- TheKinds
  Workers = {1}
  Capacity = 1
  Delay = 0
  Period = 1
  NoEvent = NoEvent
CHECK_DEADLOCK FALSE
INVARIANTS LinesInOrder FailsOnlyIf InlineSound PicturesWhole LinesOnce WholeVideo OneEventEach
PROPERTY StopReturns
