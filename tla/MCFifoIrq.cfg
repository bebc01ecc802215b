CONSTANTS
  NB_IT = 2
  MaxBeats = 2
  MinGap = 1
  Size = 4
  Coming = 2
SPECIFICATION FISpec
INVARIANTS MaskFollowsRequests NoneForgotten HalfFullKnown
PROPERTIES ClearedBeforeHandler DemuxFindsWork EventsHandled RemoveEnds
           HalfFullServed
