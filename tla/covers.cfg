CONSTANTS
  Slots = {0, 1}
  Paths = {"a", "b", "c", "d"}
  Played = {"a", "b", "c", "d"}
  Listed = {"c"}
  Photographs = {"c"}
  NoPath = NoPath
  SourceId <- MCSourceId
SPECIFICATION MCSpec
INVARIANTS TypeOK NothingLeaks CoverIsOfTheTrack
PROPERTIES AnswersAreLatest EverythingSettles
