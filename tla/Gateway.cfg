SPECIFICATION Spec
CONSTANTS
  Ids <- MCIds
  Rnames <- MCRnames
  Streams <- MCStreams
  Whitelist <- MCWhitelist
  CommonNames <- MCCommonNames
  Words = {"a", "b", "stats", "favicon.ico", "static", "userstats", "objects", "files", "groupobjects",
           "trashed", "shares", "shared", "sharedpublic", "zip", "properties", "move", "search"}
  Names = {"a", "stats", "static", "objects", "groupobjects"}
  Arrivals <- MCArrivals
INVARIANT ReachesHandler
INVARIANT PathFindsObject
INVARIANT ReadOnlyChangesNothing
INVARIANT ActsForSubject
CHECK_DEADLOCK FALSE
