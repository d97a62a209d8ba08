SPECIFICATION PlatformSpec
CONSTANTS
  NoTab = NoTab
  NoServer = NoServer
  Tabs = {a}
  MaxStarts = 1
  Clients = {1, 2}
  Launches = {1, 2}
  Resources = {session}
INVARIANTS
  TabsAreCurrent
  TabKnowsItsServer
CHECK_DEADLOCK FALSE
PROPERTIES
  ShutdownReleases
