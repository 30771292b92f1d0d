CONSTANTS
  Rise = 3
  Fall = 2
SPECIFICATION FairSpec
PROPERTIES
  RegularAnnounces
