SPECIFICATION PartSpec
CONSTANTS
  Callback = {c1}
  Worker = {w1}
  MaxToken = 2
  MaxRow = 1
PROPERTIES ExpiryAnnounced DeathNoticedSameDay
