SPECIFICATION FairSpec
CONSTANTS
  Kinds = {"Serial", "Network", "SSH"}
  MaxPending = 1
INVARIANTS ToolHasPort OffStaysOff StopOffered NoRetryWhileLive OneAnnouncement
PROPERTIES ComesBack
