SPECIFICATION FairSpec
CONSTANTS
  Pane = {p1}
  Exempt = {}
  Screen = {work, ask}
  Prompts = {ask}
  None = None
  MaxClients = 1
  EventsDepth = 1
  MaxFaults = 1
INVARIANTS TypeOK LastEdgeHolds
PROPERTIES DegradesHonestly PromptNoticed
