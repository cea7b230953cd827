SPECIFICATION Spec
CONSTANTS
  None = None
  Chats = {c1, c2}
  Folders = {f1}
  Prompts = {p1}
  Requests = {r1, r2}
  MaxSlugs = 2
  MaxStarted = 3
SYMMETRY Symmetry
INVARIANTS ListConverges LinksEndForGood PromptsSentOnce
CHECK_DEADLOCK FALSE
