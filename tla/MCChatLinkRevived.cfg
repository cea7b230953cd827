\* One chat that is shared twice and unshared, from any tabs.
SPECIFICATION Spec
CONSTANTS
  None = None
  Chats = {c1}
  Folders = {}
  Prompts = {}
  Requests = {r1, r2}
  MaxSlugs = 2
  MaxStarted = 3
SYMMETRY Symmetry
INVARIANT OldLinksStopResolving
CHECK_DEADLOCK FALSE
