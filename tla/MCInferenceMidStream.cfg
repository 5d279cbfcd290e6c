CONSTANTS
  embed = embed
  ocr = ocr
  urgent = urgent
  chat = chat
  llama = llama
  ollama = ollama
  Cloud = cloud
  Requests = {chat}
  Chats = {chat}
  Providers = {llama, ollama}
  Ranked <- MCRanked
  Priority <- MCPriority
  MaxConcurrent = 1
  UnavailableThreshold = 2
  Timed = {}
  Endless = {}
  MaxCalls = 1
  MaxChunks = 2
SPECIFICATION Spec
INVARIANTS
  OneSourcePerChat
CHECK_DEADLOCK FALSE
