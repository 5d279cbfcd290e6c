CONSTANTS
  embed = embed
  ocr = ocr
  urgent = urgent
  chat = chat
  llama = llama
  ollama = ollama
  Cloud = cloud
  Requests = {embed, ocr, urgent, chat}
  Chats = {chat}
  Providers = {llama, ollama}
  Ranked <- MCQueueRanked
  Priority <- MCPriority
  MaxConcurrent = 1
  UnavailableThreshold = 2
  Timed = {embed, ocr, urgent}
  Endless = {chat}
  MaxCalls = 1
  MaxChunks = 1
SPECIFICATION Spec
PROPERTIES
  AbortedIsHeeded
  ImplementsPool
CHECK_DEADLOCK FALSE
