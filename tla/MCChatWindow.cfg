CONSTANTS
  c1 = c1
  c2 = c2
  c3 = c3
  c4 = c4
  c5 = c5
  reply = reply
  Conversations <- MCConversations
  Words <- MCWords
  Reply = reply
  NoWords = NoWords
  NoConversation = NoConversation
  Earlier <- MCEarlier
  Tasks <- MCTasks
  MaxActs = 2
  MaxRestarts = 1
SPECIFICATION MCSpec
INVARIANTS
  HistoryIsKept
PROPERTIES
  SendingEnds
