SPECIFICATION Spec
CONSTANTS
  chat1 = chat1
  msg1 = msg1
  msg2 = msg2
  card1 = card1
  card2 = card2
  other = other
  other2 = other2
  s1 = s1
  s2 = s2
  repo = repo
  t1 = t1
  t2 = t2
  NoEvent = NoEvent
  NoChat = NoChat
  NoInput = NoInput
  Messages = {msg1, msg2}
  CardIds = {card1, card2, other, other2}
  Runs = {s1, s2}
  Calls = {s1, s2}
  Senders = {"member", "stranger", "unknown"}
  Chats = {chat1}
  Repos = {repo}
  Inputs = {t1, t2}
  ClassOf <- MCClassOf
  ChatOf <- MCChatOf
  OtherCards <- MCOtherCards
  MaxEvents = 4
SYMMETRY MCSymmetry
INVARIANTS LoneWorkIsWhole StartedOncePerLife
PROPERTIES ChangesAreShown
CHECK_DEADLOCK FALSE
