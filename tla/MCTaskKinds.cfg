SPECIFICATION KindsSpec
CONSTANTS
  i = i
  timer = timer
  forced = forced
  x = x
  l = l
  a = a
  b = b
  w1 = w1
  w2 = w2
  c1 = c1
  c2 = c2
  nothing = nothing
  Issues = {i}
  NoIssue = nothing
  Ticks = {timer, forced}
  Timer = timer
  Rooms = {0, 2, 3, 100}
  MaxComments = 2
  Codes = {x}
  Levels = {l}
  Chats = {a, b}
  Ahead = {b}
  Watchers = {w1, w2}
  Calls = {c1, c2}
  Nothing = nothing
  MaxDay = 2
  MaxFaults = 2
  MaxSteps = 3
INVARIANTS DevelopedIsConfirmed DevelopedOnce PushedIsFinished SubscriptionsAreMonitored RepeatsNeedAnotherDate
PROPERTIES ReplyIsHeard
CHECK_DEADLOCK FALSE
