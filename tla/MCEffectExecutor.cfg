SPECIFICATION Spec
CONSTANTS
  None = None
  key = key
  e1 = e1
  e2 = e2
  e3 = e3
  e4 = e4
  e5 = e5
  x = x
  y = y
  text = text
  undefined = undefined
  null = null
  Effects = {e1, e2, e3, e4, e5}
  Keys = {key}
  Inputs = {x, y}
  Results = {text, undefined, null}
  KeyOf <- MCKeyOf
  InputOf <- MCInputOf
  JsonOf <- MCJsonOf
INVARIANTS EventsFollowRow
PROPERTIES KeepsThePromise
CHECK_DEADLOCK FALSE
