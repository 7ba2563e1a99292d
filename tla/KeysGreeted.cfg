SPECIFICATION KeysFairSpec
CONSTANTS
  c1 = c1  c2 = c2
  Links = {c1, c2}
  MaxUp = 1
  MaxMsg = 1
  MaxAgain = 1
INVARIANTS SealedIsOpened
PROPERTIES GreetingCompletes
CHECK_DEADLOCK FALSE
