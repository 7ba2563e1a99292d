SPECIFICATION FairSpec
CONSTANTS
  Friends = {f1}
  Nicks = {n1}
  Texts = {t1}
  Peers = {p1}
  Groups = {g1}
  Typed <- MCTyped
  Default = dflt
  NoOne = noone
  EventCapacity = 1
  MaxArrivals = 2
  MaxLines = 3
INVARIANTS PanelSettles ShownIsTrue
PROPERTIES StopIsNoticed
CHECK_DEADLOCK FALSE
