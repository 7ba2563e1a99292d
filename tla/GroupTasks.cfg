SPECIFICATION Spec
CONSTANTS
  g1 = g1  g2 = g2  v1 = v1  t1 = t1  NoTitle = NoTitle  Absent = Absent
  Groups = {g1, v1}
  Saved = {g1}
  Video = {v1}
  Titles = {t1}
  EventCapacity = 2
  InboxCapacity = 1
  InviteCapacity = 1
INVARIANTS InvitationsSurvive GroupsAgree
PROPERTIES NamesStay
