SPECIFICATION FairSpec
CONSTANTS
  b1 = b1
  b2 = b2
  east = east
  west = west
  old = old
  on = on
  off = off
  Caller = {c1, c2}
  Nobody = Nobody
  Request = {on, off}
  NoRequest = NoRequest
  Board = {b1, b2}
  OldBoard = {b2}
  Link = {east, west, old}
  LinkBoard <- MCLinkBoard
  OnOf <- MCOn
  OffOf <- MCOff
  LinksOf <- MCLinks
  FpgaRetries = 3
  RequestTries = 2
INVARIANTS
  TypeOK
  NoLostWakeup
  EndedAfterAll
  DoneMeansDone
  ReportsBounded
PROPERTIES
  ImplementsService
CHECK_DEADLOCK FALSE
