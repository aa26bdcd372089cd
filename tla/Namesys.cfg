SPECIFICATION FairSpec
CONSTANTS
  Self = self
  Names = {self}
  Values = {a, b}
  Publishers = {u1}
  Republisher = rp
  Lifetimes = {2}
  RecordLifetime = 1
  First = a
  MaxPublishes = 1
  MaxFlight = 1
  MaxLate = 1
  Nothing = Nothing
INVARIANTS TypeOK SeqNamesValue PublishedNewest
PROPERTY NetworkLearns
CHECK_DEADLOCK FALSE
