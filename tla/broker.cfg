SPECIFICATION BrokerSpec
CONSTANTS
  Uri = {u1}
  Client = {c1, c2}
  Handler = {h1}
  History = 2
  MaxIssued = 4
INVARIANTS BrokerTypeOK ResumeIsComplete FollowersAreCurrent
