SPECIFICATION BrokerSpec
CONSTANTS
  Uri = {u1}
  Client = {c1}
  Handler = {h1}
  History = 2
  MaxIssued = 3
INVARIANTS EveryFollowerIsSentTheNews
