SPECIFICATION LiveSpec
CONSTANTS
  c1 = c1
  c2 = c2
  Clients <- MCClients
  MaxFails = 9
  SpIds <- MCSpIds
  Clock <- MCClock
  Starts <- MCStarts
  Dests <- MCDests
  MaxSubmits = 3
INVARIANTS
  TypeOK
  BackoffRight
  ReportFindsItsSubmit
  FieldsRecovered
PROPERTIES
  KnockServed
  AllReported
