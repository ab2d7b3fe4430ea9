SPECIFICATION Spec
CONSTANTS
  Tasks = {t1, t2}
  NoDelivery = NoDelivery
  Requests <- MCRequests
  Deliveries <- MCDeliveries
  Limits = {1, 5}
  EventsMaxLimit = 2
  MaxClock = 2
INVARIANTS
  TypeOK
  AckedIsDurable
  ReportedNewOnce
  OneRowPerKey
  NothingLeftPending
  ListingIsRecent
PROPERTIES
  LogSpec
  RequestAnswered
