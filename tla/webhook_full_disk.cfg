SPECIFICATION SpecFullDisk
CONSTANTS
  Tasks = {t1, t2}
  NoDelivery = NoDelivery
  Requests <- StorableRequests
  Deliveries <- MCDeliveries
  Limits = {1}
  EventsMaxLimit = 1
  MaxClock = 1
INVARIANTS
  AckedIsDurable
