\* The default 15 s TTL and 1.5 s command timeout; the ledger needs no reconciliation.
SPECIFICATION Spec
CONSTANTS
  Gateways = {g1, g2}
  Patient = {}
  Nobody = Nobody
  TTL = 10
  CommandTimeout = 1
  LedgerRows = 0
INVARIANT LeaseOutlivesAdmission
