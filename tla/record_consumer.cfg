SPECIFICATION Spec
CONSTANTS
    Tenants = {"alpha", "beta"}
    Providers = {"a", "b"}
    Records = {"r"}
    Revisions = {"7", "8"}
    EventTypes = {"ready"}
    Event <- MCEvent
    EventIdentity <- ReferenceEventIdentity
    DocumentIdentity <- ReferenceDocumentIdentity
    RecordOf <- TenantRecord
INVARIANTS
    DuplicateMeansReplay
    IndexHoldsLatest
PROPERTIES
    ReplayChangesNothing
