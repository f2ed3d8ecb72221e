SPECIFICATION Spec
CONSTANTS
    ConsumerEndpoints <- MCConsumerEndpoints
    Endpoints <- MCEndpoints
    ClientIds = {id}
    Uuid = uuid
    None = None
INVARIANTS
    TypeOK
    EndpointsReachTheirOwner
    AuthLayerNeverMissing
    AnswersCarryRequestId
