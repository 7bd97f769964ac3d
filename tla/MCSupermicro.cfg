\* An admin locking and unlocking one machine while another caller writes,
\* patches and resets it, in a store with room for three keys, with one restart.
SPECIFICATION Spec
CONSTANTS
    Clients = {admin_client, other_client}
    Admin = admin_client
    Manager = bmc1
    Members = {bmc1}
    Orders <- MCLiveOrders
    BmcOrder <- MCNoOrder
    MaxKeys = 3
    MaxRestarts = 1
    None = None
INVARIANTS
    TypeOK
    SequenceTakesEffect
    NoFalseSuccess
PROPERTY ResetForgets
