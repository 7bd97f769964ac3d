SPECIFICATION Spec
CONSTANTS
    Clients = {admin_client, other_client}
    Admin = admin_client
    Manager = bmc1
    Members = {bmc1}
    Orders <- MCOrders
    BmcOrder <- MCNoOrder
    MaxKeys = 3
    MaxRestarts = 0
    None = None
INVARIANT OrderNonEmpty
