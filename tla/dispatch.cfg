SPECIFICATION PacketFairSpec
CONSTANTS
    USB_XFER_TIMEOUT = 11
    USB_NAK_LIMIT = 3
    USB_RETRY_LIMIT = 2
    AttemptTime = 2
    Jumps = {1, 6, 12}
INVARIANTS NeverLate OwnAnswer
PROPERTY Returns
