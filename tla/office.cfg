SPECIFICATION MCSpec
CONSTANTS
    Quotes = 2
    Session = {p1, p2}
    MostMade = 2
    Scenes <- MCQuotationScenes
    ApprovalLines <- MCApprovalLines
    ApprovalScenes <- MCApprovalScenes
    Wide = 4
    NumberScenes <- MCNumberScenes
    Responses = 2
    MostOrdered = 3
    SourcingScenes <- MCSourcingScenes
    Pushes = {1}
    MostQuotes = 3
    MostOrders = 2
    Reported = {"NEW", "SHIPPED", "CANCELLED"}
    StoreScenes <- MCStoreScenes
    TicketCount = 2
    Patched = {"IN_PROGRESS", "CLOSED"}
    First = 2
    Desk = {1}
    TicketScenes <- MCTicketScenes
INVARIANTS   OneAward
PROPERTIES SentExpire NeverRefused StoreKept TicketsKept
CHECK_DEADLOCK FALSE
