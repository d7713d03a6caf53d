\* One user with one chat, two requests of the user and of the chat at a time,
\* one of them lost, under the fairness of the event loop and of the cache.
SPECIFICATION Spec
CONSTANTS
    c1 = c1
    c2 = c2
    s1 = s1
    m1 = m1
    Calls = {c1, c2}
    Sessions = {s1}
    Messages = {m1}
    MaxLinks = 3
    MaxFaults = 1
    Mixes <- UserAndChatRequests
    None = None
INVARIANTS
    AccountsOK
    ArchiveIsWhole
    LinksAreBounded
PROPERTIES
    RefusalSettles
    NothingIsRevived
    AdIdsStayGone
\* Links are bounded, and a user may stop asking.
CHECK_DEADLOCK FALSE
