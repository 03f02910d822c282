--------------------------- MODULE MCSyncResponse ---------------------------
EXTENDS SyncResponse

CONSTANTS u1, name

\* A message, a state change, a profile change and a kick.
MCPosts == {<<u1, Message>>, <<Me, name>>, <<u1, u1>>, <<Me, u1>>}

Asked(lazy, redundant, after, limit) ==
    [lazy |-> lazy, redundant |-> redundant, after |-> after, limit |-> limit]

\* Every mode, with timelines of one event (windows of two are cut) and of two.
MCFilters == {Asked(FALSE, FALSE, FALSE, 1), Asked(FALSE, FALSE, TRUE, 1),
              Asked(TRUE, FALSE, FALSE, 1), Asked(TRUE, TRUE, TRUE, 2)}

\* Lazy loading with state_after.
LazyAfter == {Asked(TRUE, FALSE, TRUE, 1)}
=============================================================================
