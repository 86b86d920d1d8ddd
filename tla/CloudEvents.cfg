CONSTANTS
    Trans = {t1, t2}
    Sessions = {s1, s2}
    NoPush = NoPush
    MaxPushes = 2
SPECIFICATION Spec
INVARIANT TypeOK
INVARIANT NoteAfterCache
INVARIANT DeliveredOnce
PROPERTY DeliveredInOrder
PROPERTY AnswersMoveForward
PROPERTY NotesAreTaken
PROPERTY PageThreadEnds
PROPERTY KeepsPromise
\* The system may stop: every thread leaked through onError, the WebSocket to
\* the cloud dead, nothing in the cache.
CHECK_DEADLOCK FALSE
