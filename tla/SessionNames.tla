---------------------------- MODULE SessionNames ----------------------------
(***************************************************************************)
(* The names a backend puts into its events: the session cache of          *)
(* src/src/hooks/hooks.c, which resolves the user's name again when the    *)
(* user has changed, and only inside a transaction.  A role stands for its *)
(* name.                                                                   *)
(***************************************************************************)
CONSTANTS
  Roles,
  Droppable,   \* roles that another session may drop
  unknown      \* "<unknown>"

ASSUME NamesAssumption == Droppable \subseteq Roles /\ unknown \notin Roles

VARIABLES
  userid,      \* GetUserId()
  in_txn,      \* IsTransactionState()
  dropped,     \* roles no catalog lookup finds any more
  initialized, cached_userid, username   \* backend_state

backend_state == <<initialized, cached_userid, username>>
names == <<userid, in_txn, dropped, backend_state>>

NamesInit ==
  /\ userid \in Roles
  /\ in_txn = FALSE
  /\ dropped = {}
  /\ initialized = FALSE
  /\ cached_userid = unknown
  /\ username = unknown

(* CacheUsername: a lookup that fails leaves the old name in place, unless *)
(* there is none yet.                                                      *)
CacheUsername(fallback_on_null) ==
  IF userid \notin dropped
    THEN username' = userid /\ cached_userid' = userid
    ELSE IF fallback_on_null
           THEN username' = unknown /\ cached_userid' = userid
           ELSE UNCHANGED <<username, cached_userid>>

(* Variant: the new user is noted before it is known whether its name can  *)
(* be looked up.                                                           *)
EnsureBackendCacheNotesFirst ==
  IF ~initialized
    THEN IF in_txn
           THEN initialized' = TRUE /\ CacheUsername(TRUE)
           ELSE UNCHANGED backend_state
    ELSE /\ cached_userid' = userid
         /\ username' = IF in_txn /\ cached_userid # userid /\ userid \notin dropped
                          THEN userid ELSE username
         /\ UNCHANGED initialized

EnsureBackendCache ==
  IF ~initialized
    THEN IF in_txn
           THEN initialized' = TRUE /\ CacheUsername(TRUE)
           ELSE UNCHANGED backend_state
    ELSE /\ IF in_txn /\ cached_userid # userid
              THEN CacheUsername(FALSE)
              ELSE UNCHANGED <<cached_userid, username>>
         /\ UNCHANGED initialized

(* InitBaseEvent, ResolveNames and CopyClientContext: what they do to the  *)
(* cache.                                                                  *)
ResolveNames == EnsureBackendCache /\ UNCHANGED <<userid, in_txn, dropped>>

-----------------------------------------------------------------------------
(* A transaction begins; SET ROLE; one ends, and may put the role back.    *)
BeginTxn ==
  /\ ~in_txn
  /\ in_txn' = TRUE
  /\ UNCHANGED <<userid, dropped, backend_state>>

SetRole ==
  /\ in_txn
  /\ userid' \in Roles \ {userid}
  /\ UNCHANGED <<in_txn, dropped, backend_state>>

EndTxn ==
  /\ in_txn
  /\ in_txn' = FALSE
  /\ userid' \in Roles
  /\ UNCHANGED <<dropped, backend_state>>

DropRole ==
  /\ \E r \in Droppable \ dropped : dropped' = dropped \cup {r}
  /\ UNCHANGED <<userid, in_txn, backend_state>>

=============================================================================
