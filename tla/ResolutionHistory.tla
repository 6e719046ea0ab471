-------------------------- MODULE ResolutionHistory --------------------------
(* ReferenceResolution with a history of the fetches: which request resolved a
   URI last, and to what. *)
EXTENDS ReferenceResolution

VARIABLE latest  \* latest[u]: what the last fetch of u to get a body got, and for whom

HistoryInit == Init /\ latest = [u \in Remote |-> Nothing]

(* The goroutine of r that resolves u has its answer in this step. *)
Fetches(r, u) ==
    /\ u \in DOMAIN task[r] \cap DOMAIN task'[r]
    /\ task[r][u] = Waiting /\ task'[r][u] # Waiting

HistoryNext ==
    /\ Next
    /\ latest' = [u \in Remote |->
         IF origin[u] \in Bodies /\ \E r \in Requests : Fetches(r, u)
           THEN [id |-> origin[u].id, by |-> CHOOSE r \in Requests : Fetches(r, u)]
           ELSE latest[u]]

HistorySpec == HistoryInit /\ [][HistoryNext]_<<vars, latest>>

(* internal/store/pg/store.go, on recordPlaylistSources: the table "has to track
   the most recent successful resolution".  When the request that fetched a URI
   last has ingested what it got, the cache holds that. *)
SourcesFollowLatest ==
    \A u \in Remote :
        latest[u] # Nothing /\ reply[latest[u].by] = "ok" /\ stored[latest[u].id] # NoRow
            => sources[u] = latest[u].id
=============================================================================
