------------------------------ MODULE OneQuery ------------------------------
(***************************************************************************)
(* What a list on the screen promises (useResource.ts, "THE INVARIANT"):   *)
(* the rows shown answer the query shown.  Another query empties the list  *)
(* at once; rows change only while the list says that it is loading.       *)
(***************************************************************************)
CONSTANTS Queries,      \* the parameters a list can be given
          Answers(_),   \* the pages that answer a query
          Nothing       \* no page

VARIABLES query, rows, busy

OneQueryInit == query \in Queries /\ rows = Nothing /\ busy = TRUE

Ask == /\ query' \in Queries \ {query}
       /\ rows' = Nothing
       /\ busy' = TRUE

Refetch == busy' = TRUE /\ UNCHANGED <<query, rows>>

Answer == /\ busy
          /\ busy' = FALSE
          /\ rows' \in Answers(query)
          /\ query' = query

Fail == busy /\ busy' = FALSE /\ UNCHANGED <<query, rows>>

OneQueryNext == Ask \/ Refetch \/ Answer \/ Fail

OneQuerySpec == OneQueryInit /\ [][OneQueryNext]_<<query, rows, busy>>
=============================================================================
