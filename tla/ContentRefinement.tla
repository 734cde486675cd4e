------------------------- MODULE ContentRefinement -------------------------
(***************************************************************************)
(* The publish pipeline seen as PublishOnce: its media are those of the    *)
(* account, its posts are published when their row says so, whatever the   *)
(* workers, the queue and the sweeper are in the middle of.                *)
(***************************************************************************)
EXTENDS ContentPublish

Promise == INSTANCE PublishOnce WITH
  out <- [i \in DOMAIN feed |-> [post |-> feed[i].post, attempt |-> feed[i].attempt]],
  published <- {p \in Posts : row[p].status = "PUBLISHED"},
  live <- {p \in Posts : campaign[p].active}

\* The pipeline keeps the scheduler's promise: each step of a worker, the sweeper, a
\* user or a fault publishes, records or switches one post, in that order, or none.
KeepsPromise == Promise!Spec

\* Without users it also publishes every scheduling attempt at most once (AC-8, AC-9),
\* through crashes, lost answers, lost jobs and the sweeper's recovery.
PublishesOnce == Promise!OnceSpec
=============================================================================
