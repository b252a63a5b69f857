------------------------------- MODULE Queries -------------------------------
(* What a view's query is doing, in TanStack Query as this program uses it. *)
(* A fetch reads the store at some moment after it was asked for and puts   *)
(* the value in the cache later; writing the cache does not cancel it. Of a *)
(* query that is shown an invalidation cancels the fetch in flight and asks *)
(* again. Of one that is not, it only sets a mark, which makes the view ask *)
(* when it is shown again; but a fetch in flight goes on, and its answer    *)
(* takes the mark away, however old the value. An answer counts as fresh    *)
(* for five minutes, longer than a run.                                     *)
EXTENDS Integers, Sequences

NoFetch == [at |-> "idle"]
Stale == [at |-> "stale"]
Asked == [at |-> "asked"]
ReadOf(value) == [at |-> "read", value |-> value]
\* Read before an invalidation that did not cancel it...
Passed(value) == [at |-> "passed", value |-> value]
\* ...so what is shown as fresh is what was stored before. Nothing is under way.
Outdated == [at |-> "outdated"]

Running(fetch) == fetch.at \in {"asked", "read", "passed"}
Resting(fetch) == ~Running(fetch)

\* mutated: a view that is not shown is not marked
InvalidatedShown(mounted, fetch) == IF mounted THEN Asked ELSE fetch
Invalidated(mounted, fetch) ==
    IF mounted THEN Asked
    ELSE CASE Resting(fetch) -> Stale
           [] fetch.at = "asked" -> Asked
           [] OTHER -> Passed(fetch.value)
Remounted(fetch) == IF fetch.at = "stale" THEN Asked ELSE fetch

\* The answer of a fetch is taken from the store while it runs...
Reads(fetch, store, fetchNext) ==
    /\ fetch.at = "asked"
    /\ fetchNext = ReadOf(store)

\* ...and reaches the cache in a step of its own.
Lands(fetch, fetchNext, cacheNext) ==
    /\ fetch.at \in {"read", "passed"}
    /\ fetchNext = IF fetch.at = "read" THEN NoFetch ELSE Outdated
    /\ cacheNext = fetch.value
==============================================================================
