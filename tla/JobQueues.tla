------------------------------- MODULE JobQueues -------------------------------
(***************************************************************************)
(* The list operations that the registry's priority queues are built from *)
(* (JobQueues in src/jobs.rs, the sort of load_registry_snapshot in        *)
(* src/storage.rs).  A queue is a sequence of job numbers in which no job  *)
(* occurs twice.  Every operation is an instance of SortedBy, so that one  *)
(* lemma about SortedBy (module JobQueuesProofs) covers them all.          *)
(***************************************************************************)
EXTENDS Integers, Sequences, FiniteSets

\* The jobs that a queue holds.
Members(q) == {q[i] : i \in DOMAIN q}

\* The place of job x in queue q.
Position(q, x) == CHOOSE i \in DOMAIN q : q[i] = x

\* The members of S that sort before x or are x itself: by rank, then by number.
UpTo(S, rank, x) ==
    {y \in S : rank[y] < rank[x] \/ (rank[y] = rank[x] /\ y <= x)}

\* The finite set S of job numbers as a list, smallest rank first.
SortedBy(S, rank) ==
    [k \in 1..Cardinality(S) |->
        CHOOSE x \in S : Cardinality(UpTo(S, rank, x)) = k]

\* The set S in the order in which its jobs were submitted (ascending number).
Ascending(S) == SortedBy(S, [x \in S |-> x])

\* The entries of list q at the given places, in the order they have in q (Iterator::filter).
Picked(q, places) ==
    LET order == Ascending(places)
    IN  [n \in DOMAIN order |-> q[order[n]]]

\* Queue q without the jobs in ids, the others in the order they had.
\* JobQueues::remove takes one job out; pruning calls it for every removed job.
Without(q, ids) ==
    LET rest == Members(q) \ ids
    IN  SortedBy(rest, [x \in rest |-> Position(q, x)])

\* No job occurs twice in q.
NoDuplicates(q) == \A i, j \in DOMAIN q : q[i] = q[j] => i = j

================================================================================
