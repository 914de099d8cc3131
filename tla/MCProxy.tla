-------------------------------- MODULE MCProxy --------------------------------
(***************************************************************************)
(* Instances of Proxy for TLC.                                             *)
(***************************************************************************)
EXTENDS Proxy

CONSTANTS n1, n2, main, spare, t1

Chat == "chat_completions"
Embeddings == "embeddings"

Kind(workload, priority, thread, origin) ==
    [workload |-> workload, priority |-> priority, thread |-> thread, origin |-> origin]

\* One permit for each of two priorities.
OneEach == ("realtime" :> 1) @@ ("batch" :> 1)

--------------------------------------------------------------------------------
(* Concurrency: the same thread, on the second backend's node, sends two workloads, *)
(* one of which only the first backend serves.                                      *)

SharedBackends == <<[node |-> n1, pool |-> main, workloads |-> {Chat, Embeddings}],
                    [node |-> n2, pool |-> main, workloads |-> {Embeddings}]>>
SharedKinds == {Kind(Chat, "realtime", t1, n2), Kind(Embeddings, "batch", t1, n2)}
NoPools == <<>>
NoMemory == [w \in {Chat, Embeddings} |-> 0]
NoReports == {}
NoLoads == {NoLoad}

\* A request ends if the backends it is sent to answer.  Requests differ only in their
\* names, so it is enough to watch one of them.
RequestEnds == EndsIfAnswered(CHOOSE r \in Requests : TRUE)

--------------------------------------------------------------------------------
(* Selection: embeddings need memory and look into the main pool first; chats need *)
(* none and rank all backends.  The first node reports as a whole.                 *)

RankedBackends == <<[node |-> n1, pool |-> spare, workloads |-> {Chat, Embeddings}],
                    [node |-> n2, pool |-> main, workloads |-> {Chat, Embeddings}]>>
RankedKinds == {Kind(Embeddings, "realtime", NoThread, NoNode),
                Kind(Chat, "realtime", t1, NoNode), Kind(Chat, "realtime", t1, n2)}
EmbeddingPools == (Embeddings :> <<main, spare>>)
EmbeddingMemory == (Chat :> 0) @@ (Embeddings :> 1)
SomeReports == {<<n2, 2>>, <<n1, NoBackend>>}

================================================================================
