-------------------------------- MODULE MCConfig --------------------------------
(***************************************************************************)
(* Config for TLC: the cases of the unit tests, and every combination of a *)
(* few values of the variables that depend on each other.                  *)
(***************************************************************************)
EXTENDS ConfigTests

SortedNames == <<"default", "local-llm", "missing", "peer-llm", "vision">>

Names == {Plain("local-llm"), Padded("local-llm"), Plain("peer-llm"), Padded("")}

\* No backends, legacy ones, and up to two with pools of any spelling.
BackendEnvs ==
    {Unset, Variable("BACKENDS", <<NodeA.url, Padded(""), NodeB.url>>),
     Variable("BACKENDS_JSON", <<NodeA, NodeA>>)}
        \cup {Variable("BACKENDS_JSON", <<NodeA @@ [pool |-> pool]>>) : pool \in Names}
        \cup {Variable("BACKENDS_JSON", <<NodeA @@ [pool |-> pool], In(NodeB, "vision")
                                                   @@ [workloads |-> <<"embeddings">>]>>) : pool \in Names}

PoolEnvs ==
    {Unset, Variable("POOLS_JSON", Malformed)}
        \cup {Variable("POOLS_JSON", pools) :
                pools \in UNION {[1..n -> Names \cup {DefaultPool}] : n \in 0..2}}

PolicyEntries ==
    {[workload |-> workload, pools |-> pools] :
        workload \in {Plain("chat_completions"), Padded("chat_completions"), Plain("rerank")},
        pools \in {<<>>, <<DefaultPool>>, <<Padded("local-llm")>>,
                   <<Plain("local-llm"), Padded("local-llm")>>, <<Plain("peer-llm"), DefaultPool>>}}

\* One entry; all others with it; and all others with a second spelling of its name, which
\* sorts before or after the first.
PolicyEnvs ==
    LET all == AllWorkloads(AllDefault)
        others == SelectSeq(all, LAMBDA e : e.workload # Plain("chat_completions"))
        Second == {e \in PolicyEntries : e.workload # Plain("chat_completions")}
    IN  {Unset, Variable("WORKLOAD_POOLS_JSON", Malformed)}
            \cup {Variable("WORKLOAD_POOLS_JSON", <<e>>) : e \in PolicyEntries}
            \cup {Variable("WORKLOAD_POOLS_JSON", <<e>> \o others) : e \in PolicyEntries}
            \cup {Variable("WORKLOAD_POOLS_JSON", all \o <<e>>) : e \in Second}
            \cup {Variable("WORKLOAD_POOLS_JSON", <<e>> \o all) : e \in Second}

StrictEnvs == {Unset, Variable("STRICT_WORKLOAD_POOLS", Padded("true"))}

\* One number at a time: zero, malformed, and at and past the width of its type.
NumberEnvs ==
    {Variable(key, text) : key \in DOMAIN Settings,
                           text \in {Malformed, Number(0), Number(1), NumberOfBits(17), NumberOfBits(32),
                                     NumberOfBits(33), NumberOfBits(64), NumberOfBits(65)}}

Anything == [outcome |-> "any"]

AllCases ==
    TestCases
        \cup {Case(env, Anything) : env \in NumberEnvs}
        \cup {Case(strict @@ policy @@ pools @@ backends, Anything) :
                 strict \in StrictEnvs, policy \in PolicyEnvs, pools \in PoolEnvs, backends \in BackendEnvs}

================================================================================
