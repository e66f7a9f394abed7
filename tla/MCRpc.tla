------------------------------- MODULE MCRpc -------------------------------
(***************************************************************************)
(* The client libraries on small instances.  Two questions share a run: a  *)
(* behaviour either works the network (part "rpc") or maps responses to    *)
(* results (part "surface"), and leaves the other at its first state.      *)
(***************************************************************************)
EXTENDS RpcClients, ClientSurface

VARIABLE part

MCPrograms(l) ==
    CASE l = "rust" -> {<<"insert", "insert", "insert">>, <<"update", "insert", "ping">>,
                        <<"insert", "ping", "update">>, <<"insert", "update", "get">>}
      [] l = "py"   -> {<<"update", "insert">>, <<"insert", "ping">>}
      [] l = "go"   -> {<<"update", "insert">>, <<"insert", "insert">>, <<"insert", "ping">>}
      [] l = "ts"   -> {<<"insert", "insert">>, <<"update", "ping">>}

\* Two flushes that both reconnect need a third connection.
MCMaxOpened(l) == IF l = "ts" THEN 3 ELSE 2

MCInit ==
    /\ RpcInit /\ SurfInit
    /\ \/ part = "rpc" /\ u_lang = "rust"
       \/ /\ part = "surface"
          /\ c_lang = (CHOOSE l \in Langs : TRUE)
          /\ c_op = (CHOOSE p \in Programs(c_lang) : TRUE)

MCNext ==
    \/ part = "rpc" /\ RpcNext /\ UNCHANGED <<part, surf_vars>>
    \/ part = "surface" /\ SurfNext /\ UNCHANGED <<part, rpc_vars>>

MCSpec == MCInit /\ [][MCNext]_<<part, rpc_vars, surf_vars>> /\ RpcFairness
=============================================================================
