----------------------------- MODULE MCNodeQueries -----------------------------
(* A small instance of NodeQueries: two nodes, one of which is a Safe's owner   *)
(* as well, one channel each way and a Safe.                                    *)
EXTENDS NodeQueries

MCAddresses == {"alice", "bob"}
MCTimes == {0}
MCIds == {<<"alice", "bob">>, <<"bob", "alice">>}
MCSafes == {[address |-> "alice", owners |-> {"bob"}, registered_nodes |-> {},
             deployer |-> "bob"]}
Ask(op, of) == [op |-> op, of |-> of, not |-> "alice"]
MCCalls == {Ask(op, "bob") : op \in {"channels_to", "channels_from", "announced_peers",
                "account_of", "services_of", "Address", "Deployer", "NodeAddress", "Owner"}}
           \cup {Ask("live_services", "exit"), Ask("account_with", "k1"),
                 Ask("resolve_transport_address", "bob"), Ask("get_channel", "k1")}
================================================================================
