--------------------------- MODULE RegistrySelectors ---------------------------
(***************************************************************************)
(* The selectors of the other on-chain registries: AccountSelector,        *)
(* ServiceSelector and SafeSelector of src/src/chain/{accounts,services,   *)
(* safe}.rs. Builder methods are operators from selector to selector, an   *)
(* Option is a set of at most one element, as in ChannelSelectors.         *)
(***************************************************************************)
EXTENDS ChannelSelectors

\* Addresses are of nodes, Safes, owners and deployers.
CONSTANTS OffchainKeys,
          ServiceTypes

Option(S) == {{}} \cup {{x} : x \in S}

--------------------------------------------------------------------------------
\* Accounts. has_announced_with_routing_info() is whether there are multiaddresses.

AccountEntries == [chain_addr : Addresses, public_key : OffchainKeys, routed : BOOLEAN]

AccountSelector == [public_only : BOOLEAN, chain_key : Option(Addresses),
                    offchain_key : Option(OffchainKeys)]

DefaultAccounts == [public_only |-> FALSE, chain_key |-> {}, offchain_key |-> {}]

with_public_only(s, public_only) == [s EXCEPT !.public_only = public_only]

\* Flawed variant: adds to the key set before, as with_allowed_states does.
flawed_with_chain_key(s, a) == [s EXCEPT !.chain_key = @ \cup {a}]

with_chain_key(s, a) == [s EXCEPT !.chain_key = {a}]

with_offchain_key(s, k) == [s EXCEPT !.offchain_key = {k}]

account_satisfies(s, e) == /\ s.public_only => e.routed
                           /\ s.chain_key \subseteq {e.chain_addr}
                           /\ s.offchain_key \subseteq {e.public_key}

--------------------------------------------------------------------------------
\* Services. Whether a node is live cannot be read off its entry.

ServiceEntries == [service_type : ServiceTypes, node : Addresses]

ServiceSelector == [service_type : Option(ServiceTypes), node : Option(Addresses),
                    live_only : BOOLEAN]

DefaultServices == [service_type |-> {}, node |-> {}, live_only |-> FALSE]

with_service_type(s, t) == [s EXCEPT !.service_type = {t}]

with_node(s, n) == [s EXCEPT !.node = {n}]

with_live_only(s, live_only) == [s EXCEPT !.live_only = live_only]

\* Flawed variant: an orphaned entry passes when its node is named.
flawed_service_satisfies(s, e, node_is_live) ==
    /\ s.live_only /\ s.node = {} => node_is_live
    /\ s.service_type \subseteq {e.service_type}
    /\ s.node \subseteq {e.node}

service_satisfies(s, e, node_is_live) ==
    /\ s.live_only => node_is_live
    /\ s.service_type \subseteq {e.service_type}
    /\ s.node \subseteq {e.node}

--------------------------------------------------------------------------------
\* Safes.

DeployedSafes == [address : Addresses, owners : SUBSET Addresses,
                  registered_nodes : SUBSET Addresses, deployer : Addresses]

SafeSelector == [by : {"Address", "Deployer", "NodeAddress", "Owner"}, of : Addresses]

safe_satisfies(s, safe) ==
    \/ s.by = "Address" /\ safe.address = s.of
    \/ s.by = "Deployer" /\ safe.deployer = s.of
    \/ s.by = "NodeAddress" /\ s.of \in safe.registered_nodes
    \/ s.by = "Owner" /\ s.of \in safe.owners
================================================================================
