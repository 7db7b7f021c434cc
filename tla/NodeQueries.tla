------------------------------ MODULE NodeQueries ------------------------------
(***************************************************************************)
(* Queries of the on-chain registries: channels_to, channels_from and      *)
(* announced_peers of IncentiveChannelOperations                           *)
(* (src/src/node/incentive.rs), and those a client makes with the          *)
(* selectors of src/src/chain. A query opens a stream with a selector and  *)
(* collects it, while the registries change. The stream is external: it    *)
(* goes through the entries there were when it was opened and looks at     *)
(* each one later, as it is then.                                          *)
(*                                                                         *)
(* A path is resolved hop by hop, through the ChainPathResolver of         *)
(* src/src/chain/mod.rs: the keys of its nodes to addresses or back, and   *)
(* then the channels between them, each of these a read of its own.        *)
(*                                                                         *)
(* Queries change nothing and do not meet: there is one. The history       *)
(* variables "always" and "ever" hold the entries its caller wanted        *)
(* throughout the query, and at some time during it.                       *)
(***************************************************************************)
EXTENDS RegistrySelectors

CONSTANTS Ids,     \* channels on chain
          Calls,   \* the queries that are made
          Safes    \* Safes that can be deployed, with no node registered yet

\* The queries there are: of a node, a key or a type of service. "not" is the node a
\* selector was for before, or the one that a hop of a path starts at.
Queries ==
    [op : {"channels_to", "channels_from", "announced_peers", "account_of", "services_of",
           "resolve_transport_address", "Address", "Deployer", "NodeAddress", "Owner"},
     of : Addresses, not : Addresses]
    \cup [op : {"account_with", "get_channel"}, of : OffchainKeys, not : Addresses]
    \cup [op : {"live_services"}, of : ServiceTypes, not : Addresses]

ASSUME QueriesAssumption == /\ Ids \subseteq ChannelIds
                            /\ Calls \subseteq Queries
                            /\ Safes \subseteq DeployedSafes
                            /\ OffchainKeys \cap Addresses = {}
                            /\ \A s \in Safes : s.registered_nodes = {}

VARIABLES channels, accounts, services, safes, \* the registries
          call,     \* the query under way, an Option
          selector, \* the one its stream was opened with, an Option
          unread,   \* entries the stream has still to look at
          found,    \* entries collected
          always, ever

chainVars == <<channels, accounts, services, safes>>
queryVars == <<call, selector, unread, found>>
vars == <<chainVars, queryVars, always, ever>>

\* The node at address a has announced the key k. Neither can be bound again.
KeyOf(a, k) == \E e \in accounts : e.chain_addr = a /\ e.public_key = k

\* A node with a Safe binding: nodeToSafe(node) # 0.
node_is_live(n) == \E s \in safes : n \in s.registered_nodes

--------------------------------------------------------------------------------
\* The queries: the registry a call reads, and the selector it passes.

AllStatuses == {"Closed", "Open", "PendingToClose"}

\* Flawed variant: closed channels are left out.
flawed_channels_to(a) ==
    with_allowed_states(with_destination(Default, a), {"Open", "PendingToClose"})

channels_to(a) == with_allowed_states(with_destination(Default, a), AllStatuses)

channels_from(a) == with_allowed_states(with_source(Default, a), AllStatuses)

announced_peers == [DefaultAccounts EXCEPT !.public_only = TRUE]

\* A hop of a path is not streamed: reads follow one another.
IsHop(c) == c.op \in {"resolve_transport_address", "get_channel"}

Registry(c) == CASE c.op \in {"channels_to", "channels_from"} -> "channels"
                 [] c.op \in {"announced_peers", "account_of", "account_with"} -> "accounts"
                 [] c.op \in {"live_services", "services_of"} -> "services"
                 [] OTHER -> "safes"

\* A client's selector can be made from one it had before, as account_of's is from one
\* for another node that has announced itself. services_of keeps to the live ones.
SelectorOf(c) ==
    CASE c.op = "channels_to" -> channels_to(c.of)
      [] c.op = "channels_from" -> channels_from(c.of)
      [] c.op = "announced_peers" -> announced_peers
      [] c.op = "account_of" -> with_chain_key(
             with_public_only(with_chain_key(announced_peers, c.not), FALSE), c.of)
      [] c.op = "account_with" -> with_offchain_key(DefaultAccounts, c.of)
      [] c.op = "live_services" ->
             with_live_only(with_service_type(DefaultServices, c.of), TRUE)
      [] c.op = "services_of" -> with_node(with_live_only(DefaultServices, TRUE), c.of)
      [] OTHER -> [by |-> c.op, of |-> c.of]

Rows(registry) == CASE registry = "channels" -> Ids
                    [] registry = "accounts" -> {e.chain_addr : e \in accounts}
                    [] registry = "services" -> services
                    [] registry = "safes" -> {s.address : s \in safes}

\* What a query has to look at: for a hop, what is to be resolved first.
Pending(c) == IF IsHop(c) THEN {c.of} ELSE Rows(Registry(c))

\* Whether the entry k is there and satisfies the selector s.
Selected(registry, s, k) ==
    \/ registry = "channels" /\ satisfies(s, channels[k])
    \/ registry = "accounts" /\ \E e \in accounts : e.chain_addr = k /\ account_satisfies(s, e)
    \/ registry = "services" /\ k \in services /\ service_satisfies(s, k, node_is_live(k.node))
    \/ registry = "safes" /\ \E e \in safes : e.address = k /\ safe_satisfies(s, e)

\* What the caller wants, said without selectors.
Wanted(c, k) ==
    \/ c.op = "channels_to" /\ k[2] = c.of
    \/ c.op = "channels_from" /\ k[1] = c.of
    \/ c.op = "announced_peers" /\ \E e \in accounts : e.chain_addr = k /\ e.routed
    \/ c.op = "account_of" /\ k = c.of /\ k \in Rows("accounts")
    \/ c.op = "account_with" /\ \E e \in accounts : e.chain_addr = k /\ e.public_key = c.of
    \/ c.op = "resolve_transport_address" /\ KeyOf(c.of, k)
    \/ /\ c.op = "get_channel"
       /\ \E a \in Addresses : KeyOf(a, c.of) /\ k.id = <<c.not, a>> /\ k = channels[k.id]
    \/ /\ \/ c.op = "live_services" /\ k.service_type = c.of
          \/ c.op = "services_of" /\ k.node = c.of
       /\ k \in services /\ node_is_live(k.node)
    \/ \E e \in safes : /\ \/ c.op = "Address" /\ e.address = c.of
                           \/ c.op = "Deployer" /\ e.deployer = c.of
                           \/ c.op = "NodeAddress" /\ c.of \in e.registered_nodes
                           \/ c.op = "Owner" /\ c.of \in e.owners
                        /\ e.address = k

Init == /\ channels \in [Ids -> ChannelEntries] /\ \A i \in Ids : channels[i].id = i
        /\ accounts = {} /\ services = {} /\ safes = {}
        /\ call = {} /\ selector = {} /\ unread = {} /\ found = {}
        /\ always = {} /\ ever = {}

WantedNow(c) == {k \in CASE c.op = "get_channel" -> {channels[i] : i \in Ids}
                          [] c.op = "resolve_transport_address" -> OffchainKeys
                          [] OTHER -> Rows(Registry(c)) : Wanted(c, k)}

Query(c) == /\ call = {}
            /\ call' = {c}
            /\ selector' = IF IsHop(c) THEN {} ELSE {SelectorOf(c)}
            /\ unread' = Pending(c)
            /\ found' = {}
            /\ always' = WantedNow(c) /\ ever' = WantedNow(c)
            /\ UNCHANGED chainVars

Read(k) == /\ k \in unread
           /\ \A c \in call : ~IsHop(c)
           /\ unread' = unread \ {k}
           /\ found' = found \cup {e \in {k} : \E c \in call, s \in selector :
                                                 Selected(Registry(c), s, e)}
           /\ UNCHANGED <<chainVars, call, selector, always, ever>>

\* Flawed variant: the channel the other way.
flawed_channel_by_parties(src, dst) == {channels[i] : i \in {<<dst, src>>} \cap Ids}

\* The id is generated from the parties, and no channel may have it.
channel_by_parties(src, dst) == {channels[i] : i \in {<<src, dst>>} \cap Ids}

Resolved == UNCHANGED <<chainVars, call, selector, always, ever>>

resolve_transport_address(c) ==
    /\ c \in call /\ c.op = "resolve_transport_address" /\ unread = {c.of}
    /\ found' = {k \in OffchainKeys : KeyOf(c.of, k)}
    /\ unread' = {} /\ Resolved

\* The next node's address, if its key is known, ...
resolve_chain_address(c) ==
    /\ c \in call /\ c.op = "get_channel" /\ unread = {c.of}
    /\ unread' = {a \in Addresses : KeyOf(a, c.of)}
    /\ UNCHANGED found /\ Resolved

\* ... and then the channel to it.
get_channel(c) ==
    /\ c \in call /\ c.op = "get_channel"
    /\ \E a \in unread \cap Addresses : found' = channel_by_parties(c.not, a)
    /\ unread' = {} /\ Resolved

\* The caller has the collected entries and goes on with another query.
Done == /\ call # {} /\ unread = {}
        /\ call' = {} /\ selector' = {} /\ found' = {}
        /\ always' = {} /\ ever' = {}
        /\ UNCHANGED <<chainVars, unread>>

--------------------------------------------------------------------------------
\* The registries.

Track == /\ always' = {k \in always : \E c \in call : Wanted(c, k)'}
         /\ ever' = ever \cup UNION {WantedNow(c)' : c \in call}
         /\ UNCHANGED queryVars

\* A closed channel is opened again, an open one set to close, and so on around.
ChannelChanges(i) ==
    /\ \E e \in ChannelEntries :
          /\ e.id = i
          /\ <<channels[i].status, e.status>> \in {<<"Closed", "Open">>,
                 <<"Open", "PendingToClose">>, <<"PendingToClose", "Closed">>}
          /\ channels' = [channels EXCEPT ![i] = e]
    /\ UNCHANGED <<accounts, services, safes>> /\ Track

BindKey(a, k) ==
    /\ \A e \in accounts : e.chain_addr # a /\ e.public_key # k
    /\ accounts' = accounts \cup {[chain_addr |-> a, public_key |-> k, routed |-> FALSE]}
    /\ UNCHANGED <<channels, services, safes>> /\ Track

Announce(e) == /\ ~e.routed
               /\ accounts' = (accounts \ {e}) \cup {[e EXCEPT !.routed = TRUE]}
               /\ UNCHANGED <<channels, services, safes>> /\ Track

DeploySafe(s) == /\ s.address \notin Rows("safes")
                 /\ safes' = safes \cup {s}
                 /\ UNCHANGED <<channels, accounts, services>> /\ Track

SafeNodes(s, nodes) == /\ safes' = (safes \ {s}) \cup {[s EXCEPT !.registered_nodes = nodes]}
                       /\ UNCHANGED <<channels, accounts, services>> /\ Track

RegisterNode(s, n) == ~node_is_live(n) /\ SafeNodes(s, s.registered_nodes \cup {n})

DeregisterNode(s, n) == n \in s.registered_nodes /\ SafeNodes(s, s.registered_nodes \ {n})

\* Only the Safe of a node writes its entries: those of an orphan stay as they are.
WriteService(e) ==
    /\ node_is_live(e.node)
    /\ services' = IF e \in services THEN services \ {e} ELSE services \cup {e}
    /\ UNCHANGED <<channels, accounts, safes>> /\ Track

ChainStep == \/ \E i \in Ids : ChannelChanges(i)
             \/ \E a \in Addresses, k \in OffchainKeys : BindKey(a, k)
             \/ \E e \in accounts : Announce(e)
             \/ \E s \in Safes : DeploySafe(s)
             \/ \E s \in safes, n \in Addresses : RegisterNode(s, n) \/ DeregisterNode(s, n)
             \/ \E e \in ServiceEntries : WriteService(e)

Next == \/ \E c \in Calls : \/ Query(c) \/ resolve_transport_address(c)
                          \/ resolve_chain_address(c) \/ get_channel(c)
        \/ (\E k \in unread : Read(k)) \/ Done \/ ChainStep

Spec == Init /\ [][Next]_vars

--------------------------------------------------------------------------------
\* What is to be shown.

TypeOK ==
    /\ channels \in [Ids -> ChannelEntries]
    /\ accounts \subseteq AccountEntries /\ services \subseteq ServiceEntries
    /\ safes \subseteq DeployedSafes
    /\ call \in Option(Calls)
    /\ \A c \in call, s \in selector :
          \/ Registry(c) = "channels" /\ s \in ChannelSelector
          \/ Registry(c) = "accounts" /\ s \in AccountSelector
          \/ Registry(c) = "services" /\ s \in ServiceSelector
          \/ Registry(c) = "safes" /\ s \in SafeSelector

\* A query misses nothing: an entry that its caller wants, from before the query to
\* its end, is among those collected, whatever else changed about it meanwhile. A
\* channel that closes while channels_to is collected is still a channel to there.
QueriesMissNothing == call # {} /\ unread = {} => always \subseteq found

\* A query makes nothing up: what it collects was wanted at some time during it. An
\* entry orphaned before the query began is never among the live ones.
QueriesFindWanted == found \subseteq ever
================================================================================
