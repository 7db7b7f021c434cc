----------------------------- MODULE NodeQueriesProofs --------------------------
(***************************************************************************)
(* Proofs about NodeQueries, for any registries and queries: a query       *)
(* misses nothing that its caller wants throughout, and makes nothing up.  *)
(***************************************************************************)
EXTENDS NodeQueries, TLAPS

--------------------------------------------------------------------------------
(* The invariant. *)

\* A channel is under its id; neither a node nor a key is bound twice.
RegistriesSound ==
    /\ channels \in [Ids -> ChannelEntries] /\ \A i \in Ids : channels[i].id = i
    /\ accounts \subseteq AccountEntries
    /\ \A e, f \in accounts :
          e.chain_addr = f.chain_addr \/ e.public_key = f.public_key => e = f
    /\ services \subseteq ServiceEntries
    /\ safes \subseteq DeployedSafes

\* The channels there can be do not change: what is wanted is one of them.
OfChannels(c, k) == /\ c.op \in {"channels_to", "channels_from"} => k \in Ids
                    /\ c.op = "get_channel" => k.id \in Ids

\* A stream has found what is wanted throughout, or has still to look at it. A hop
\* that has resolved an address found it bound, and no other is.
QuerySound(c) ==
    /\ selector = IF IsHop(c) THEN {} ELSE {SelectorOf(c)}
    /\ c.op \in {"channels_to", "channels_from"} => unread \subseteq Ids
    /\ c.op = "get_channel" =>
          \A a \in unread : a = c.of \/ (a \in Addresses /\ KeyOf(a, c.of))
    /\ always \subseteq WantedNow(c) /\ WantedNow(c) \subseteq ever
    /\ found \subseteq ever
    /\ IF IsHop(c) THEN unread = {} => always \subseteq found
                   ELSE always \subseteq found \cup unread

QueryInv == /\ call \in Option(Calls)
            /\ call = {} => found = {}
            /\ \A c \in call : QuerySound(c)

IInv == RegistriesSound /\ QueryInv

--------------------------------------------------------------------------------
(* Selectors: what each query passes is satisfied by what its caller wants. *)

Streamed == {"channels_to", "channels_from", "announced_peers", "account_of", "account_with",
             "live_services", "services_of", "Address", "Deployer", "NodeAddress", "Owner"}

LEMMA CallTypes ==
    ASSUME NEW c \in Calls
    PROVE  /\ IsHop(c) <=> c.op \notin Streamed
           /\ c.op \in Streamed \cup {"resolve_transport_address", "get_channel"}
           /\ c.not \in Addresses
           /\ c.op \in {"account_with", "get_channel"} => c.of \in OffchainKeys
           /\ c.op = "live_services" => c.of \in ServiceTypes
           /\ c.op \notin {"account_with", "get_channel", "live_services"} => c.of \in Addresses
<1>1. c \in Queries
  BY QueriesAssumption
<1>2. /\ c.op \in Streamed \cup {"resolve_transport_address", "get_channel"}
      /\ c.not \in Addresses
      /\ c.op \in {"account_with", "get_channel"} => c.of \in OffchainKeys
      /\ c.op = "live_services" => c.of \in ServiceTypes
      /\ c.op \notin {"account_with", "get_channel", "live_services"} => c.of \in Addresses
  BY <1>1 DEF Queries, Streamed
<1> QED
  BY <1>2 DEF IsHop, Streamed

\* The last call of with_destination or with_source is what the selector compares,
\* and allowing all states is allowing any.
LEMMA ChannelSelected ==
    ASSUME NEW a \in Addresses
    PROVE  /\ channels_to(a) \in ChannelSelector /\ channels_from(a) \in ChannelSelector
           /\ \A e \in ChannelEntries : satisfies(channels_to(a), e) <=> e.id[2] = a
           /\ \A e \in ChannelEntries : satisfies(channels_from(a), e) <=> e.id[1] = a
<1>1. /\ \A e \in ChannelEntries : e.status \in AllStatuses /\ e.closure \in Times
      /\ AllStatuses = ChannelStatuses
  BY DEF ChannelEntries, ChannelStatuses, AllStatuses
<1>2. PICK d : d = Default
  OBVIOUS
<1>3. /\ d \in ChannelSelector /\ d.source = {} /\ d.destination = {} /\ d.id = {}
      /\ d.allowed_states = {} /\ d.closure_time_range = Times
  BY <1>2 DEF Default, ChannelSelector
<1>4. /\ channels_to(a) \in ChannelSelector
      /\ \A e \in ChannelEntries : satisfies(channels_to(a), e) <=> e.id[2] = a
  <2>1. PICK u : u = [d EXCEPT !.destination = {a}]
    OBVIOUS
  <2>2. /\ u \in ChannelSelector /\ u.source = {} /\ u.destination = {a}
        /\ u.allowed_states = {} /\ u.closure_time_range = Times
    BY <1>3, <2>1 DEF ChannelSelector
  <2>3. PICK v : v = [u EXCEPT !.id = {}]
    OBVIOUS
  <2>4. /\ v \in ChannelSelector /\ v.source = {} /\ v.destination = {a} /\ v.id = {}
        /\ v.allowed_states = {} /\ v.closure_time_range = Times
    BY <2>2, <2>3 DEF ChannelSelector
  <2>5. PICK w : w = [v EXCEPT !.allowed_states = @ \cup AllStatuses]
    OBVIOUS
  <2>6. /\ w \in ChannelSelector /\ w.source = {} /\ w.destination = {a} /\ w.id = {}
        /\ w.allowed_states = AllStatuses /\ w.closure_time_range = Times
    BY <1>1, <2>4, <2>5 DEF ChannelSelector
  <2>7. w = channels_to(a)
    BY <1>2, <2>1, <2>3, <2>5 DEF channels_to, with_destination, with_allowed_states
  <2>8. \A e \in ChannelEntries : satisfies(w, e) <=> e.id[2] = a
    BY <1>1, <2>6 DEF satisfies, PartiesMatch, StateMatches, ClosureMatches
  <2> QED
    BY <2>6, <2>7, <2>8
<1>5. /\ channels_from(a) \in ChannelSelector
      /\ \A e \in ChannelEntries : satisfies(channels_from(a), e) <=> e.id[1] = a
  <2>1. PICK u : u = [d EXCEPT !.source = {a}]
    OBVIOUS
  <2>2. /\ u \in ChannelSelector /\ u.source = {a} /\ u.destination = {}
        /\ u.allowed_states = {} /\ u.closure_time_range = Times
    BY <1>3, <2>1 DEF ChannelSelector
  <2>3. PICK v : v = [u EXCEPT !.id = {}]
    OBVIOUS
  <2>4. /\ v \in ChannelSelector /\ v.source = {a} /\ v.destination = {} /\ v.id = {}
        /\ v.allowed_states = {} /\ v.closure_time_range = Times
    BY <2>2, <2>3 DEF ChannelSelector
  <2>5. PICK w : w = [v EXCEPT !.allowed_states = @ \cup AllStatuses]
    OBVIOUS
  <2>6. /\ w \in ChannelSelector /\ w.source = {a} /\ w.destination = {} /\ w.id = {}
        /\ w.allowed_states = AllStatuses /\ w.closure_time_range = Times
    BY <1>1, <2>4, <2>5 DEF ChannelSelector
  <2>7. w = channels_from(a)
    BY <1>2, <2>1, <2>3, <2>5 DEF channels_from, with_source, with_allowed_states
  <2>8. \A e \in ChannelEntries : satisfies(w, e) <=> e.id[1] = a
    BY <1>1, <2>6 DEF satisfies, PartiesMatch, StateMatches, ClosureMatches
  <2> QED
    BY <2>6, <2>7, <2>8
<1> QED
  BY <1>4, <1>5

\* The selectors that builder methods make of another, by name.
AccountAfter(b, a) ==
    with_chain_key(with_public_only(with_chain_key(announced_peers, b), FALSE), a)
LiveOfType(t) == with_live_only(with_service_type(DefaultServices, t), TRUE)
LiveOfNode(a) == with_node(with_live_only(DefaultServices, TRUE), a)

\* with_chain_key and with_public_only replace what they set before.
LEMMA AccountSelected ==
    ASSUME NEW a \in Addresses, NEW b \in Addresses
    PROVE  /\ announced_peers \in AccountSelector /\ AccountAfter(b, a) \in AccountSelector
           /\ \A e \in AccountEntries :
                 /\ account_satisfies(announced_peers, e) <=> e.routed
                 /\ account_satisfies(AccountAfter(b, a), e) <=> e.chain_addr = a
<1>. PICK of_a : of_a = AccountAfter(b, a)
  OBVIOUS
<1>1. PICK d : d = DefaultAccounts
  OBVIOUS
<1>2. /\ d \in AccountSelector
      /\ d.public_only = FALSE /\ d.chain_key = {} /\ d.offchain_key = {}
  BY <1>1 DEF DefaultAccounts, AccountSelector, Option
<1>3. PICK p : p = announced_peers
  OBVIOUS
<1>4. /\ p \in AccountSelector
      /\ p.public_only = TRUE /\ p.chain_key = {} /\ p.offchain_key = {}
  BY <1>1, <1>2, <1>3 DEF announced_peers, AccountSelector
<1>5. PICK u : u = [p EXCEPT !.chain_key = {b}]
  OBVIOUS
<1>6. u \in AccountSelector /\ u.offchain_key = {}
  BY <1>4, <1>5 DEF AccountSelector, Option
<1>7. PICK v : v = [u EXCEPT !.public_only = FALSE]
  OBVIOUS
<1>8. v \in AccountSelector /\ v.public_only = FALSE /\ v.offchain_key = {}
  BY <1>6, <1>7 DEF AccountSelector
<1>9. of_a = [v EXCEPT !.chain_key = {a}]
  BY <1>3, <1>5, <1>7 DEF AccountAfter, with_chain_key, with_public_only
<1>10. /\ of_a \in AccountSelector
       /\ of_a.public_only = FALSE /\ of_a.chain_key = {a} /\ of_a.offchain_key = {}
  BY <1>8, <1>9 DEF AccountSelector, Option
<1> QED
  BY <1>3, <1>4, <1>10 DEF account_satisfies

LEMMA KeySelected ==
    ASSUME NEW k \in OffchainKeys
    PROVE  /\ with_offchain_key(DefaultAccounts, k) \in AccountSelector
           /\ \A e \in AccountEntries :
                 account_satisfies(with_offchain_key(DefaultAccounts, k), e)
                    <=> e.public_key = k
<1>1. PICK d : d = DefaultAccounts
  OBVIOUS
<1>2. /\ d \in AccountSelector
      /\ d.public_only = FALSE /\ d.chain_key = {} /\ d.offchain_key = {}
  BY <1>1 DEF DefaultAccounts, AccountSelector, Option
<1>3. PICK w : w = with_offchain_key(DefaultAccounts, k)
  OBVIOUS
<1>4. /\ w \in AccountSelector
      /\ w.public_only = FALSE /\ w.chain_key = {} /\ w.offchain_key = {k}
  BY <1>1, <1>2, <1>3 DEF with_offchain_key, AccountSelector, Option
<1> QED
  BY <1>3, <1>4 DEF account_satisfies

LEMMA TypeSelected ==
    ASSUME NEW t \in ServiceTypes
    PROVE  /\ LiveOfType(t) \in ServiceSelector
           /\ \A e \in ServiceEntries : \A live \in BOOLEAN :
                 service_satisfies(LiveOfType(t), e, live) <=> live /\ e.service_type = t
<1>. PICK s : s = LiveOfType(t)
  OBVIOUS
<1>1. PICK d : d = DefaultServices
  OBVIOUS
<1>2. d \in ServiceSelector /\ d.service_type = {} /\ d.node = {} /\ d.live_only = FALSE
  BY <1>1 DEF DefaultServices, ServiceSelector, Option
<1>3. PICK u : u = [d EXCEPT !.service_type = {t}]
  OBVIOUS
<1>4. u \in ServiceSelector /\ u.service_type = {t} /\ u.node = {}
  BY <1>2, <1>3 DEF ServiceSelector, Option
<1>5. s = [u EXCEPT !.live_only = TRUE]
  BY <1>1, <1>3 DEF LiveOfType, with_live_only, with_service_type
<1>6. /\ s \in ServiceSelector
      /\ s.service_type = {t} /\ s.node = {} /\ s.live_only = TRUE
  BY <1>4, <1>5 DEF ServiceSelector
<1> QED
  BY <1>6 DEF service_satisfies

LEMMA NodeSelected ==
    ASSUME NEW a \in Addresses
    PROVE  /\ LiveOfNode(a) \in ServiceSelector
           /\ \A e \in ServiceEntries : \A live \in BOOLEAN :
                 service_satisfies(LiveOfNode(a), e, live) <=> live /\ e.node = a
<1>. PICK s : s = LiveOfNode(a)
  OBVIOUS
<1>1. PICK d : d = DefaultServices
  OBVIOUS
<1>2. d \in ServiceSelector /\ d.service_type = {} /\ d.node = {} /\ d.live_only = FALSE
  BY <1>1 DEF DefaultServices, ServiceSelector, Option
<1>3. PICK x : x = [d EXCEPT !.live_only = TRUE]
  OBVIOUS
<1>4. x \in ServiceSelector /\ x.service_type = {} /\ x.live_only = TRUE
  BY <1>2, <1>3 DEF ServiceSelector
<1>5. s = [x EXCEPT !.node = {a}]
  BY <1>1, <1>3 DEF LiveOfNode, with_live_only, with_node
<1>6. s \in ServiceSelector /\ s.service_type = {} /\ s.node = {a} /\ s.live_only = TRUE
  BY <1>4, <1>5 DEF ServiceSelector, Option
<1> QED
  BY <1>6 DEF service_satisfies

\* Each call passes a selector of the registry it reads.
LEMMA SelectorType ==
    ASSUME NEW c \in Calls, ~IsHop(c)
    PROVE  \/ Registry(c) = "channels" /\ SelectorOf(c) \in ChannelSelector
           \/ Registry(c) = "accounts" /\ SelectorOf(c) \in AccountSelector
           \/ Registry(c) = "services" /\ SelectorOf(c) \in ServiceSelector
           \/ Registry(c) = "safes" /\ SelectorOf(c) \in SafeSelector
<1>1. /\ c.op \in Streamed /\ c.not \in Addresses
      /\ c.op = "account_with" => c.of \in OffchainKeys
      /\ c.op = "live_services" => c.of \in ServiceTypes
      /\ c.op \notin {"account_with", "live_services"} => c.of \in Addresses
  BY CallTypes DEF Streamed
<1>2. CASE c.op \in {"channels_to", "channels_from"}
  BY <1>1, <1>2, ChannelSelected DEF Registry, SelectorOf
<1>3. CASE c.op \in {"announced_peers", "account_of"}
  <2>1. /\ Registry(c) = "accounts"
        /\ SelectorOf(c) \in {announced_peers, AccountAfter(c.not, c.of)}
    BY <1>3 DEF Registry, SelectorOf, AccountAfter
  <2> QED
    BY <1>1, <1>3, <2>1, AccountSelected
<1>4. CASE c.op = "account_with"
  BY <1>1, <1>4, KeySelected DEF Registry, SelectorOf
<1>5. CASE c.op = "live_services"
  <2>1. Registry(c) = "services" /\ SelectorOf(c) = LiveOfType(c.of)
    BY <1>5 DEF Registry, SelectorOf, LiveOfType
  <2> QED
    BY <1>1, <1>5, <2>1, TypeSelected
<1>6. CASE c.op = "services_of"
  <2>1. Registry(c) = "services" /\ SelectorOf(c) = LiveOfNode(c.of)
    BY <1>6 DEF Registry, SelectorOf, LiveOfNode
  <2> QED
    BY <1>1, <1>6, <2>1, NodeSelected
<1>7. CASE c.op \in {"Address", "Deployer", "NodeAddress", "Owner"}
  BY <1>1, <1>7 DEF Registry, SelectorOf, SafeSelector
<1> QED
  BY <1>1, <1>2, <1>3, <1>4, <1>5, <1>6, <1>7 DEF Streamed

\* A row that a stream looks at is collected if, and only if, its caller wants it then.
LEMMA SelectedIsWanted ==
    ASSUME RegistriesSound, NEW c \in Calls, ~IsHop(c), NEW k, OfChannels(c, k)
    PROVE  Selected(Registry(c), SelectorOf(c), k) <=> Wanted(c, k)
<1>1. /\ c.op \in Streamed /\ c.not \in Addresses
      /\ c.op = "account_with" => c.of \in OffchainKeys
      /\ c.op = "live_services" => c.of \in ServiceTypes
      /\ c.op \notin {"account_with", "live_services"} => c.of \in Addresses
  BY CallTypes DEF Streamed
<1>2. CASE c.op \in {"channels_to", "channels_from"}
  <2>1. k \in Ids /\ channels[k] \in ChannelEntries /\ channels[k].id = k
    BY <1>2 DEF OfChannels, RegistriesSound
  <2>2. Registry(c) = "channels"
    BY <1>2 DEF Registry
  <2>3. Selected(Registry(c), SelectorOf(c), k) <=> satisfies(SelectorOf(c), channels[k])
    BY <2>2 DEF Selected
  <2>4. CASE c.op = "channels_to"
    <3>1. SelectorOf(c) = channels_to(c.of)
      BY <2>4 DEF SelectorOf
    <3>2. Wanted(c, k) <=> k[2] = c.of
      BY <2>4 DEF Wanted
    <3> QED
      BY <1>1, <2>1, <2>3, <2>4, <3>1, <3>2, ChannelSelected
  <2>5. CASE c.op = "channels_from"
    <3>1. SelectorOf(c) = channels_from(c.of)
      BY <2>5 DEF SelectorOf
    <3>2. Wanted(c, k) <=> k[1] = c.of
      BY <2>5 DEF Wanted
    <3> QED
      BY <1>1, <2>1, <2>3, <2>5, <3>1, <3>2, ChannelSelected
  <2> QED
    BY <1>2, <2>4, <2>5
<1>3. CASE c.op \in {"announced_peers", "account_of", "account_with"}
  <2>1. Registry(c) = "accounts"
    BY <1>3 DEF Registry
  <2>2. Selected(Registry(c), SelectorOf(c), k)
          <=> \E e \in accounts : e.chain_addr = k /\ account_satisfies(SelectorOf(c), e)
    BY <2>1 DEF Selected
  <2>3. \A e \in accounts : e \in AccountEntries
    BY DEF RegistriesSound
  <2>4. CASE c.op = "announced_peers"
    <3>1. SelectorOf(c) = announced_peers
      BY <2>4 DEF SelectorOf
    <3>2. Wanted(c, k) <=> \E e \in accounts : e.chain_addr = k /\ e.routed
      BY <2>4 DEF Wanted
    <3>3. \A e \in AccountEntries : account_satisfies(announced_peers, e) <=> e.routed
      BY <1>1, AccountSelected
    <3> QED
      BY <2>2, <2>3, <3>1, <3>2, <3>3
  <2>5. CASE c.op = "account_of"
    <3>1. SelectorOf(c) = AccountAfter(c.not, c.of)
      BY <2>5 DEF SelectorOf, AccountAfter
    <3>2. Wanted(c, k) <=> k = c.of /\ \E e \in accounts : k = e.chain_addr
      BY <2>5 DEF Wanted, Rows
    <3>3. \A e \in AccountEntries : account_satisfies(SelectorOf(c), e) <=> e.chain_addr = c.of
      BY <1>1, <2>5, <3>1, AccountSelected
    <3> QED
      BY <2>2, <2>3, <3>2, <3>3
  <2>6. CASE c.op = "account_with"
    <3>1. SelectorOf(c) = with_offchain_key(DefaultAccounts, c.of)
      BY <2>6 DEF SelectorOf
    <3>2. Wanted(c, k) <=> \E e \in accounts : e.chain_addr = k /\ e.public_key = c.of
      BY <2>6 DEF Wanted
    <3>3. \A e \in AccountEntries : account_satisfies(SelectorOf(c), e) <=> e.public_key = c.of
      BY <1>1, <2>6, <3>1, KeySelected
    <3> QED
      BY <2>2, <2>3, <3>2, <3>3
  <2> QED
    BY <1>3, <2>4, <2>5, <2>6
<1>4. CASE c.op \in {"live_services", "services_of"}
  <2>1. Registry(c) = "services"
    BY <1>4 DEF Registry
  <2>2. Selected(Registry(c), SelectorOf(c), k)
          <=> k \in services /\ service_satisfies(SelectorOf(c), k, node_is_live(k.node))
    BY <2>1 DEF Selected
  <2>3. (\A e \in services : e \in ServiceEntries) /\ node_is_live(k.node) \in BOOLEAN
    BY DEF RegistriesSound, node_is_live
  <2>4. CASE c.op = "live_services"
    <3>1. SelectorOf(c) = LiveOfType(c.of)
      BY <2>4 DEF SelectorOf, LiveOfType
    <3>2. Wanted(c, k) <=> k.service_type = c.of /\ k \in services /\ node_is_live(k.node)
      BY <2>4 DEF Wanted
    <3>3. \A e \in ServiceEntries : \A live \in BOOLEAN :
             service_satisfies(SelectorOf(c), e, live) <=> live /\ e.service_type = c.of
      BY <1>1, <2>4, <3>1, TypeSelected
    <3> QED
      BY <2>2, <2>3, <3>2, <3>3
  <2>5. CASE c.op = "services_of"
    <3>1. SelectorOf(c) = LiveOfNode(c.of)
      BY <2>5 DEF SelectorOf, LiveOfNode
    <3>2. Wanted(c, k) <=> k.node = c.of /\ k \in services /\ node_is_live(k.node)
      BY <2>5 DEF Wanted
    <3>3. \A e \in ServiceEntries : \A live \in BOOLEAN :
             service_satisfies(SelectorOf(c), e, live) <=> live /\ e.node = c.of
      BY <1>1, <2>5, <3>1, NodeSelected
    <3> QED
      BY <2>2, <2>3, <3>2, <3>3
  <2> QED
    BY <1>4, <2>4, <2>5
<1>5. CASE c.op \in {"Address", "Deployer", "NodeAddress", "Owner"}
  <2>1. Registry(c) = "safes" /\ SelectorOf(c) = [by |-> c.op, of |-> c.of]
    BY <1>5 DEF Registry, SelectorOf
  <2>2. Selected(Registry(c), SelectorOf(c), k)
          <=> \E e \in safes : e.address = k /\ safe_satisfies(SelectorOf(c), e)
    BY <2>1 DEF Selected
  <2> QED
    BY <1>5, <2>1, <2>2 DEF Wanted, safe_satisfies
<1> QED
  BY <1>1, <1>2, <1>3, <1>4, <1>5 DEF Streamed

--------------------------------------------------------------------------------
(* What is wanted. *)

\* What is wanted and of a channel there can be is in the registry that is read.
LEMMA WantedThere ==
    RegistriesSound => \A c \in Calls : \A k :
        k \in WantedNow(c) <=> Wanted(c, k) /\ OfChannels(c, k)
<1> SUFFICES ASSUME RegistriesSound, NEW c \in Calls, NEW k
             PROVE  k \in WantedNow(c) <=> Wanted(c, k) /\ OfChannels(c, k)
  OBVIOUS
<1>1. c.op \in Streamed \cup {"resolve_transport_address", "get_channel"}
  BY CallTypes
<1>2. CASE c.op = "get_channel"
  <2>1. k \in WantedNow(c) <=> Wanted(c, k) /\ \E i \in Ids : k = channels[i]
    BY <1>2 DEF WantedNow
  <2>2. Wanted(c, k) => k = channels[k.id]
    BY <1>2 DEF Wanted
  <2>3. OfChannels(c, k) <=> k.id \in Ids
    BY <1>2 DEF OfChannels
  <2> QED
    BY <2>1, <2>2, <2>3 DEF RegistriesSound
<1>3. CASE c.op = "resolve_transport_address"
  <2>1. k \in WantedNow(c) <=> Wanted(c, k) /\ k \in OffchainKeys
    BY <1>3 DEF WantedNow
  <2>2. Wanted(c, k) => k \in OffchainKeys
    BY <1>3 DEF Wanted, KeyOf, RegistriesSound, AccountEntries
  <2> QED
    BY <1>3, <2>1, <2>2 DEF OfChannels
<1>4. CASE c.op \in Streamed
  <2>1. k \in WantedNow(c) <=> Wanted(c, k) /\ k \in Rows(Registry(c))
    BY <1>4 DEF WantedNow, Streamed
  <2>2. CASE c.op \in {"channels_to", "channels_from"}
    BY <2>1, <2>2 DEF Registry, Rows, OfChannels
  <2>3. CASE c.op \in {"announced_peers", "account_of", "account_with"}
    <3>1. Rows(Registry(c)) = {e.chain_addr : e \in accounts}
      BY <2>3 DEF Registry, Rows
    <3>2. Wanted(c, k) => k \in {e.chain_addr : e \in accounts}
      BY <2>3 DEF Wanted, Rows
    <3> QED
      BY <2>1, <2>3, <3>1, <3>2 DEF OfChannels
  <2>4. CASE c.op \in {"live_services", "services_of"}
    <3>1. Rows(Registry(c)) = services
      BY <2>4 DEF Registry, Rows
    <3>2. Wanted(c, k) => k \in services
      BY <2>4 DEF Wanted
    <3> QED
      BY <2>1, <2>4, <3>1, <3>2 DEF OfChannels
  <2>5. CASE c.op \in {"Address", "Deployer", "NodeAddress", "Owner"}
    <3>1. Rows(Registry(c)) = {e.address : e \in safes}
      BY <2>5 DEF Registry, Rows
    <3>2. Wanted(c, k) => k \in {e.address : e \in safes}
      BY <2>5 DEF Wanted
    <3> QED
      BY <2>1, <2>5, <3>1, <3>2 DEF OfChannels
  <2> QED
    BY <1>4, <2>2, <2>3, <2>4, <2>5 DEF Streamed
<1> QED
  BY <1>1, <1>2, <1>3, <1>4

LEMMA WantedThereNext ==
    (RegistriesSound => \A c \in Calls : \A k :
        k \in WantedNow(c) <=> Wanted(c, k) /\ OfChannels(c, k))'
BY WantedThere, PTL

--------------------------------------------------------------------------------
(* The registries. *)

\* A key that was bound stays bound.
KeysKept == \A a, k : KeyOf(a, k) => KeyOf(a, k)'

LEMMA ChannelsStep ==
    ASSUME RegistriesSound, NEW i \in Ids, ChannelChanges(i)
    PROVE  RegistriesSound' /\ KeysKept /\ Track
<1>1. PICK e \in ChannelEntries : e.id = i /\ channels' = [channels EXCEPT ![i] = e]
  BY DEF ChannelChanges
<1> QED
  BY <1>1 DEF ChannelChanges, RegistriesSound, KeysKept, KeyOf

LEMMA BindStep ==
    ASSUME RegistriesSound, NEW a \in Addresses, NEW k \in OffchainKeys, BindKey(a, k)
    PROVE  RegistriesSound' /\ KeysKept /\ Track
<1>1. PICK e : e = [chain_addr |-> a, public_key |-> k, routed |-> FALSE]
  OBVIOUS
<1>2. e \in AccountEntries /\ e.chain_addr = a /\ e.public_key = k
  BY <1>1 DEF AccountEntries
<1>3. /\ \A f \in accounts : f.chain_addr # a /\ f.public_key # k
      /\ accounts' = accounts \cup {e}
      /\ UNCHANGED <<channels, services, safes>> /\ Track
  BY <1>1 DEF BindKey
<1> QED
  BY <1>2, <1>3 DEF RegistriesSound, KeysKept, KeyOf

LEMMA AnnounceStep ==
    ASSUME RegistriesSound, NEW e \in accounts, Announce(e)
    PROVE  RegistriesSound' /\ KeysKept /\ Track
<1>1. PICK f : f = [e EXCEPT !.routed = TRUE]
  OBVIOUS
<1>2. /\ f \in AccountEntries
      /\ f.chain_addr = e.chain_addr /\ f.public_key = e.public_key
  BY <1>1 DEF RegistriesSound, AccountEntries
<1>3. /\ accounts' = (accounts \ {e}) \cup {f}
      /\ UNCHANGED <<channels, services, safes>> /\ Track
  BY <1>1 DEF Announce
<1>4. accounts' \subseteq AccountEntries
  BY <1>2, <1>3 DEF RegistriesSound
<1>5. ASSUME NEW g \in accounts', NEW h \in accounts',
             g.chain_addr = h.chain_addr \/ g.public_key = h.public_key
      PROVE  g = h
  BY <1>2, <1>3, <1>5 DEF RegistriesSound
<1>6. KeysKept
  BY <1>2, <1>3 DEF KeysKept, KeyOf
<1> QED
  BY <1>3, <1>4, <1>5, <1>6 DEF RegistriesSound

LEMMA SafesStep ==
    ASSUME RegistriesSound,
           \/ \E s \in Safes : DeploySafe(s)
           \/ \E s \in safes, n \in Addresses : RegisterNode(s, n) \/ DeregisterNode(s, n)
    PROVE  RegistriesSound' /\ KeysKept /\ Track
<1>1. safes' \subseteq DeployedSafes /\ UNCHANGED <<channels, accounts, services>> /\ Track
  <2>1. CASE \E s \in Safes : DeploySafe(s)
    BY <2>1, QueriesAssumption DEF DeploySafe, RegistriesSound
  <2>2. ASSUME NEW s \in safes, NEW nodes \in SUBSET Addresses, SafeNodes(s, nodes)
        PROVE  safes' \subseteq DeployedSafes /\ UNCHANGED <<channels, accounts, services>> /\ Track
    <3>1. s \in DeployedSafes
      BY DEF RegistriesSound
    <3>2. [s EXCEPT !.registered_nodes = nodes] \in DeployedSafes
      BY <3>1 DEF DeployedSafes
    <3> QED
      BY <2>2, <3>2 DEF SafeNodes, RegistriesSound
  <2>3. ASSUME NEW s \in safes, NEW n \in Addresses, RegisterNode(s, n) \/ DeregisterNode(s, n)
        PROVE  \E nodes \in SUBSET Addresses : SafeNodes(s, nodes)
    <3>1. s.registered_nodes \subseteq Addresses
      BY DEF RegistriesSound, DeployedSafes
    <3>2. /\ s.registered_nodes \cup {n} \in SUBSET Addresses
          /\ s.registered_nodes \ {n} \in SUBSET Addresses
      BY <3>1
    <3> QED
      BY <2>3, <3>2 DEF RegisterNode, DeregisterNode
  <2> QED
    BY <2>1, <2>2, <2>3
<1> QED
  BY <1>1 DEF RegistriesSound, KeysKept, KeyOf

LEMMA RegistriesStep ==
    ASSUME RegistriesSound, ChainStep
    PROVE  RegistriesSound' /\ KeysKept /\ Track
<1>1. ASSUME NEW e \in ServiceEntries, WriteService(e)
      PROVE  RegistriesSound' /\ KeysKept /\ Track
  BY <1>1 DEF WriteService, RegistriesSound, KeysKept, KeyOf
<1> QED
  BY <1>1, ChannelsStep, BindStep, AnnounceStep, SafesStep DEF ChainStep

LEMMA RegistriesUntouched ==
    ASSUME RegistriesSound, UNCHANGED chainVars
    PROVE  /\ RegistriesSound' /\ KeysKept
           /\ \A c : WantedNow(c)' = WantedNow(c)
<1>1. RegistriesSound' /\ KeysKept
  BY DEF chainVars, RegistriesSound, KeysKept, KeyOf
<1>2. \A c, k : Wanted(c, k)' <=> Wanted(c, k)
  BY DEF chainVars, Wanted, Rows, KeyOf, node_is_live
<1>3. \A c : Rows(Registry(c))' = Rows(Registry(c))
  BY DEF chainVars, Rows, Registry
<1>4. \A c : WantedNow(c)' = WantedNow(c)
  BY <1>2, <1>3 DEF chainVars, WantedNow
<1> QED
  BY <1>1, <1>4

--------------------------------------------------------------------------------
(* The query under way. *)

\* Whatever changes, a query goes on with what is still wanted.
LEMMA TrackKeeps ==
    ASSUME IInv, RegistriesSound', KeysKept, Track
    PROVE  QueryInv'
<1>1. /\ always' = {k \in always : \E c \in call : Wanted(c, k)'}
      /\ ever' = ever \cup UNION {WantedNow(c)' : c \in call}
      /\ UNCHANGED <<call, selector, unread, found>>
  BY DEF Track, queryVars
<1>2. call \in Option(Calls) /\ (call = {} => found = {})
  BY DEF IInv, QueryInv
<1>3. ASSUME NEW c \in call PROVE QuerySound(c)'
  <2>1. QuerySound(c) /\ c \in Calls /\ call = {c}
    BY <1>2 DEF IInv, QueryInv, Option
  <2>2. always' \subseteq WantedNow(c)'
    <3> SUFFICES ASSUME NEW k \in always' PROVE k \in WantedNow(c)'
      OBVIOUS
    <3>1. k \in always /\ Wanted(c, k)'
      BY <1>1, <2>1
    <3>2. OfChannels(c, k)
      BY <2>1, <3>1, WantedThere DEF QuerySound, IInv
    <3>3. OfChannels(c, k)'
      BY <3>2 DEF OfChannels
    <3> QED
      BY <2>1, <3>1, <3>3, WantedThereNext
  <2>3. WantedNow(c)' \subseteq ever' /\ found' \subseteq ever'
    BY <1>1, <2>1 DEF QuerySound
  <2>4. always' \subseteq always
    BY <1>1
  <2>5. c.op = "get_channel" =>
           \A a \in unread' : a = c.of \/ (a \in Addresses /\ KeyOf(a, c.of)')
    BY <1>1, <2>1 DEF QuerySound, KeysKept
  <2>6. selector' = IF IsHop(c) THEN {} ELSE {SelectorOf(c)}
    BY <1>1, <2>1 DEF QuerySound
  <2>7. /\ c.op \in {"channels_to", "channels_from"} => unread' \subseteq Ids
        /\ IF IsHop(c) THEN unread' = {} => always' \subseteq found'
                       ELSE always' \subseteq found' \cup unread'
    BY <1>1, <2>1, <2>4 DEF QuerySound
  <2> QED
    BY <2>2, <2>3, <2>5, <2>6, <2>7 DEF QuerySound
<1> QED
  BY <1>1, <1>2, <1>3 DEF QueryInv

LEMMA QueryKeeps ==
    ASSUME IInv, NEW c \in Calls, Query(c)
    PROVE  IInv'
<1>1. /\ call' = {c} /\ found' = {}
      /\ selector' = IF IsHop(c) THEN {} ELSE {SelectorOf(c)}
      /\ unread' = Pending(c)
      /\ always' = WantedNow(c) /\ ever' = WantedNow(c)
      /\ UNCHANGED chainVars
  BY DEF Query
<1>2. /\ RegistriesSound'
      /\ WantedNow(c)' = WantedNow(c)
  BY <1>1, RegistriesUntouched DEF IInv
<1>3. /\ c.op \in Streamed \cup {"resolve_transport_address", "get_channel"}
      /\ IsHop(c) <=> c.op \notin Streamed
  BY CallTypes
<1>4. CASE IsHop(c)
  <2>1. unread' = {c.of}
    BY <1>1, <1>4 DEF Pending
  <2> QED
    BY <1>1, <1>2, <1>3, <1>4, <2>1 DEF IInv, QueryInv, QuerySound, Option, Streamed
<1>5. CASE ~IsHop(c)
  <2>1. unread' = Rows(Registry(c))
    BY <1>1, <1>5 DEF Pending
  <2>2. c.op \in {"channels_to", "channels_from"} => unread' = Ids
    BY <2>1 DEF Registry, Rows
  <2>3. WantedNow(c) \subseteq unread'
    BY <1>3, <1>5, <2>1 DEF WantedNow, Streamed
  <2> QED
    BY <1>1, <1>2, <1>3, <1>5, <2>2, <2>3 DEF IInv, QueryInv, QuerySound, Option, Streamed
<1> QED
  BY <1>4, <1>5

LEMMA ReadKeeps ==
    ASSUME IInv, NEW k \in unread, Read(k)
    PROVE  IInv'
<1>1. /\ \A c \in call : ~IsHop(c)
      /\ unread' = unread \ {k}
      /\ found' = found \cup {e \in {k} : \E c \in call, s \in selector :
                                         Selected(Registry(c), s, e)}
      /\ UNCHANGED <<chainVars, call, selector, always, ever>>
  BY DEF Read
<1>2. /\ RegistriesSound'
      /\ \A c : WantedNow(c)' = WantedNow(c)
  BY <1>1, RegistriesUntouched DEF IInv
<1>3. CASE call = {}
  BY <1>1, <1>2, <1>3 DEF IInv, QueryInv
<1>4. ASSUME NEW c \in call PROVE IInv'
  <2>1. call = {c} /\ c \in Calls /\ ~IsHop(c) /\ QuerySound(c)
    BY <1>1 DEF IInv, QueryInv, Option
  <2>2. selector = {SelectorOf(c)}
    BY <2>1 DEF QuerySound
  <2>3. OfChannels(c, k)
    BY <2>1 DEF QuerySound, OfChannels, IsHop
  <2>4. Selected(Registry(c), SelectorOf(c), k) <=> k \in WantedNow(c)
    BY <2>1, <2>3, SelectedIsWanted, WantedThere DEF IInv
  <2>5. found' = found \cup ({k} \cap WantedNow(c))
    BY <1>1, <2>1, <2>2, <2>4
  <2>6. QuerySound(c)'
    <3>1. always' \subseteq found' \cup unread'
      BY <1>1, <2>1, <2>5 DEF QuerySound
    <3>2. found' \subseteq ever'
      BY <1>1, <2>1, <2>5 DEF QuerySound
    <3>3. c.op # "get_channel"
      BY <2>1 DEF IsHop
    <3> QED
      BY <1>1, <1>2, <2>1, <3>1, <3>2, <3>3 DEF QuerySound
  <2> QED
    BY <1>1, <1>2, <2>1, <2>6 DEF IInv, QueryInv
<1> QED
  BY <1>3, <1>4

\* A hop that has an answer has what is wanted now, and with it what always was.
LEMMA HopKeeps ==
    ASSUME IInv, NEW c \in call, IsHop(c),
           UNCHANGED <<chainVars, call, selector, always, ever>>,
           c.op = "get_channel" =>
              \A a \in unread' : a = c.of \/ (a \in Addresses /\ KeyOf(a, c.of)),
           found' \subseteq WantedNow(c) \/ found' = found,
           unread' = {} => WantedNow(c) \subseteq found'
    PROVE  IInv'
<1>1. /\ RegistriesSound' /\ KeysKept
      /\ WantedNow(c)' = WantedNow(c)
  BY RegistriesUntouched DEF IInv
<1>2. call = {c} /\ c \in Calls /\ QuerySound(c)
  BY DEF IInv, QueryInv, Option
<1>3. c.op \notin {"channels_to", "channels_from"}
  BY DEF IsHop
<1>4. found' \subseteq ever'
  BY <1>2 DEF QuerySound
<1>5. c.op = "get_channel" =>
         \A a \in unread' : a = c.of \/ (a \in Addresses /\ KeyOf(a, c.of)')
  BY <1>1 DEF KeysKept
<1>6. unread' = {} => always' \subseteq found'
  BY <1>2 DEF QuerySound
<1>7. QuerySound(c)'
  BY <1>1, <1>2, <1>3, <1>4, <1>5, <1>6 DEF QuerySound
<1> QED
  BY <1>1, <1>2, <1>7 DEF IInv, QueryInv

LEMMA ResolveTransportKeeps ==
    ASSUME IInv, NEW c \in Calls, resolve_transport_address(c)
    PROVE  IInv'
<1>1. /\ c \in call /\ c.op = "resolve_transport_address" /\ IsHop(c)
      /\ found' = {k \in OffchainKeys : KeyOf(c.of, k)}
      /\ unread' = {}
      /\ UNCHANGED <<chainVars, call, selector, always, ever>>
  BY DEF resolve_transport_address, Resolved, IsHop
<1>2. WantedNow(c) = {k \in OffchainKeys : Wanted(c, k)}
  BY <1>1 DEF WantedNow
<1>3. \A k : Wanted(c, k) <=> KeyOf(c.of, k)
  BY <1>1 DEF Wanted
<1>4. found' = WantedNow(c)
  BY <1>1, <1>2, <1>3
<1> QED
  BY <1>1, <1>4, HopKeeps

LEMMA ResolveChainKeeps ==
    ASSUME IInv, NEW c \in Calls, resolve_chain_address(c)
    PROVE  IInv'
<1>1. /\ c \in call /\ c.op = "get_channel" /\ IsHop(c)
      /\ unread' = {a \in Addresses : KeyOf(a, c.of)}
      /\ found' = found
      /\ UNCHANGED <<chainVars, call, selector, always, ever>>
  BY DEF resolve_chain_address, Resolved, IsHop
<1>2. unread' = {} => WantedNow(c) = {}
  BY <1>1 DEF WantedNow, Wanted
<1> QED
  BY <1>1, <1>2, HopKeeps

\* No other node has the key, so no other channel was wanted.
LEMMA GetChannelKeeps ==
    ASSUME IInv, NEW c \in Calls, get_channel(c)
    PROVE  IInv'
<1>1. PICK a \in unread \cap Addresses : found' = channel_by_parties(c.not, a)
  BY DEF get_channel
<1>2. /\ c \in call /\ c.op = "get_channel" /\ IsHop(c)
      /\ unread' = {}
      /\ UNCHANGED <<chainVars, call, selector, always, ever>>
  BY DEF get_channel, Resolved, IsHop
<1>3. KeyOf(a, c.of)
  <2>1. c.of \in OffchainKeys
    BY <1>2, CallTypes
  <2>2. a # c.of
    BY <2>1, QueriesAssumption
  <2> QED
    BY <1>2, <2>2 DEF IInv, QueryInv, QuerySound
<1>4. \A b : KeyOf(b, c.of) => b = a
  BY <1>3 DEF KeyOf, IInv, RegistriesSound
<1>5. PICK id : id = <<c.not, a>>
  OBVIOUS
<1>6. \A k : Wanted(c, k) <=> k.id = id /\ k = channels[k.id]
  BY <1>1, <1>2, <1>3, <1>4, <1>5 DEF Wanted
<1>7. WantedNow(c) = {k \in {channels[i] : i \in Ids} : Wanted(c, k)}
  BY <1>2 DEF WantedNow
<1>8. found' = {channels[i] : i \in {id} \cap Ids}
  BY <1>1, <1>5 DEF channel_by_parties
<1>9. \A i \in Ids : channels[i].id = i
  BY DEF IInv, RegistriesSound
<1>10. found' = WantedNow(c)
  BY <1>6, <1>7, <1>8, <1>9
<1> QED
  BY <1>2, <1>10, HopKeeps

LEMMA DoneKeeps ==
    ASSUME IInv, Done
    PROVE  IInv'
<1>1. RegistriesSound'
  BY RegistriesUntouched DEF Done, IInv
<1> QED
  BY <1>1 DEF Done, IInv, QueryInv, Option

--------------------------------------------------------------------------------
(* The invariant holds. *)

LEMMA InvariantInit == Init => IInv
BY DEF Init, IInv, RegistriesSound, QueryInv, Option

LEMMA InvariantStep == IInv /\ [Next]_vars => IInv'
<1> SUFFICES ASSUME IInv, [Next]_vars PROVE IInv'
  OBVIOUS
<1>1. CASE ChainStep
  BY <1>1, RegistriesStep, TrackKeeps DEF IInv
<1>2. CASE UNCHANGED vars
  <2>1. /\ RegistriesSound' /\ KeysKept
        /\ \A c : WantedNow(c)' = WantedNow(c)
    BY <1>2, RegistriesUntouched DEF vars, IInv
  <2>2. \A c \in call : QuerySound(c)'
    BY <1>2, <2>1 DEF vars, queryVars, IInv, QueryInv, QuerySound, KeysKept
  <2> QED
    BY <1>2, <2>1, <2>2 DEF vars, queryVars, IInv, QueryInv
<1> QED
  BY <1>1, <1>2, QueryKeeps, ReadKeeps, ResolveTransportKeeps, ResolveChainKeeps,
     GetChannelKeeps, DoneKeeps DEF Next

LEMMA InvariantHolds == Spec => []IInv
BY InvariantInit, InvariantStep, PTL DEF Spec

\* The registries keep their types, and each query passes a selector of the registry it
\* reads: no sequence of builder methods leaves a key set that was to be replaced.
THEOREM TypeCorrect == Spec => []TypeOK
<1>1. IInv => TypeOK
  <2> SUFFICES ASSUME IInv PROVE TypeOK
    OBVIOUS
  <2>1. ASSUME NEW c \in call, NEW s \in selector
        PROVE  \/ Registry(c) = "channels" /\ s \in ChannelSelector
               \/ Registry(c) = "accounts" /\ s \in AccountSelector
               \/ Registry(c) = "services" /\ s \in ServiceSelector
               \/ Registry(c) = "safes" /\ s \in SafeSelector
    <3>1. c \in Calls /\ ~IsHop(c) /\ s = SelectorOf(c)
      BY DEF IInv, QueryInv, QuerySound, Option
    <3> QED
      BY <3>1, SelectorType
  <2> QED
    BY <2>1 DEF IInv, RegistriesSound, QueryInv, TypeOK
<1> QED
  BY <1>1, InvariantHolds, PTL

\* A query misses nothing that its caller wants from before it to its end, whatever
\* changes about these entries, or others, while the stream is collected.
THEOREM MissesNothing == Spec => []QueriesMissNothing
<1>1. IInv => QueriesMissNothing
  BY DEF IInv, QueryInv, QuerySound, QueriesMissNothing
<1> QED
  BY <1>1, InvariantHolds, PTL

\* A query makes nothing up: what it collects was wanted at some time during it.
THEOREM FindsWanted == Spec => []QueriesFindWanted
<1>1. IInv => QueriesFindWanted
  BY DEF IInv, QueryInv, QuerySound, QueriesFindWanted
<1> QED
  BY <1>1, InvariantHolds, PTL
================================================================================
