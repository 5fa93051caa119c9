----------------------------- MODULE Discovery -----------------------------
(***************************************************************************)
(* What this computer announces and finds on the local network              *)
(* (discovery.rs), and the Linux daemon that keeps one Discovery running     *)
(* and feeds its table of neighbours from it (daemon.rs, daemon/arrange.rs). *)
(* Records of other versions of zflow, and of no zflow at all, are announced *)
(* too; the mDNS library may lose a registration's goodbye, stop browsing or *)
(* fail. An address is <<ip, kind>>, a TXT record a sequence of properties   *)
(* <<key, value>>, where the value of "cap" is a sequence of names.          *)
(***************************************************************************)
EXTENDS Naturals, Sequences, FiniteSets, SequencesExt

CONSTANTS
  Hosts,              \* the other computers
  HostAddresses,      \* the address sets a host's record may list
  HereAddresses,      \* the address sets this computer may have
  ZflowTxt,           \* the TXT records versions of zflow announce
  OtherTxt,           \* other TXT records under zflow's service type
  MAX_DISCOVERY_CANDIDATES, MAX_TXT_PROPERTIES, MAX_INSTANCES,
  MaxDiscoveries,     \* bound: Discovery objects made
  MaxDiscoveryMoves,  \* bound: what the network and the interfaces do
  MaxDiscoveryQueue   \* bound: events queued by the mDNS library

ASSUME DiscoveryAssumption ==
  {MAX_DISCOVERY_CANDIDATES, MAX_TXT_PROPERTIES, MAX_INSTANCES, MaxDiscoveries,
   MaxDiscoveryMoves, MaxDiscoveryQueue} \subseteq Nat

VARIABLES
  discovery,   \* the daemon's Option<Discovery>: its instance, 0 for none
  made,        \* Discovery objects made
  announced,   \* own instances the mDNS library or other caches still answer for
  present,     \* the record of each host, NoRecord while it has none
  found,       \* the browser's channel
  here,        \* this computer's addresses
  instances,   \* Neighbors.instances found by mDNS
  records,     \* the daemon's set of instances it gave to the table
  ownRecord,   \* Neighbors.own_record, 0 for none
  fullOnce,    \* Neighbors.turned_away
  heard,       \* history: what zflow's records said last to the present browser
  netMoves

discoveryVars ==
  <<discovery, made, announced, present, found, here, instances, records, ownRecord, fullOnce, heard, netMoves>>

NoRecord == [addresses |-> {}, txt |-> <<>>]
Own(n) == <<"own", n>>
Of(h) == <<"host", h>>
None == <<"own", 0>>

-----------------------------------------------------------------------------
(* validate_ip_address, validate_socket_address: a link-local address needs  *)
(* its interface's scope.                                                    *)
validate_ip_address(a) == a[2] \notin {"unspecified", "multicast", "broadcast"}
validate_socket_address(a) == a[2] # "unscoped" /\ validate_ip_address(a)

(* The first few in sort order.                                              *)
FirstFew(addresses) ==
  {a \in addresses :
     Cardinality({b \in addresses : b[1] < a[1]}) < MAX_DISCOVERY_CANDIDATES}

(* remote_addresses: without loopback and this computer's own, canonical.    *)
remote_addresses(addresses, own) == {a \in addresses : a[2] # "loopback" /\ a[1] \notin own}

(* select_advertisable_addresses, which mDNS announces while interfaces last. *)
select_advertisable_addresses(own) == FirstFew({<<ip, "v4">> : ip \in own})

(* build_service_info, of an advertisement with a name.                      *)
capability_names == {"keyboard", "consumer", "pointer", "scroll", "touch"}
advertised_capabilities == <<"keyboard", "pointer", "scroll">>
build_service_info == <<<<"v", "this">>, <<"cap", advertised_capabilities>>, <<"name", "here">>>>

(* parse_capabilities: names of a newer version are left out, a known name   *)
(* said twice is refused.                                                    *)
Recognised(value) == SelectSeq(value, LAMBDA name : name \in capability_names)
CapabilitiesParse(value) == value # <<>> /\ Cardinality(ToSet(Recognised(value))) = Len(Recognised(value))

(* parse_txt: another version's keys are skipped, zflow's own come once, and *)
(* the name is the one that may be missing.                                  *)
Values(txt, key) == SelectSeq(txt, LAMBDA property : property[1] = key)

(* Mutant: keys this version does not know make a record malformed.          *)
StrictTxt(txt) ==
  /\ Len(txt) <= MAX_TXT_PROPERTIES
  /\ \A i \in DOMAIN txt : txt[i][1] \in {"v", "cap", "name"}
  /\ Len(Values(txt, "v")) = 1 /\ Len(Values(txt, "cap")) = 1 /\ Len(Values(txt, "name")) <= 1
  /\ CapabilitiesParse(Values(txt, "cap")[1][2])

TxtParses(txt) ==
  /\ Len(txt) <= MAX_TXT_PROPERTIES
  /\ Len(Values(txt, "v")) = 1 /\ Len(Values(txt, "cap")) = 1 /\ Len(Values(txt, "name")) <= 1
  /\ CapabilitiesParse(Values(txt, "cap")[1][2])

parse_txt(txt) ==
  [compatible |-> Values(txt, "v")[1][2] = "this",
   name |-> IF Values(txt, "name") = <<>> THEN "" ELSE Values(txt, "name")[1][2]]

(* parse_resolved_service, parse_candidate_fields.                           *)
usable(addresses) == FirstFew({a \in addresses : validate_socket_address(a)})
Parses(record) == usable(record.addresses) # {} /\ TxtParses(record.txt)
Listing(record) ==
  [addresses |-> usable(record.addresses),
   compatible |-> parse_txt(record.txt).compatible, name |-> parse_txt(record.txt).name]

(* The records on the network: those of zflow parse, whichever version       *)
(* announced them, and say themselves which one that was; others do not; and *)
(* a computer lists an address that can be used. A record with none would be *)
(* refused as malformed, and what was listed before would stay.              *)
RecordsAreUsable ==
  /\ \A txt \in ZflowTxt : TxtParses(txt) /\ parse_txt(txt).compatible = (txt[1] = <<"v", "this">>)
  /\ \A txt \in OtherTxt : ~TxtParses(txt)
  /\ build_service_info \in ZflowTxt
  /\ \A addresses \in HostAddresses : usable(addresses) # {}
  /\ \A own \in HereAddresses : usable(select_advertisable_addresses(own)) # {}

ASSUME RecordsAssumption == RecordsAreUsable

-----------------------------------------------------------------------------
DiscoveryInit ==
  /\ discovery = 0 /\ made = 0 /\ announced = {} /\ found = <<>>
  /\ present = [h \in Hosts |-> NoRecord] /\ here \in HereAddresses
  /\ instances = <<>> /\ records = {} /\ ownRecord = None /\ fullOnce = FALSE
  /\ heard = <<>> /\ netMoves = 0

Without(f, keys) == [k \in DOMAIN f \ keys |-> f[k]]
With(f, key, value) == [k \in DOMAIN f \cup {key} |-> IF k = key THEN value ELSE f[k]]

(* own_record: a record of its own that the table heard of first goes.       *)
OwnRecordIs(n) == ownRecord' = Own(n) /\ instances' = Without(instances, {Own(n)})

(* start_discovery and own_record, on the tick while there is no Discovery.  *)
(* A Discovery that fails half way is dropped, which says goodbye unheard.   *)
DiscoveryStarts ==
  /\ discovery = 0 /\ made < MaxDiscoveries /\ made' = made + 1
  /\ \/ /\ discovery' = made + 1 /\ announced' = announced \cup {made + 1}
        /\ OwnRecordIs(made + 1)
     \/ /\ discovery' = 0 /\ ownRecord' = None
        /\ announced' \in {announced, announced \cup {made + 1}} /\ UNCHANGED instances
  /\ UNCHANGED <<present, found, here, records, fullOnce, heard, netMoves>>

(* instance_seen. *)
InstanceSeen(id, known) ==
  CASE id = ownRecord -> UNCHANGED <<instances, fullOnce>>
    [] id # ownRecord /\ (id \in DOMAIN instances \/ Cardinality(DOMAIN instances) < MAX_INSTANCES) ->
         instances' = With(instances, id, known) /\ UNCHANGED fullOnce
    [] OTHER -> fullOnce' = TRUE /\ UNCHANGED instances

(* Browsing stopped or the mDNS daemon failed: stop_discovery, whose         *)
(* shutdown may time out, then forget_records.                               *)
StopsAndForgets ==
  /\ discovery' = 0 /\ found' = <<>> /\ announced' \in {announced, announced \ {discovery}}
  /\ instances' = Without(instances, records) /\ records' = {} /\ heard' = <<>>
  /\ UNCHANGED <<made, present, here, ownRecord, fullOnce, netMoves>>

(* Mutant: the daemon lets go of its Discovery and keeps what it found.      *)
StopsOnly ==
  /\ discovery' = 0 /\ found' = <<>> /\ announced' \in {announced, announced \ {discovery}}
  /\ records' = {} /\ heard' = <<>>
  /\ UNCHANGED <<made, present, here, instances, ownRecord, fullOnce, netMoves>>

DiscoveryFails == discovery # 0 /\ StopsAndForgets

(* next_event and its arm of the daemon's loop. Records that do not parse    *)
(* are skipped; one that lists only this computer's addresses is gone.       *)
DiscoveryEvent ==
  /\ discovery # 0 /\ found # <<>>
  /\ LET event == Head(found) IN
     \/ event.what = "stopped" /\ StopsAndForgets
     \/ /\ event.what = "resolved" /\ found' = Tail(found)
        /\ IF ~Parses(event.record) THEN UNCHANGED <<instances, records, fullOnce>>
           ELSE LET candidate == Listing(event.record)
                    others == remote_addresses(candidate.addresses, here)
                IN IF others = {}
                   THEN /\ instances' = Without(instances, {event.id})
                        /\ records' = records \ {event.id} /\ UNCHANGED fullOnce
                   ELSE /\ InstanceSeen(event.id, [candidate EXCEPT !.addresses = others])
                        /\ records' = records \cup {event.id}
        /\ heard' = IF event.record.txt \in ZflowTxt THEN With(heard, event.id, [record |-> event.record, here |-> here])
                    ELSE heard
        /\ UNCHANGED <<discovery, made, announced, present, here, ownRecord, netMoves>>
     \/ /\ event.what = "removed" /\ found' = Tail(found)
        /\ instances' = Without(instances, {event.id}) /\ records' = records \ {event.id}
        /\ heard' = Without(heard, {event.id})
        /\ UNCHANGED <<discovery, made, announced, present, here, ownRecord, fullOnce, netMoves>>

-----------------------------------------------------------------------------
(* The network and the mDNS library (external).                              *)
NetworkMoves(events) ==
  /\ netMoves < MaxDiscoveryMoves /\ netMoves' = netMoves + 1
  /\ Len(found) + Len(events) <= MaxDiscoveryQueue
  /\ found' = IF discovery # 0 THEN found \o events ELSE found
  /\ UNCHANGED <<discovery, made, announced, instances, records, ownRecord, fullOnce, heard>>

ResolvedEvent(id, record) == [what |-> "resolved", id |-> id, record |-> record]

HostAnnounces ==
  \E h \in Hosts, addresses \in HostAddresses, txt \in ZflowTxt \cup OtherTxt :
    LET record == [addresses |-> addresses, txt |-> txt]
    IN NetworkMoves(<<ResolvedEvent(Of(h), record)>>) /\ present' = [present EXCEPT ![h] = record] /\ UNCHANGED here

HostLeaves ==
  \E h \in Hosts :
    /\ present[h] # NoRecord /\ present' = [present EXCEPT ![h] = NoRecord]
    /\ NetworkMoves(<<[what |-> "removed", id |-> Of(h), record |-> NoRecord]>>) /\ UNCHANGED here

(* The browser hears of a host that was there before, or of a record of this *)
(* computer, present or left over.                                           *)
BrowserResolves ==
  /\ discovery # 0 /\ UNCHANGED <<present, here>>
  /\ \/ \E h \in Hosts : present[h] # NoRecord /\ NetworkMoves(<<ResolvedEvent(Of(h), present[h])>>)
     \/ \E n \in announced, own \in HereAddresses :
          NetworkMoves(<<ResolvedEvent(Own(n), [addresses |-> select_advertisable_addresses(own),
                                      txt |-> build_service_info])>>)

BrowserStops == discovery # 0 /\ NetworkMoves(<<[what |-> "stopped", id |-> None, record |-> NoRecord]>>)
                /\ UNCHANGED <<present, here>>

InterfacesChange == NetworkMoves(<<>>) /\ here' \in HereAddresses \ {here} /\ UNCHANGED present

DiscoveryNext ==
  \/ DiscoveryStarts \/ DiscoveryFails \/ DiscoveryEvent
  \/ HostAnnounces \/ HostLeaves \/ BrowserResolves \/ BrowserStops \/ InterfacesChange

DiscoverySpec == DiscoveryInit /\ [][DiscoveryNext]_discoveryVars

-----------------------------------------------------------------------------
DiscoveryTypeOK ==
  /\ discovery \in 0 .. made /\ announced \subseteq 1 .. MaxDiscoveries
  /\ DOMAIN instances \subseteq records /\ fullOnce \in BOOLEAN

(* What a zflow record heard last lists of other computers' addresses.       *)
Reachable(id) ==
  remote_addresses(usable(heard[id].record.addresses), heard[id].here)

(* The table has a record exactly while the present browser knows of it: a   *)
(* computer of any version of zflow is listed where it is, whether it runs   *)
(* this version, and nothing outlives the browser that found it or stands    *)
(* for this computer (next_event, forget_records, own_record).               *)
ListedIsThere ==
  /\ discovery = 0 => instances = <<>>
  /\ \A id \in DOMAIN instances : id # ownRecord /\ id \in DOMAIN heard
  /\ \A id \in DOMAIN heard :
       IF id = ownRecord \/ Reachable(id) = {} THEN id \notin DOMAIN instances
       ELSE \/ id \notin DOMAIN instances /\ fullOnce
            \/ /\ id \in DOMAIN instances
               /\ instances[id].addresses = Reachable(id)
               /\ instances[id].compatible = (heard[id].record.txt[1] = <<"v", "this">>)
=============================================================================
