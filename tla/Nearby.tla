------------------------------- MODULE Nearby -------------------------------
(***************************************************************************)
(* How the Mac app looks for computers and shows itself: the browser thread  *)
(* and the snapshot it shares with the app (app/nearby.rs), the thread that  *)
(* advertises the port the Mac listens on (macos/advertise.rs), and the app  *)
(* that starts, stops and reads them as its settings, its Local Network      *)
(* access and its port change (app/native.rs). A stopped thread runs on      *)
(* until it looks at its stop channel.                                       *)
(***************************************************************************)
EXTENDS Naturals, Sequences, FiniteSets

CONSTANTS
  NearHosts,        \* the computers whose records the browser resolves
  Ports,            \* ports the Mac may listen on
  MAX_NEARBY,       \* room in a snapshot
  MaxBrowsers,      \* bound: browser threads started
  MaxAdvertisers,   \* bound: advertisers started
  MaxNearbyMoves    \* bound: changes of settings, access and port

ASSUME NearbyAssumption ==
  0 \notin Ports /\ {MAX_NEARBY, MaxBrowsers, MaxAdvertisers, MaxNearbyMoves} \subseteq Nat

VARIABLES
  browsers,    \* browser threads, by number: where each is, and whether it was told to stop
  snaps,       \* the NearbySnapshot each thread writes to
  shared,      \* NearbyBrowser.shared: the thread whose snapshot it is, 0 for a paused one
  stopper,     \* NearbyBrowser.stop: the thread it would stop, 0 for none
  ads,         \* advertiser threads: port, and "up", "told", "down"
  advertiser,  \* NativeApp.advertiser, 0 for none
  looking,     \* discovers(): discovery is on, and setup or a peer asked for it
  access,      \* NativeApp.local_network
  listening,   \* Links::listen_port, 0 while the Mac does not listen
  table,       \* Neighbors.instances
  given,       \* NativeApp.instances
  nearbyMoves

nearbyVars ==
  <<browsers, snaps, shared, stopper, ads, advertiser, looking, access, listening, table, given, nearbyMoves>>

Paused == [status |-> "paused", records |-> {}, turned |-> FALSE]
snapshot == IF shared = 0 THEN Paused ELSE snaps[shared]
is_running == snapshot.status \in {"starting", "browsing"}

NearbyInit ==
  /\ browsers = <<>> /\ snaps = <<>> /\ shared = 0 /\ stopper = 0
  /\ ads = <<>> /\ advertiser = 0 /\ looking = FALSE /\ access = "unknown" /\ listening = 0
  /\ table = {} /\ given = {} /\ nearbyMoves = 0

-----------------------------------------------------------------------------
(* NearbyBrowser::stop and start, as functions of the browser's state. The   *)
(* thread may fail to start.                                                 *)
Browser == [threads |-> browsers, snaps |-> snaps, shared |-> shared, stopper |-> stopper]

(* Mutant: stopping keeps the snapshot the thread writes to.                 *)
StopKeepsSnapshot(b) ==
  [b EXCEPT !.threads = [t \in DOMAIN b.threads |->
                           IF t = b.stopper THEN [b.threads[t] EXCEPT !.told = TRUE] ELSE b.threads[t]],
            !.stopper = 0]

StopBrowser(b) ==
  [b EXCEPT !.threads = [t \in DOMAIN b.threads |->
                           IF t = b.stopper THEN [b.threads[t] EXCEPT !.told = TRUE] ELSE b.threads[t]],
            !.stopper = 0, !.shared = 0]

StartBrowser(b, spawns) ==
  LET stopped == StopBrowser(b)
      new == Len(b.threads) + 1
  IN IF b.shared # 0 /\ b.snaps[b.shared].status \in {"starting", "browsing"} THEN b
     ELSE [threads |-> Append(stopped.threads, [at |-> IF spawns THEN "setup" ELSE "ended", told |-> FALSE]),
           snaps |-> Append(b.snaps, [Paused EXCEPT !.status = IF spawns THEN "starting" ELSE "failed"]),
           shared |-> new, stopper |-> IF spawns THEN new ELSE 0]

SetBrowser(b) == browsers' = b.threads /\ snaps' = b.snaps /\ shared' = b.shared /\ stopper' = b.stopper

(* sync_advertiser: an advertiser is replaced when its port is no longer the *)
(* one the Mac listens on. Advertiser::start may fail to register, and its   *)
(* drop tells the old thread to stop.                                        *)
Tell(list, n) == [a \in DOMAIN list |->
                    IF a = n /\ list[a].state = "up" THEN [list[a] EXCEPT !.state = "told"] ELSE list[a]]

Registered(port, registers) == [port |-> port, state |-> IF registers THEN "up" ELSE "down"]

sync_advertiser(wanted, registers) ==
  LET port == IF advertiser = 0 THEN 0 ELSE ads[advertiser].port
      told == Tell(ads, advertiser)
  IN IF port = wanted THEN UNCHANGED <<ads, advertiser>>
     ELSE IF wanted = 0 THEN ads' = told /\ advertiser' = 0
     ELSE /\ ads' = Append(told, Registered(wanted, registers))
          /\ advertiser' = Len(ads) + 1

(* sync_discovery, with sync_links where the welcome changes.                *)
SyncDiscovery(b, on, port) ==
  \E works \in BOOLEAN :
    /\ SetBrowser(IF on THEN StartBrowser(b, works) ELSE StopBrowser(b))
    /\ sync_advertiser(IF on THEN port ELSE 0, works)

Room == Len(browsers) < MaxBrowsers /\ Len(ads) < MaxAdvertisers
AppMoves == nearbyMoves < MaxNearbyMoves /\ nearbyMoves' = nearbyMoves + 1 /\ Room

(* Discover, Forget and reload change whether the app looks for computers;   *)
(* sharing and the port's holder change where it listens.                    *)
SettingsChange ==
  /\ AppMoves
  /\ looking' \in BOOLEAN /\ listening' \in Ports \cup {0}
  /\ SyncDiscovery(Browser, looking', listening')
  /\ access' = IF looking' THEN access ELSE "unknown"
  /\ UNCHANGED <<table, given>>

(* check_local_network: access that comes back asks again at once.           *)
check_local_network ==
  /\ AppMoves /\ looking /\ access' \in {"unknown", "allowed", "blocked"}
  /\ IF access = "blocked" /\ access' = "allowed"
     THEN SyncDiscovery(StopBrowser(Browser), TRUE, listening)
     ELSE UNCHANGED <<browsers, snaps, shared, stopper, ads, advertiser>>
  /\ UNCHANGED <<looking, listening, table, given>>

(* Maintenance starts a browser that failed; Retry a new advertiser.         *)
Maintain ==
  /\ Room /\ SyncDiscovery(Browser, looking, listening)
  /\ UNCHANGED <<looking, access, listening, table, given, nearbyMoves>>

RetryAdvertiser ==
  /\ AppMoves
  /\ \E registers \in BOOLEAN, told \in {Tell(ads, advertiser)} :
       IF ~looking \/ listening = 0 THEN ads' = told /\ advertiser' = 0
       ELSE /\ ads' = Append(told, Registered(listening, registers))
            /\ advertiser' = Len(told) + 1
  /\ UNCHANGED <<browsers, snaps, shared, stopper, looking, access, listening, table, given>>

(* tick_neighbors: the records of the snapshot become the table's.           *)
tick_neighbors ==
  /\ table' = (table \ (given \ snapshot.records)) \cup snapshot.records
  /\ given' = snapshot.records
  /\ UNCHANGED <<browsers, snaps, shared, stopper, ads, advertiser, looking, access, listening, nearbyMoves>>

-----------------------------------------------------------------------------
(* browse, the thread. Its select looks at the stop channel first.           *)
Set(t, at, snap) ==
  /\ browsers' = [browsers EXCEPT ![t].at = at] /\ snaps' = [snaps EXCEPT ![t] = snap]
  /\ UNCHANGED <<shared, stopper, ads, advertiser, looking, access, listening, table, given, nearbyMoves>>

Failed(snap) == [snap EXCEPT !.status = "failed", !.records = {}]

SetUp(t) ==
  /\ browsers[t].at = "setup"
  /\ \/ browsers[t].told /\ Set(t, "ended", snaps[t])
     \/ ~browsers[t].told /\ Set(t, "ended", Failed(snaps[t]))
     \/ ~browsers[t].told /\ Set(t, "browsing", [snaps[t] EXCEPT !.status = "browsing"])

(* NearbySnapshot::insert: a record with only this Mac's addresses goes.     *)
Inserted(snap, host) ==
  IF host \in snap.records \/ Cardinality(snap.records) < MAX_NEARBY
  THEN [snap EXCEPT !.records = @ \cup {host}] ELSE [snap EXCEPT !.turned = TRUE]

Browses(t) ==
  /\ browsers[t].at = "browsing" /\ ~browsers[t].told
  /\ \/ \E host \in NearHosts : Set(t, "browsing", Inserted(snaps[t], host))
     \/ \E host \in snaps[t].records : Set(t, "browsing", [snaps[t] EXCEPT !.records = @ \ {host}])
     \/ Set(t, "ended", Failed(snaps[t]))

(* An event the thread was already handling lands after the stop.            *)
BrowsesLate(t) ==
  /\ browsers[t].at = "browsing" /\ browsers[t].told
  /\ \/ Set(t, "ended", snaps[t])
     \/ \E host \in NearHosts : host \notin snaps[t].records /\ Set(t, "ended", Inserted(snaps[t], host))

(* advertise: until told, or the mDNS daemon fails.                          *)
AdvertiserEnds(a) ==
  /\ ads[a].state # "down" /\ ads' = [ads EXCEPT ![a].state = "down"]
  /\ UNCHANGED <<browsers, snaps, shared, stopper, advertiser, looking, access, listening, table, given, nearbyMoves>>

NearbyNext ==
  \/ SettingsChange \/ check_local_network \/ Maintain \/ RetryAdvertiser \/ tick_neighbors
  \/ \E t \in DOMAIN browsers : SetUp(t) \/ Browses(t) \/ BrowsesLate(t)
  \/ \E a \in DOMAIN ads : AdvertiserEnds(a)

NearbySpec == NearbyInit /\ [][NearbyNext]_nearbyVars

-----------------------------------------------------------------------------
NearbyTypeOK ==
  /\ shared \in DOMAIN browsers \cup {0} /\ stopper \in DOMAIN browsers \cup {0}
  /\ Len(snaps) = Len(browsers) /\ advertiser \in DOMAIN ads \cup {0} /\ table \subseteq NearHosts

(* What the window shows comes from the one browser that runs for it: no     *)
(* stopped thread writes where the app reads, a running status has a thread  *)
(* behind it, a browser that ended shows nothing, and looking goes on only   *)
(* while the app means to (NearbyBrowser).                                   *)
OneBrowser ==
  LET live == {t \in DOMAIN browsers : browsers[t].at # "ended" /\ ~browsers[t].told}
  IN /\ live \subseteq {shared}
     /\ is_running <=> live # {}
     /\ snapshot.records # {} => snapshot.status = "browsing"
     /\ live # {} => looking

(* The Mac is advertised on the port it listens on and no other: a thread    *)
(* for another port was told to end (sync_advertiser).                       *)
AdvertisedIsListening ==
  \A a \in DOMAIN ads : ads[a].state = "up" => a = advertiser /\ looking /\ ads[a].port = listening
=============================================================================
