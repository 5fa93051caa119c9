------------------------------ MODULE MCDaemon ------------------------------
(* Instances of Daemon for TLC. *)
EXTENDS Daemon, FiniteSets

Symmetry == Permutations(Peers)

Of(n, m) == [k \in Kinds |-> IF k \in DOMAIN m THEN m[k] ELSE n]

(* Sessions are dialed and accepted while permissions and the seat change.   *)
FromNothing == Init

(* The daemon once it has dialed every peer. *)
Connected ==
  /\ perm = [p \in Peers |-> Perms] /\ sharing = TRUE /\ gate = "open"
  /\ sessions \in {f \in [Peers -> 1..Cardinality(Peers)] : \A p, q \in Peers : f[p] = f[q] => p = q}
  /\ sess = [i \in 1..Cardinality(Peers) |->
               [NewSession(CHOOSE p \in Peers : sessions[p] = i, "out", "done") EXCEPT !.actor = "run"]]
  /\ active = None /\ owner = 0 /\ injected = {} /\ evs = <<>> /\ wait = Free
  /\ PortInit /\ peer = NoPeer /\ acts = 0
  /\ cmds = <<>> /\ rtEvs = <<>> /\ frame = FALSE

MCAsks == Of(0, [session |-> 2, enter |-> 2, policy |-> 1, seat |-> 1])

(* Activations, hops and releases between connected computers; the second    *)
(* with a peer that tries to take control meanwhile.                         *)
Sending == Connected /\ asks \in {Of(0, [activate |-> 2, hop |-> 1]),
                                  Of(0, [activate |-> 1, hop |-> 1, enter |-> 1])}

MCInit == FromNothing \/ Sending
MCSpec == MCInit /\ [][Next]_vars

(* One activation with a hop or a local release, and two sessions that race  *)
(* to be a peer's.                                                           *)
LiveAsks == Of(0, [session |-> 2])
LiveInit ==
  \/ Init
  \/ Connected /\ asks \in {Of(0, [activate |-> 1, hop |-> 1]), Of(0, [activate |-> 1, local |-> 1])}
LiveSpec == LiveInit /\ [][Next]_vars /\ Fairness
=============================================================================
