-------------------------------- MODULE Awdl --------------------------------
(***************************************************************************)
(* The Mac's one AWDL lease (macos/awdl.rs) and the helper that grants it    *)
(* (macos/awdl_helper.c). Every crossing, controlling peer and open lens is  *)
(* a user: it wants AWDL down, takes it down on the shared lease, and lets   *)
(* go. The last one to let go starts a wait after which the lease goes back. *)
(* The helper restores AWDL when a lease is released, when its pipe closes   *)
(* and when its heartbeats stop.                                             *)
(***************************************************************************)
EXTENDS Naturals, FiniteSets

CONSTANTS
  Users,           \* episodes of wanting AWDL down, each used once
  MaxLapses,       \* bound: leases the helper gave up by itself
  MaxTrouble       \* bound: failures in a row

Free == "free"

ASSUME AwdlAssumption ==
  /\ IsFiniteSet(Users) /\ Free \notin Users
  /\ {MaxLapses, MaxTrouble} \subseteq Nat

VARIABLES
  awdlPhase,      \* each user's Wanted guard: not created, alive, dropped
  downs,      \* each user's call of down()
  emptied,    \* Users.emptied
  restores,   \* the restore() task of each time nobody wanted it any more
  locked,     \* who holds the lock of Shared.lease
  lease,      \* Shared.lease: whose down() acquired it, Free for none
  lapsed,     \* its renewal task has ended
  helper,     \* the helper's lease: whose, and whether its pipe is open
  trouble,    \* Shared.trouble's count
  lapses      \* leases the helper gave up, counted

awdlVars == <<awdlPhase, downs, emptied, restores, locked, lease, lapsed, helper, trouble, lapses>>

Unheld == <<"no", "one">>
Emptyings == 1..Cardinality(Users)
Holders == {<<"down", u>> : u \in Users} \cup {<<"restore", e>> : e \in Emptyings} \cup {Unheld}

wanting == {u \in Users : awdlPhase[u] = "wants"}
Grant(u) == [of |-> u, open |-> TRUE]
Idle == [of |-> Free, open |-> FALSE]
Closed(h) == [h EXCEPT !.open = FALSE]

AwdlInit ==
  /\ awdlPhase = [u \in Users |-> "new"] /\ downs = [u \in Users |-> "no"]
  /\ emptied = 0 /\ restores = [e \in Emptyings |-> "no"]
  /\ locked = Unheld /\ lease = Free /\ lapsed = FALSE /\ helper = Idle
  /\ trouble = 0 /\ lapses = 0

-----------------------------------------------------------------------------
(* want(), and the down() that every caller starts with it.                  *)
Want(u) ==
  /\ awdlPhase[u] = "new"
  /\ awdlPhase' = [awdlPhase EXCEPT ![u] = "wants"] /\ downs' = [downs EXCEPT ![u] = "waiting"]
  /\ UNCHANGED <<emptied, restores, locked, lease, lapsed, helper, trouble, lapses>>

(* Wanted::drop. The down() of a controlling peer runs on without it.        *)
Drop(u) ==
  /\ awdlPhase[u] = "wants"
  /\ awdlPhase' = [awdlPhase EXCEPT ![u] = "gone"]
  /\ IF wanting = {u}
     THEN emptied' = emptied + 1 /\ restores' = [restores EXCEPT ![emptied + 1] = "lingers"]
     ELSE UNCHANGED <<emptied, restores>>
  /\ UNCHANGED <<downs, locked, lease, lapsed, helper, trouble, lapses>>

-----------------------------------------------------------------------------
(* Shared::down. With the lock, it looks at who wants AWDL down and at the   *)
(* lease there is, and holds the lock while the helper answers.              *)
failed == trouble' = IF trouble < MaxTrouble THEN trouble + 1 ELSE trouble

(* Mutant: down() does not ask whether anyone still wants AWDL down.         *)
AnyoneWants == TRUE
StillWanted == wanting # {}

(* Nobody wants AWDL down any more, or it is down already.                   *)
HasNothingToDo(u) ==
  /\ downs[u] = "waiting" /\ locked = Unheld
  /\ ~StillWanted \/ (lease # Free /\ ~lapsed)
  /\ downs' = [downs EXCEPT ![u] = "done"]
  /\ UNCHANGED <<awdlPhase, emptied, restores, locked, lease, lapsed, helper, trouble, lapses>>

(* A lapsed lease is taken away first.                                       *)
Requests(u) ==
  /\ downs[u] = "waiting" /\ locked = Unheld
  /\ StillWanted /\ (lease = Free \/ lapsed)
  /\ downs' = [downs EXCEPT ![u] = "requests"] /\ locked' = <<"down", u>>
  /\ lease' = Free /\ lapsed' = FALSE
  /\ UNCHANGED <<awdlPhase, emptied, restores, helper, trouble, lapses>>

(* AwDlLease::acquire and hold: READY, ACTIVE, and a task that renews it.    *)
Granted(u) ==
  /\ downs[u] = "requests" /\ helper = Idle
  /\ helper' = Grant(u) /\ lease' = u /\ lapsed' = FALSE /\ trouble' = 0
  /\ downs' = [downs EXCEPT ![u] = "done"] /\ locked' = Unheld
  /\ UNCHANGED <<awdlPhase, emptied, restores, lapses>>

(* The helper is in use, is missing, or breaks off the exchange.             *)
Refused(u) ==
  /\ downs[u] = "requests"
  /\ downs' = [downs EXCEPT ![u] = "gaveup"] /\ locked' = Unheld /\ failed
  /\ UNCHANGED <<awdlPhase, emptied, restores, lease, lapsed, helper, lapses>>

(* The limit passes. A request on its way runs on, and what it is granted is *)
(* dropped, so its pipe closes.                                              *)
RunsOutOfTime(u) ==
  /\ downs[u] \in {"waiting", "requests"}
  /\ downs' = [downs EXCEPT ![u] = "gaveup"] /\ failed
  /\ locked' = IF downs[u] = "requests" THEN Unheld ELSE locked
  /\ \/ helper' = helper
     \/ downs[u] = "requests" /\ helper = Idle /\ helper' = Closed(Grant(u))
  /\ UNCHANGED <<awdlPhase, emptied, restores, lease, lapsed, lapses>>

-----------------------------------------------------------------------------
(* Shared::restore: it waits, takes the lock, and gives the lease back       *)
(* unless someone wants AWDL down or came and went meanwhile.                *)
Lingered(e) ==
  /\ restores[e] = "lingers"
  /\ restores' = [restores EXCEPT ![e] = "waiting"]
  /\ UNCHANGED <<awdlPhase, downs, emptied, locked, lease, lapsed, helper, trouble, lapses>>

(* Mutant: a wait that is over gives the lease back whoever came meanwhile.  *)
NeverKeepsDown(e) == FALSE
KeepsDown(e) == wanting # {} \/ emptied # e

LeavesIt(e) ==
  /\ restores[e] = "waiting" /\ locked = Unheld
  /\ KeepsDown(e) \/ lease = Free
  /\ restores' = [restores EXCEPT ![e] = "done"]
  /\ UNCHANGED <<awdlPhase, downs, emptied, locked, lease, lapsed, helper, trouble, lapses>>

GivesBack(e) ==
  /\ restores[e] = "waiting" /\ locked = Unheld
  /\ ~KeepsDown(e) /\ lease # Free
  /\ restores' = [restores EXCEPT ![e] = "releases"]
  /\ locked' = <<"restore", e>> /\ lease' = Free /\ lapsed' = FALSE
  /\ UNCHANGED <<awdlPhase, downs, emptied, helper, trouble, lapses>>

(* The helper confirms, or it does not and the pipe closes behind the lease. *)
HelperReleased(e) ==
  /\ restores[e] = "releases"
  /\ helper' \in {Idle, Closed(helper)}
  /\ restores' = [restores EXCEPT ![e] = "done"] /\ locked' = Unheld
  /\ UNCHANGED <<awdlPhase, downs, emptied, lease, lapsed, trouble, lapses>>

-----------------------------------------------------------------------------
(* The helper ends a lease whose pipe closed.                                *)
SeesTheEnd ==
  /\ helper # Idle /\ ~helper.open
  /\ helper' = Idle
  /\ UNCHANGED <<awdlPhase, downs, emptied, restores, locked, lease, lapsed, trouble, lapses>>

(* It stops by itself, or heartbeats came too late.                          *)
Expires ==
  /\ lapses < MaxLapses /\ helper.open
  /\ helper' = Idle /\ lapses' = lapses + 1
  /\ UNCHANGED <<awdlPhase, downs, emptied, restores, locked, lease, lapsed, trouble>>

(* The renewal task ends: the helper went, or did not answer a heartbeat.    *)
RenewalFails ==
  /\ lease # Free /\ ~lapsed
  /\ \/ helper = Idle /\ UNCHANGED <<helper, lapses>>
     \/ helper.open /\ lapses < MaxLapses /\ helper' = Closed(helper) /\ lapses' = lapses + 1
  /\ lapsed' = TRUE
  /\ UNCHANGED <<awdlPhase, downs, emptied, restores, locked, lease, trouble>>

AwdlNext ==
  \/ \E u \in Users : \/ Want(u) \/ Drop(u) \/ HasNothingToDo(u) \/ Requests(u) \/ Granted(u)
                      \/ Refused(u) \/ RunsOutOfTime(u)
  \/ \E e \in Emptyings : Lingered(e) \/ LeavesIt(e) \/ GivesBack(e) \/ HelperReleased(e)
  \/ SeesTheEnd \/ Expires \/ RenewalFails

-----------------------------------------------------------------------------
AwdlTypeOK ==
  /\ awdlPhase \in [Users -> {"new", "wants", "gone"}]
  /\ downs \in [Users -> {"no", "waiting", "requests", "done", "gaveup"}]
  /\ emptied \in 0..Cardinality(Users)
  /\ restores \in [Emptyings -> {"no", "lingers", "waiting", "releases", "done"}]
  /\ locked \in Holders /\ lease \in Users \cup {Free} /\ lapsed \in BOOLEAN
  /\ helper \in [of : Users \cup {Free}, open : BOOLEAN]
  /\ trouble \in 0..MaxTrouble /\ lapses \in 0..MaxLapses

(* Once nobody wants AWDL down and every task about it is over, the app      *)
(* holds no lease and the helper's pipe is closed: a lease granted after its *)
(* user left goes back too.                                                  *)
AwdlComesBack ==
  (/\ wanting = {}
   /\ \A u \in Users : downs[u] \notin {"waiting", "requests"}
   /\ \A e \in Emptyings : restores[e] \in {"no", "done"})
    => lease = Free /\ ~helper.open

(* As long as the helper gives nothing up by itself, a user whose down() is  *)
(* over without failing has AWDL down until it lets go, however many came    *)
(* and went around it.                                                       *)
WantedStaysDown ==
  lapses = 0 => \A u \in wanting : downs[u] = "done" => lease # Free /\ helper = Grant(lease)

(* The helper grants one lease at a time: the app never asks for a second    *)
(* one while it keeps one open itself.                                       *)
AsksForOne ==
  \A u \in Users : downs[u] = "requests" => ~helper.open
=============================================================================
