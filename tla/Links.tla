-------------------------------- MODULE Links --------------------------------
(***************************************************************************)
(* The task that keeps one session up to a paired computer                  *)
(* (daemon/links.rs): it dials wherever a hello proved the peer's key, backs *)
(* off, waits while any session is up, and is stopped by dropping the sender *)
(* of its retries. Around it the daemon registers and loses sessions and     *)
(* applies configurations (connect, apply_config_locked of daemon.rs).       *)
(* One peer; a link's record is the version of its PeerConfig, 0 for none.   *)
(***************************************************************************)
EXTENDS Naturals, Sequences, FiniteSets

CONSTANTS
  Places,           \* addresses hellos may prove
  LinkRecords,      \* versions of the peer's record, without its addresses
  MaxLinkTasks,     \* bound: links started
  MaxLinkIds,       \* bound: sessions opened
  MaxLinkMoves      \* bound: configurations, retries and moves

ASSUME LinksAssumption ==
  /\ LinkRecords \subseteq Nat \ {0}
  /\ {MaxLinkTasks, MaxLinkIds, MaxLinkMoves} \subseteq Nat

VARIABLES
  linkSession,  \* Shared.sessions: the peer's session, 0 for none
  linkIds,      \* sessions opened
  places,       \* Neighbors::addresses_for_key
  linkRecord,   \* the record of Shared.config, when the peer gets a link
  linkNow,      \* Shared.links: the task of the peer's Link, 0 for none
  linkTasks,    \* every task started, by number
  linkMoves

linksVars == <<linkSession, linkIds, places, linkRecord, linkNow, linkTasks, linkMoves>>

SessionView(id) == [kind |-> "session", id |-> id, at |-> {}]
DialView(addresses) == [kind |-> "dial", id |-> 0, at |-> addresses]

(* Task::view: the peer's session while it has one, else where to dial.      *)
view == IF linkSession # 0 THEN SessionView(linkSession) ELSE DialView(places)

(* A new task: its receivers have seen everything so far, its link no retry. *)
NewTask(record) ==
  [at |-> "top", record |-> record, seen |-> DialView({}), timer |-> FALSE, after |-> "top",
   failed |-> FALSE, status |-> "none", retries |-> 0, stopped |-> FALSE, news |-> FALSE]

LinksInit ==
  /\ linkSession = 0 /\ linkIds = 0 /\ places = {} /\ linkMoves = 0
  /\ linkRecord = 0 /\ linkNow = 0 /\ linkTasks = <<>>

Tasks == DOMAIN linkTasks

(* session_changes and the neighbours' watch reach every task that waits.    *)
Told(tasks) == [t \in DOMAIN tasks |-> [tasks[t] EXCEPT !.news = TRUE]]

-----------------------------------------------------------------------------
(* run, from the top of its loop. Retries keep showing why the last attempt  *)
(* failed; a link with nowhere to dial shows nothing.                        *)
StartWait(task, seen, timer, after) ==
  [task EXCEPT !.at = "check", !.seen = seen, !.timer = timer, !.after = after]

Topped(task) ==
  CASE view.kind = "session" -> [StartWait(task, view, FALSE, "session") EXCEPT !.status = "none"]
    [] view = DialView({})   -> [StartWait(task, view, FALSE, "top") EXCEPT !.status = "none"]
    [] OTHER -> [task EXCEPT !.at = "dialing", !.seen = view,
                             !.status = IF task.status = "unreachable" THEN @ ELSE "connecting"]

Top(t) ==
  /\ linkTasks[t].at = "top"
  /\ linkTasks' = [linkTasks EXCEPT ![t] = Topped(@)]
  /\ UNCHANGED <<linkSession, linkIds, places, linkRecord, linkNow, linkMoves>>

(* connect: the record may still be the current one when the handshake ends; *)
(* a session the peer opened meanwhile is kept or superseded.                *)
DialLands(t) ==
  /\ linkTasks[t].at = "dialing" /\ linkTasks[t].record = linkRecord
  /\ \/ /\ linkSession # 0
        /\ linkTasks' = [linkTasks EXCEPT ![t].at = "dialed", ![t].seen = SessionView(linkSession)]
        /\ UNCHANGED <<linkSession, linkIds>>
     \/ /\ linkIds < MaxLinkIds
        /\ linkIds' = linkIds + 1 /\ linkSession' = linkIds + 1
        /\ linkTasks' = [Told(linkTasks) EXCEPT ![t].at = "dialed", ![t].seen = SessionView(linkIds + 1)]
  /\ UNCHANGED <<places, linkRecord, linkNow, linkMoves>>

(* Nothing answered, or the authorization changed during the negotiation.    *)
DialFails(t) ==
  /\ linkTasks[t].at = "dialing"
  /\ linkTasks' = [linkTasks EXCEPT ![t] =
       IF linkSession # 0 THEN [@ EXCEPT !.at = "top"]
       ELSE [StartWait(@, @.seen, TRUE, "top") EXCEPT !.failed = TRUE, !.status = "unreachable"]]
  /\ UNCHANGED <<linkSession, linkIds, places, linkRecord, linkNow, linkMoves>>

Opened(t) ==
  /\ linkTasks[t].at = "dialed"
  /\ linkTasks' = [linkTasks EXCEPT ![t] = [StartWait(@, @.seen, FALSE, "session") EXCEPT !.status = "none"]]
  /\ UNCHANGED <<linkSession, linkIds, places, linkRecord, linkNow, linkMoves>>

-----------------------------------------------------------------------------
(* What follows a wait that returned true: after a session, a stable one is  *)
(* redialled at once and a short one like a failed attempt.                  *)
Passed(task, stable) ==
  IF task.after = "top" THEN [task EXCEPT !.at = "top"]
  ELSE IF ~stable /\ view.kind = "dial"
       THEN [StartWait(task, view, TRUE, "top") EXCEPT !.failed = TRUE]
       ELSE [task EXCEPT !.at = "top", !.failed = ~stable]

(* Mutant: a wait that goes to sleep without comparing the view again.       *)
CheckBlind(t) ==
  /\ linkTasks[t].at = "check"
  /\ linkTasks' = [linkTasks EXCEPT ![t].at = "parked"]
  /\ UNCHANGED <<linkSession, linkIds, places, linkRecord, linkNow, linkMoves>>

(* wait: the view is compared before every sleep.                            *)
Check(t) ==
  /\ linkTasks[t].at = "check"
  /\ \E stable \in BOOLEAN :
       linkTasks' = [linkTasks EXCEPT ![t] =
         IF view # @.seen THEN Passed(@, stable) ELSE [@ EXCEPT !.at = "parked"]]
  /\ UNCHANGED <<linkSession, linkIds, places, linkRecord, linkNow, linkMoves>>

(* select!: any arm that is ready may win.                                   *)
TimerFires(task) == task.timer
TakesRetry(task) == task.retries > 0
SeesStop(task) == task.stopped /\ task.retries = 0
AfterRetry(task, stable) ==
  IF task.seen.kind = "session" THEN [task EXCEPT !.retries = @ - 1, !.at = "check"]
  ELSE Passed([task EXCEPT !.retries = @ - 1], stable)

Wake(t) ==
  /\ linkTasks[t].at = "parked"
  /\ \E stable \in BOOLEAN :
       \/ /\ TimerFires(linkTasks[t])
          /\ linkTasks' = [linkTasks EXCEPT ![t] = Passed(@, stable)]
       \/ /\ TakesRetry(linkTasks[t])
          /\ linkTasks' = [linkTasks EXCEPT ![t] = AfterRetry(@, stable)]
       \/ /\ SeesStop(linkTasks[t])
          /\ linkTasks' = [linkTasks EXCEPT ![t].at = "ended"]
       \/ /\ linkTasks[t].news
          /\ linkTasks' = [linkTasks EXCEPT ![t].news = FALSE, ![t].at = "check"]
  /\ UNCHANGED <<linkSession, linkIds, places, linkRecord, linkNow, linkMoves>>

-----------------------------------------------------------------------------
(* accept_connection: the peer's own dial, while it is authorized.           *)
PeerDials ==
  /\ linkRecord # 0 /\ linkSession = 0 /\ linkIds < MaxLinkIds
  /\ linkIds' = linkIds + 1 /\ linkSession' = linkIds + 1
  /\ linkTasks' = Told(linkTasks)
  /\ UNCHANGED <<places, linkRecord, linkNow, linkMoves>>

(* The Closed event of the current session.                                  *)
SessionEnds ==
  /\ linkSession # 0 /\ linkSession' = 0
  /\ linkTasks' = Told(linkTasks)
  /\ UNCHANGED <<linkIds, places, linkRecord, linkNow, linkMoves>>

Moved ==
  /\ linkMoves < MaxLinkMoves
  /\ \E found \in SUBSET Places \ {places} : places' = found
  /\ linkTasks' = Told(linkTasks) /\ linkMoves' = linkMoves + 1
  /\ UNCHANGED <<linkSession, linkIds, linkRecord, linkNow>>

(* retry_links, when a person asks.                                          *)
retry_links ==
  /\ linkMoves < MaxLinkMoves /\ linkNow # 0
  /\ linkTasks' = [linkTasks EXCEPT ![linkNow].retries = @ + 1] /\ linkMoves' = linkMoves + 1
  /\ UNCHANGED <<linkSession, linkIds, places, linkRecord, linkNow>>

(* sync_links of a configuration: a link whose record changed is dropped,    *)
(* and a peer without a link gets one.                                       *)
SameRecord(record) == linkNow # 0 /\ linkTasks[linkNow].record = record

sync_links(record) ==
  LET dropped == IF linkNow = 0 \/ SameRecord(record) THEN linkTasks
                 ELSE [linkTasks EXCEPT ![linkNow].stopped = TRUE]
  IN CASE SameRecord(record) -> [tasks |-> linkTasks, now |-> linkNow]
       [] record = 0    -> [tasks |-> dropped, now |-> 0]
       [] OTHER -> [tasks |-> Append(dropped, NewTask(record)), now |-> Cardinality(Tasks) + 1]

Configure ==
  /\ linkMoves < MaxLinkMoves
  /\ \E record \in LinkRecords \cup {0} :
       /\ Cardinality(Tasks) < MaxLinkTasks \/ record = 0 \/ SameRecord(record)
       /\ linkRecord' = record
       /\ linkTasks' = sync_links(record).tasks /\ linkNow' = sync_links(record).now
  /\ linkMoves' = linkMoves + 1
  /\ UNCHANGED <<linkSession, linkIds, places>>

LinksNext ==
  \/ \E t \in Tasks : Top(t) \/ DialLands(t) \/ DialFails(t) \/ Opened(t) \/ Check(t) \/ Wake(t)
  \/ PeerDials \/ SessionEnds \/ Moved \/ retry_links \/ Configure

LinksSpec == LinksInit /\ [][LinksNext]_linksVars

-----------------------------------------------------------------------------
LinksTypeOK ==
  /\ linkSession \in 0 .. linkIds /\ linkIds \in 0 .. MaxLinkIds
  /\ places \subseteq Places /\ linkRecord \in LinkRecords \cup {0} /\ linkNow \in Tasks \cup {0}
  /\ \A t \in Tasks : linkTasks[t].at \in {"top", "dialing", "dialed", "check", "parked", "ended"}

(* A link never sleeps through a change of its session or of where its peer  *)
(* is: whatever it waits for differs from the present only with the news of  *)
(* it still to read (Task::wait).                                            *)
NotParkedOnNews ==
  \A t \in Tasks : linkTasks[t].at = "parked" /\ view # linkTasks[t].seen => linkTasks[t].news

(* What the settings window reads of a link that waits is so: no failure     *)
(* while there is a session, and a failure for as long as attempts fail.     *)
StatusIsTrue ==
  linkNow # 0 =>
    LET task == linkTasks[linkNow]
    IN task.at = "parked" /\ ~task.news =>
         /\ linkSession # 0 \/ places = {} => task.status = "none"
         /\ task.status # "connecting"
         /\ task.status = "unreachable" => linkSession = 0 /\ task.timer

(* One link per authorized peer, with the record in force, and every other   *)
(* task was told to stop (sync_links).                                       *)
OneLinkEach ==
  /\ (linkNow = 0) <=> (linkRecord = 0)
  /\ linkNow # 0 => linkTasks[linkNow].record = linkRecord /\ ~linkTasks[linkNow].stopped
  /\ \A t \in Tasks \ {linkNow} : linkTasks[t].stopped
=============================================================================
