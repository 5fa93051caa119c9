------------------------------ MODULE Clipboard ------------------------------
(***************************************************************************)
(* The clipboard goes along with the pointer: clipboard.rs, the three ways   *)
(* the computers handle it (daemon/clipboard.rs on Linux, with a task for    *)
(* each clip; macos/clipboard.rs, with a blocking thread for each access;    *)
(* windows/engine.rs, with one queue of jobs) and the stream that carries a  *)
(* clip (session/desktop.rs, transport/connection.rs). One person's pointer  *)
(* walks from its own computer to the others and back.                       *)
(***************************************************************************)
EXTENDS Naturals, Sequences, FiniteSets, SequencesExt

CONSTANTS
  LinuxSharers, MacSharers, WindowsSharers,   \* the computers, by what they run
  Source,                     \* the computer the pointer belongs to
  Clips,                      \* what a person may copy and zflow may carry
  MAX_CLIP_JOBS,              \* room in the queue of a Windows computer
  MaxCopies,                  \* bound: copies by people
  MaxWalks,                   \* bound: crossings of the pointer
  MaxSwitches                 \* bound: changes of the sharing switch

Sharers == LinuxSharers \cup MacSharers \cup WindowsSharers

ASSUME ClipboardAssumption ==
  /\ Source \in Sharers
  /\ LinuxSharers \cap MacSharers = {} /\ LinuxSharers \cap WindowsSharers = {} /\ MacSharers \cap WindowsSharers = {}
  /\ {MAX_CLIP_JOBS, MaxCopies, MaxWalks, MaxSwitches} \subseteq Nat

VARIABLES
  board,     \* what each computer's clipboard holds
  changes,   \* its change count, as macOS keeps one
  written,   \* State.written of a Mac: the count its last write left, and the clip
  share,     \* [clipboard] share
  echo,      \* Echo.peer_has: what each peer last had from here or gave
  jobs,      \* the clipboard tasks of each computer
  sending,   \* the clip on its way to each peer
  at,        \* where the pointer is
  clipsLost,      \* a clip went down with its session
  rushed,    \* the pointer moved on before the clips of its last move settled
  copies, walks, switches

clipboardVars ==
  <<board, changes, written, share, echo, jobs, sending, at, clipsLost, rushed, copies, walks, switches>>

NoClip == "nothing"
TooLarge == "too large"
NotAllowed == "not allowed"
Unchanged == "unchanged"

(* What a clip may be is none of the other outcomes of a read.               *)
ASSUME ClipsAssumption == Clips \cap {NoClip, TooLarge, NotAllowed, Unchanged} = {}

ClipboardInit ==
  /\ board = [c \in Sharers |-> NoClip] /\ changes = [c \in Sharers |-> 0]
  /\ written = [c \in Sharers |-> [count |-> 0, clip |-> NoClip]]
  /\ share = [c \in Sharers |-> TRUE]
  /\ echo = [c \in Sharers |-> [p \in Sharers |-> NoClip]]
  /\ jobs = [c \in Sharers |-> <<>>]
  /\ sending = [c \in Sharers |-> [p \in Sharers |-> NoClip]]
  /\ at = Source /\ clipsLost = FALSE /\ rushed = FALSE
  /\ copies = 0 /\ walks = 0 /\ switches = 0

-----------------------------------------------------------------------------
(* The tasks of a computer, as functions of all of them.                     *)
Job(do, peer, clip) == [do |-> do, peer |-> peer, clip |-> clip]
WithoutClip(js, c, i) == [js EXCEPT ![c] = RemoveAt(@, i)]
Becomes(js, c, i, do, clip) == [js EXCEPT ![c][i] = Job(do, @.peer, clip)]
HasRoom(js, c) ==
  c \in WindowsSharers => Cardinality({i \in DOMAIN js[c] : js[c][i].do # "decide"}) < MAX_CLIP_JOBS
Adds(js, c, job) == IF HasRoom(js, c) THEN [js EXCEPT ![c] = Append(@, job)] ELSE js

(* A Windows computer does its jobs in order, and hears of its reads in      *)
(* order while it goes on; the others do any of theirs.                      *)
MayRun(c, i) ==
  /\ i \in DOMAIN jobs[c]
  /\ c \in WindowsSharers => \A j \in 1..(i - 1) : jobs[c][j].do = "decide" /\ jobs[c][i].do # "decide"

(* share_clipboard, Clipboard::share and send_clip: what the computer that   *)
(* the pointer left begins. On Linux the task itself looks at the switch.    *)
Shares(js, c, p) ==
  IF c \in LinuxSharers \/ share[c] THEN Adds(js, c, Job("read", p, NoClip)) ELSE js

Settled ==
  /\ \A c \in Sharers : jobs[c] = <<>>
  /\ \A c, p \in Sharers : sending[c][p] = NoClip

-----------------------------------------------------------------------------
(* The pointer. A source shares as its crossing reaches the other computer,  *)
(* and a controlled computer as that control ends.                           *)
Walks(to) ==
  /\ walks < MaxWalks
  /\ at' = to /\ walks' = walks + 1 /\ rushed' = (rushed \/ ~Settled)
  /\ UNCHANGED <<board, changes, written, share, echo, sending, clipsLost, copies, switches>>

Enter(p) ==
  /\ at = Source /\ p # Source
  /\ jobs' = Shares(jobs, Source, p)
  /\ Walks(p)

Return ==
  /\ at # Source
  /\ jobs' = Shares(jobs, at, Source)
  /\ Walks(Source)

(* A hop sends the source's clipboard along, and ends the control it leaves. *)
Hop(q) ==
  /\ at # Source /\ q \notin {Source, at}
  /\ jobs' = Shares(Shares(jobs, Source, q), at, Source)
  /\ Walks(q)

-----------------------------------------------------------------------------
(* A read: the contents, or on a Mac that they are its own last write or     *)
(* that macOS would ask first. On Linux the switch or a closed session ends  *)
(* the task before it.                                                       *)
Contents(c) ==
  IF c \in MacSharers /\ written[c].count = changes[c] /\ changes[c] > 0
  THEN {Unchanged}
  ELSE {board[c]} \cup (IF c \in MacSharers THEN {NotAllowed} ELSE {})

Reads(c, i) ==
  /\ MayRun(c, i) /\ jobs[c][i].do = "read"
  /\ IF c \in LinuxSharers /\ ~share[c]
     THEN jobs' = WithoutClip(jobs, c, i)
     ELSE \E contents \in Contents(c) : jobs' = Becomes(jobs, c, i, "decide", contents)
  /\ UNCHANGED <<board, changes, written, share, echo, sending, at, clipsLost, rushed, copies, walks, switches>>

(* Clip::new: what may go at all.                                            *)
IsClip(contents) == contents \in Clips

(* Mutant: a clip is sent whatever the peer has.                             *)
AlwaysSends(c, p, clip) == TRUE
should_send(c, p, clip) == echo[c][p] # clip

Meant(c, contents) == IF contents = Unchanged THEN written[c].clip ELSE contents

(* outgoing: empty, large and unread clipboards stay, and so does what the   *)
(* peer has. The engine of Windows sends in the same step.                   *)
Decides(c, i) ==
  /\ MayRun(c, i) /\ jobs[c][i].do = "decide"
  /\ LET p == jobs[c][i].peer
         clip == Meant(c, jobs[c][i].clip)
     IN  IF IsClip(clip) /\ should_send(c, p, clip)
         THEN /\ echo' = [echo EXCEPT ![c][p] = clip]
              /\ IF c \in WindowsSharers
                 THEN sending' = [sending EXCEPT ![c][p] = clip] /\ jobs' = WithoutClip(jobs, c, i)
                 ELSE UNCHANGED sending /\ jobs' = Becomes(jobs, c, i, "send", clip)
         ELSE UNCHANGED <<echo, sending>> /\ jobs' = WithoutClip(jobs, c, i)
  /\ UNCHANGED <<board, changes, written, share, at, clipsLost, rushed, copies, walks, switches>>

(* send_clipboard: a clip still on its way is cancelled.                     *)
Sends(c, i) ==
  /\ MayRun(c, i) /\ jobs[c][i].do = "send"
  /\ sending' = [sending EXCEPT ![c][jobs[c][i].peer] = jobs[c][i].clip]
  /\ jobs' = WithoutClip(jobs, c, i)
  /\ UNCHANGED <<board, changes, written, share, echo, at, clipsLost, rushed, copies, walks, switches>>

-----------------------------------------------------------------------------
(* A clip arrives whole. A Mac and a Windows computer look at their switch   *)
(* and remember the clip at once, and Linux starts a task that does.         *)
(* Mutant: what a peer gave is not remembered.                               *)
Forgets(c, p, clip) == echo
Remembers(c, p, clip) == [echo EXCEPT ![c][p] = clip]

Arrives(p, c) ==
  /\ sending[p][c] # NoClip
  /\ sending' = [sending EXCEPT ![p][c] = NoClip]
  /\ LET clip == sending[p][c]
     IN  CASE c \in LinuxSharers -> jobs' = Adds(jobs, c, Job("keep", p, clip)) /\ UNCHANGED echo
           [] c \notin LinuxSharers /\ share[c] ->
                jobs' = Adds(jobs, c, Job("write", p, clip)) /\ echo' = Remembers(c, p, clip)
           [] OTHER -> UNCHANGED <<jobs, echo>>
  /\ UNCHANGED <<board, changes, written, share, at, clipsLost, rushed, copies, walks, switches>>

(* The first half of Linux's keep_clipboard.                                 *)
Keeps(c, i) ==
  /\ MayRun(c, i) /\ jobs[c][i].do = "keep"
  /\ IF share[c]
     THEN /\ echo' = Remembers(c, jobs[c][i].peer, jobs[c][i].clip)
          /\ jobs' = Becomes(jobs, c, i, "write", jobs[c][i].clip)
     ELSE UNCHANGED echo /\ jobs' = WithoutClip(jobs, c, i)
  /\ UNCHANGED <<board, changes, written, share, sending, at, clipsLost, rushed, copies, walks, switches>>

(* The write. A Mac goes on to note the count it left.                       *)
Writes(c, i) ==
  /\ MayRun(c, i) /\ jobs[c][i].do = "write"
  /\ board' = [board EXCEPT ![c] = jobs[c][i].clip]
  /\ changes' = [changes EXCEPT ![c] = @ + 1]
  /\ jobs' = IF c \in MacSharers THEN [jobs EXCEPT ![c][i] = Job("note", changes[c] + 1, @.clip)]
             ELSE WithoutClip(jobs, c, i)
  /\ UNCHANGED <<written, share, echo, sending, at, clipsLost, rushed, copies, walks, switches>>

(* Mutant: the count is the one the pasteboard has when it is noted.         *)
CountsLate(c, i) == changes[c]
CountsAtWrite(c, i) == jobs[c][i].peer

Notes(c, i) ==
  /\ MayRun(c, i) /\ jobs[c][i].do = "note"
  /\ written' = [written EXCEPT ![c] = [count |-> CountsAtWrite(c, i), clip |-> jobs[c][i].clip]]
  /\ jobs' = WithoutClip(jobs, c, i)
  /\ UNCHANGED <<board, changes, share, echo, sending, at, clipsLost, rushed, copies, walks, switches>>

(* The desktop does not take the clip, or does not give one.                 *)
Fails(c, i) ==
  /\ MayRun(c, i) /\ jobs[c][i].do \in {"read", "write"}
  /\ jobs' = WithoutClip(jobs, c, i)
  /\ UNCHANGED <<board, changes, written, share, echo, sending, at, clipsLost, rushed, copies, walks, switches>>

-----------------------------------------------------------------------------
(* A person copies, on any computer; the switch; and a session that ends.    *)
Copy(c, clip) ==
  /\ copies < MaxCopies
  /\ board' = [board EXCEPT ![c] = clip] /\ changes' = [changes EXCEPT ![c] = @ + 1]
  /\ copies' = copies + 1
  /\ UNCHANGED <<written, share, echo, jobs, sending, at, clipsLost, rushed, walks, switches>>

set_share(c) ==
  /\ switches < MaxSwitches
  /\ share' = [share EXCEPT ![c] = ~@] /\ switches' = switches + 1
  /\ UNCHANGED <<board, changes, written, echo, jobs, sending, at, clipsLost, rushed, copies, walks>>

Loses(c, p) ==
  /\ sending[c][p] # NoClip
  /\ sending' = [sending EXCEPT ![c][p] = NoClip] /\ clipsLost' = TRUE
  /\ UNCHANGED <<board, changes, written, share, echo, jobs, at, rushed, copies, walks, switches>>

ClipboardNext ==
  \/ \E p \in Sharers : Enter(p) \/ Hop(p)
  \/ Return
  \/ \E c \in Sharers :
       \/ \E i \in 1..Len(jobs[c]) :
            Reads(c, i) \/ Decides(c, i) \/ Sends(c, i) \/ Keeps(c, i) \/ Writes(c, i) \/ Notes(c, i)
            \/ Fails(c, i)
       \/ \E p \in Sharers : Arrives(p, c) \/ Loses(c, p)
       \/ \E clip \in Clips \cup {TooLarge} : Copy(c, clip)
       \/ set_share(c)

-----------------------------------------------------------------------------
ClipboardTypeOK ==
  /\ board \in [Sharers -> Clips \cup {NoClip, TooLarge}]
  /\ changes \in [Sharers -> 0..(MaxCopies + 3 * MaxWalks)]
  /\ \A c \in Sharers : written[c].clip \in Clips \cup {NoClip} /\ written[c].count <= changes[c]
  /\ share \in [Sharers -> BOOLEAN]
  /\ echo \in [Sharers -> [Sharers -> Clips \cup {NoClip}]]
  /\ sending \in [Sharers -> [Sharers -> Clips \cup {NoClip}]]
  /\ \A c \in Sharers : Len(jobs[c]) <= 3 * MaxWalks
  /\ at \in Sharers /\ {clipsLost, rushed} \subseteq BOOLEAN
  /\ copies \in 0..MaxCopies /\ walks \in 0..MaxWalks /\ switches \in 0..MaxSwitches

(* Both ends of a pair remember the same clip once it has arrived, so        *)
(* neither sends what the other has: a clip never goes back to the computer  *)
(* it came from and never goes twice. This takes switches that stay on,      *)
(* sessions that last and a pointer that is slower than the clips.           *)
NeverBounces ==
  ~clipsLost /\ ~rushed /\ switches = 0 =>
    \A c, p \in Sharers :
      /\ sending[c][p] # NoClip => echo[p][c] # sending[c][p]
      /\ Settled => echo[c][p] = echo[p][c]

(* The change count a Mac notes stands for the clip it wrote: a pasteboard    *)
(* found unchanged holds that clip, whatever was copied or written around it.  *)
OwnWriteIsKnown ==
  \A c \in MacSharers : written[c].count = changes[c] /\ changes[c] > 0 => board[c] = written[c].clip
=============================================================================
