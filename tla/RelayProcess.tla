---------------------------- MODULE RelayProcess ----------------------------
(***************************************************************************)
(* What makes one relay process look at the outbox (apps/relay/src): the   *)
(* passes of OutboxRelay, the LISTEN of OutboxListener with its            *)
(* reconnections, the poll, the schedule of the maintenance jobs, and the  *)
(* shutdown of main.ts.  A batch itself is MediaPipeline's; here it takes  *)
(* pending events or fails.                                                *)
(***************************************************************************)
EXTENDS Naturals, FiniteSets

CONSTANTS
    OutboxIds,     \* rows of outbox_events that can be written
    BatchSize,     \* RELAY_BATCH_SIZE
    Clients,       \* pg.Clients that can be made: the bound of reconnections
    NoClient

ASSUME RelayProcessAssumption ==
    /\ OutboxIds \subseteq Nat /\ IsFiniteSet(OutboxIds)
    /\ BatchSize \in Nat \ {0} /\ NoClient \notin Clients

VARIABLES
    outbox,      \* per row: unwritten, pending, or published
    excused,     \* pending rows no pass is owed to: their NOTIFY was lost, or a pass failed
    notices,     \* per client, the notifications on their way to it
    pass,        \* OutboxRelay: running (off, scan, publish), its batch, rerun
    client,      \* per pg.Client: its step
    current,     \* OutboxListener.client
    retryTimer,
    schedule,    \* startMaintenance: running, waiting for 30 s, or done
    down         \* main.ts: how far the shutdown is

relayVars == <<outbox, excused, notices, pass, client, current, retryTimer, schedule, down>>

PendingRows == {e \in OutboxIds : outbox[e] = "pending"}
NotRunning == [step |-> "off", batch |-> {}, rerun |-> FALSE]
Stopped == down # "up"                                     \* OutboxListener
Stopping == down \notin {"up", "listener"}                 \* OutboxRelay

RelayProcessTypeOK ==
    /\ outbox \in [OutboxIds -> {"unwritten", "pending", "published"}]
    /\ excused \subseteq OutboxIds /\ notices \in [Clients -> Nat]
    /\ pass \in [step: {"off", "scan", "publish"}, batch: SUBSET OutboxIds, rerun: BOOLEAN]
    /\ client \in [Clients -> {"unmade", "connecting", "errored", "listening", "gone"}]
    /\ current \in Clients \cup {NoClient}
    /\ retryTimer \in BOOLEAN
    /\ schedule \in {"running", "waiting", "done"}
    /\ down \in {"up", "listener", "relay", "maintenance", "exit"}

\* relay.start kicks; listener.start connects.
RelayProcessInit ==
    /\ outbox \in [OutboxIds -> {"unwritten", "pending"}]
    /\ excused = {} /\ notices = [c \in Clients |-> 0]
    /\ pass = [NotRunning EXCEPT !.step = "scan"]
    /\ \E c \in Clients : client = [x \in Clients |-> IF x = c THEN "connecting" ELSE "unmade"]
    /\ current = NoClient /\ retryTimer = FALSE
    /\ schedule = "running"
    /\ down = "up"
-----------------------------------------------------------------------------
(* OutboxRelay. *)

\* kick: a pass that is running will be repeated.
Kick ==
    /\ excused' = {}
    /\ pass' = CASE Stopping -> pass
                 [] ~Stopping /\ pass.step = "off" -> [NotRunning EXCEPT !.step = "scan"]
                 [] OTHER -> [pass EXCEPT !.rerun = TRUE]

Poll ==
    /\ ~Stopping
    /\ Kick
    /\ UNCHANGED <<outbox, notices, client, current, retryTimer, schedule, down>>

\* The SELECT of a batch; the loop ends when it finds less than a batch, after
\* it is published, unless somebody kicked.
FirstRows == {e \in PendingRows : Cardinality({d \in PendingRows : d < e}) < BatchSize}

\* Mutant: the kicks during a pass are forgotten.
EndOfPass(p) == [p EXCEPT !.step = "off", !.batch = {}, !.rerun = FALSE]

EndOfDrain(p) == IF p.rerun /\ ~Stopping THEN [NotRunning EXCEPT !.step = "scan"] ELSE NotRunning

ScanOutbox ==
    /\ pass.step = "scan"
    /\ pass' = IF PendingRows = {} THEN EndOfDrain(pass)
               ELSE [pass EXCEPT !.step = "publish", !.batch = FirstRows]
    /\ UNCHANGED <<outbox, excused, notices, client, current, retryTimer, schedule, down>>

PublishRows ==
    /\ pass.step = "publish"
    /\ outbox' = [e \in OutboxIds |-> IF e \in pass.batch THEN "published" ELSE outbox[e]]
    /\ pass' = IF Cardinality(pass.batch) < BatchSize \/ Stopping THEN EndOfDrain(pass)
               ELSE [pass EXCEPT !.step = "scan", !.batch = {}]
    /\ UNCHANGED <<excused, notices, client, current, retryTimer, schedule, down>>

\* Redis or the database refuses: the pass is over, kicked or not; what is
\* pending waits for the next notification or poll.
PassFails ==
    /\ pass.step # "off"
    /\ pass' = NotRunning
    /\ excused' = PendingRows
    /\ UNCHANGED <<outbox, notices, client, current, retryTimer, schedule, down>>
-----------------------------------------------------------------------------
(* OutboxListener. *)

NoNotices == [c \in Clients |-> 0]
Listening == {c \in Clients : client[c] = "listening"}

\* The commit of an event, with its NOTIFY.
Emit(e) ==
    /\ outbox[e] = "unwritten"
    /\ outbox' = [outbox EXCEPT ![e] = "pending"]
    /\ IF Listening = {} THEN excused' = excused \cup {e} /\ UNCHANGED notices
       ELSE /\ notices' = [c \in Clients |-> IF c \in Listening THEN notices[c] + 1 ELSE 0]
            /\ UNCHANGED excused
    /\ UNCHANGED <<pass, client, current, retryTimer, schedule, down>>

Notified(c) ==
    /\ notices[c] > 0 /\ notices' = [notices EXCEPT ![c] = @ - 1]
    /\ Kick
    /\ UNCHANGED <<outbox, client, current, retryTimer, schedule, down>>

\* connect, once LISTEN is answered.
Connected(c) ==
    /\ client[c] = "connecting"
    /\ IF Stopped
       THEN /\ client' = [client EXCEPT ![c] = "gone"]
            /\ UNCHANGED <<pass, excused, current>>
       ELSE /\ client' = [client EXCEPT ![c] = "listening"]
            /\ current' = c
            /\ Kick
    /\ UNCHANGED <<outbox, notices, retryTimer, schedule, down>>

\* reconnect, for a client that is to be in state `then`.
Reconnects(c, then) ==
    /\ client' = [client EXCEPT ![c] = then]
    /\ IF current \notin {NoClient, c} THEN UNCHANGED <<current, retryTimer>>
       ELSE /\ current' = NoClient
            /\ retryTimer' = (retryTimer \/ ~Stopped)

\* The connection fails: by its 'error', with the rejection of connect still
\* to come, or by the rejection alone.
ConnectFails(c) ==
    /\ client[c] \in {"connecting", "errored"}
    /\ \E then \in {"errored", "gone"} :
         /\ client[c] = "errored" => then = "gone"
         /\ Reconnects(c, then)
    /\ UNCHANGED <<outbox, excused, notices, pass, schedule, down>>

\* 'error' or 'end' of a client that listens: the notifications on their way
\* are lost.
ListenDrops(c) ==
    /\ client[c] = "listening"
    /\ Reconnects(c, "gone")
    /\ notices' = [notices EXCEPT ![c] = 0]
    /\ excused' = IF notices[c] > 0 /\ notices' = NoNotices THEN PendingRows ELSE excused
    /\ UNCHANGED <<outbox, pass, schedule, down>>

\* Its timer, after 1 to 30 s: another client.
RetryConnect(c) ==
    /\ retryTimer /\ client[c] = "unmade"
    /\ retryTimer' = FALSE
    /\ client' = [client EXCEPT ![c] = "connecting"]
    /\ UNCHANGED <<outbox, excused, notices, pass, current, schedule, down>>
-----------------------------------------------------------------------------
(* startMaintenance and shutdown. *)

Scheduled ==
    /\ schedule = "running"
    /\ schedule' \in {"done", IF down = "maintenance" THEN "done" ELSE "waiting"}
    /\ UNCHANGED <<outbox, excused, notices, pass, client, current, retryTimer, down>>

ScheduleAgain ==
    /\ schedule = "waiting" /\ schedule' = "running"
    /\ UNCHANGED <<outbox, excused, notices, pass, client, current, retryTimer, down>>

\* SIGTERM: listener.stop, then relay.stop, which waits for the pass, then
\* maintenance.close and the connections.
StopListener ==
    /\ down = "up" /\ down' = "listener"
    /\ retryTimer' = FALSE /\ current' = NoClient
    /\ client' = [c \in Clients |-> IF c = current THEN "gone" ELSE client[c]]
    /\ notices' = [c \in Clients |-> IF c = current THEN 0 ELSE notices[c]]
    /\ UNCHANGED <<outbox, excused, pass, schedule>>

StopRelay ==
    /\ down = "listener" /\ down' = "relay"
    /\ UNCHANGED <<outbox, excused, notices, pass, client, current, retryTimer, schedule>>

CloseMaintenance ==
    /\ down = "relay" /\ pass.step = "off"
    /\ down' = "maintenance"
    /\ schedule' = IF schedule = "waiting" THEN "done" ELSE schedule
    /\ UNCHANGED <<outbox, excused, notices, pass, client, current, retryTimer>>

Exit ==
    /\ down = "maintenance" /\ down' = "exit"
    /\ client' = [c \in Clients |-> IF client[c] = "unmade" THEN "unmade" ELSE "gone"]
    /\ notices' = NoNotices /\ schedule' = "done"
    /\ UNCHANGED <<outbox, excused, pass, current, retryTimer>>

RelayProcessNext ==
    \/ /\ down # "exit"
       /\ \/ Poll \/ ScanOutbox \/ PublishRows \/ PassFails
          \/ \E c \in Clients :
               Notified(c) \/ Connected(c) \/ ConnectFails(c) \/ ListenDrops(c) \/ RetryConnect(c)
          \/ Scheduled \/ ScheduleAgain
          \/ StopListener \/ StopRelay \/ CloseMaintenance \/ Exit
    \/ \E e \in OutboxIds : Emit(e)

RelayProcessSpec == RelayProcessInit /\ [][RelayProcessNext]_relayVars
-----------------------------------------------------------------------------
(* Properties. *)

\* Without waiting for the poll, no row is left behind: while no pass runs, a
\* pending row has its notification on the way, unless LISTEN was down or a
\* pass failed since (kick's rerun, onNotify on reconnecting).  LISTEN is not
\* given up, whatever events of old clients come late; and the connections are
\* closed with no pass running and no job left to schedule.
WorkIsScheduled ==
    /\ down = "up" /\ pass.step = "off" /\ notices = NoNotices => PendingRows \subseteq excused
    /\ down = "up" => \/ current # NoClient \/ retryTimer
                      \/ \E c \in Clients : client[c] = "connecting"
    /\ current # NoClient => client[current] = "listening"
    /\ down = "exit" => pass.step = "off" /\ schedule = "done" /\ ~retryTimer
=============================================================================
