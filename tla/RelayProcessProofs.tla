------------------------- MODULE RelayProcessProofs -------------------------
(***************************************************************************)
(* What RelayProcess guarantees for every number of rows and clients and   *)
(* every batch size.  RelayInvariant is inductive: whatever ends a pass, a *)
(* row it leaves behind is in the next pass, announced, or excused.        *)
(***************************************************************************)
EXTENDS RelayProcess, ListFacts, FiniteSetTheorems, TLAPS

\* While the relay is up and nothing is on its way to it, a pass that is over,
\* or about to be, leaves no row that nobody will look for.
RowsAreLookedFor == down = "up" /\ notices = NoNotices =>
    /\ pass.step = "off" => PendingRows \subseteq excused
    /\ pass.step = "publish" /\ ~pass.rerun /\ Cardinality(pass.batch) < BatchSize =>
          PendingRows \subseteq excused \cup pass.batch

\* LISTEN, or an attempt at it, goes on until the relay stops.
ListenIsKept ==
    /\ down = "up" => \/ current # NoClient \/ retryTimer
                      \/ \E c \in Clients : client[c] = "connecting"
    /\ current # NoClient => client[current] = "listening"
    /\ down # "up" => current = NoClient /\ ~retryTimer

ShutdownIsOrdered ==
    /\ down \in {"maintenance", "exit"} => pass.step = "off"
    /\ down = "exit" => schedule = "done"

RelayInvariant == RelayProcessTypeOK /\ RowsAreLookedFor /\ ListenIsKept /\ ShutdownIsOrdered
-----------------------------------------------------------------------------
\* A batch that is not full has every pending row.
LEMMA SmallBatchIsAll ==
  ASSUME Cardinality(FirstRows) < BatchSize
  PROVE  FirstRows = PendingRows
  <1> DEFINE Earlier(e) == {d \in PendingRows : d < e}
             Rest == PendingRows \ FirstRows
  <1>1. IsFiniteSet(FirstRows) /\ PendingRows \subseteq Nat /\ FirstRows \subseteq PendingRows
    BY FS_Subset, RelayProcessAssumption DEF FirstRows, PendingRows
  <1>2. ASSUME Rest # {} PROVE FALSE
    <2>1. PICK e \in Rest : \A d \in Rest : e <= d
      BY <1>1, <1>2, LeastOf
    <2>2. Earlier(e) \subseteq FirstRows
      <3>1. ASSUME NEW d \in PendingRows, d < e PROVE d \in FirstRows
        <4>1. d \in Nat /\ e \in Nat
          BY <1>1, <2>1
        <4> QED
          BY <2>1, <3>1, <4>1
      <3> QED
        BY <3>1
    <2>3. Cardinality(Earlier(e)) <= Cardinality(FirstRows)
      BY <1>1, <2>2, FS_Subset
    <2>4. ~(Cardinality(Earlier(e)) < BatchSize)
      BY <2>1 DEF FirstRows
    <2>5. Cardinality(Earlier(e)) \in Nat /\ Cardinality(FirstRows) \in Nat
      BY <1>1, <2>2, FS_Subset, FS_CardinalityType
    <2> QED
      BY <2>3, <2>4, <2>5, RelayProcessAssumption
  <1> QED
    BY <1>1, <1>2

LEMMA RelayInvariantAtStart == RelayProcessInit => RelayInvariant
  <1> SUFFICES ASSUME RelayProcessInit PROVE RelayInvariant
    OBVIOUS
  <1>1. pass = [step |-> "scan", batch |-> {}, rerun |-> FALSE]
    BY DEF RelayProcessInit, NotRunning
  <1>2. RelayProcessTypeOK
    <2>1. PICK c \in Clients : client = [x \in Clients |-> IF x = c THEN "connecting" ELSE "unmade"]
      BY DEF RelayProcessInit
    <2>2. client \in [Clients -> {"unmade", "connecting", "errored", "listening", "gone"}]
      BY <2>1
    <2>3. outbox \in [OutboxIds -> {"unwritten", "pending", "published"}]
      BY DEF RelayProcessInit
    <2>4. pass \in [step: {"off", "scan", "publish"}, batch: SUBSET OutboxIds, rerun: BOOLEAN]
      BY <1>1
    <2>5. notices \in [Clients -> Nat] /\ excused \subseteq OutboxIds
      BY DEF RelayProcessInit
    <2> QED
      BY <2>2, <2>3, <2>4, <2>5 DEF RelayProcessInit, RelayProcessTypeOK
  <1>3. RowsAreLookedFor /\ ListenIsKept /\ ShutdownIsOrdered
    BY <1>1 DEF RelayProcessInit, RowsAreLookedFor, ListenIsKept, ShutdownIsOrdered
  <1> QED
    BY <1>2, <1>3 DEF RelayInvariant

\* Every step leaves each variable in its type.
LEMMA RelayTypeIsKept == RelayInvariant /\ [RelayProcessNext]_relayVars => RelayProcessTypeOK'
  <1> SUFFICES ASSUME RelayInvariant, [RelayProcessNext]_relayVars PROVE RelayProcessTypeOK'
    OBVIOUS
  <1> USE RelayProcessAssumption DEF RelayInvariant, RelayProcessTypeOK, NotRunning, PendingRows, NoNotices
  <1>0. ASSUME Kick
        PROVE  /\ pass' \in [step: {"off", "scan", "publish"}, batch: SUBSET OutboxIds, rerun: BOOLEAN]
               /\ excused' = {}
    <2>1. \/ pass' = pass \/ pass' = [pass EXCEPT !.rerun = TRUE]
          \/ pass' = [step |-> "scan", batch |-> {}, rerun |-> FALSE]
      BY <1>0 DEF Kick
    <2> QED
      BY <1>0, <2>1 DEF Kick
  <1>1. CASE Poll
    BY <1>0, <1>1 DEF Poll
  <1>2. CASE ScanOutbox
    BY <1>2 DEF ScanOutbox, EndOfDrain, FirstRows
  <1>3. CASE PublishRows
    BY <1>3 DEF PublishRows, EndOfDrain
  <1>4. CASE PassFails
    BY <1>4 DEF PassFails
  <1>5. ASSUME NEW c \in Clients, Notified(c) PROVE RelayProcessTypeOK'
    BY <1>0, <1>5 DEF Notified
  <1>6. ASSUME NEW c \in Clients, Connected(c) PROVE RelayProcessTypeOK'
    BY <1>0, <1>6 DEF Connected
  <1>7. ASSUME NEW c \in Clients, ConnectFails(c) PROVE RelayProcessTypeOK'
    BY <1>7 DEF ConnectFails, Reconnects, Stopped
  <1>8. ASSUME NEW c \in Clients, ListenDrops(c) PROVE RelayProcessTypeOK'
    BY <1>8 DEF ListenDrops, Reconnects, Stopped
  <1>9. ASSUME NEW c \in Clients, RetryConnect(c) PROVE RelayProcessTypeOK'
    BY <1>9 DEF RetryConnect
  <1>10. CASE Scheduled \/ ScheduleAgain
    BY <1>10 DEF Scheduled, ScheduleAgain
  <1>11. CASE StopListener
    BY <1>11 DEF StopListener
  <1>12. CASE StopRelay \/ CloseMaintenance
    BY <1>12 DEF StopRelay, CloseMaintenance
  <1>13. CASE Exit
    BY <1>13 DEF Exit
  <1>14. ASSUME NEW e \in OutboxIds, Emit(e) PROVE RelayProcessTypeOK'
    <2>1. CASE Listening = {}
      BY <1>14, <2>1 DEF Emit
    <2>2. CASE Listening # {}
      <3>1. notices' = [c \in Clients |-> IF c \in Listening THEN notices[c] + 1 ELSE 0]
        BY <1>14, <2>2 DEF Emit
      <3>2. \A c \in Clients : notices[c] + 1 \in Nat
        OBVIOUS
      <3>3. notices' \in [Clients -> Nat]
        BY <3>1, <3>2
      <3> QED
        BY <1>14, <2>2, <3>3 DEF Emit
    <2> QED
      BY <2>1, <2>2
  <1>15. CASE UNCHANGED relayVars
    BY <1>15 DEF relayVars
  <1> QED
    BY <1>1, <1>2, <1>3, <1>4, <1>5, <1>6, <1>7, <1>8, <1>9, <1>10, <1>11, <1>12, <1>13, <1>14, <1>15
       DEF RelayProcessNext

\* A kick while the relay is up leaves a pass that looks at every row.
LEMMA KickedRowsAreLookedFor ==
  ASSUME RelayInvariant, Kick, down' = down
  PROVE  RowsAreLookedFor'
  <1> SUFFICES ASSUME down = "up" PROVE pass'.step # "off" /\ (pass'.step = "publish" => pass'.rerun)
    BY DEF RowsAreLookedFor
  <1>1. ~Stopping
    BY DEF Stopping
  <1>2. CASE pass.step = "off"
    BY <1>1, <1>2 DEF Kick, NotRunning
  <1>3. CASE pass.step # "off"
    <2>1. pass' = [pass EXCEPT !.rerun = TRUE]
      BY <1>1, <1>3 DEF Kick
    <2> QED
      BY <1>3, <2>1 DEF RelayInvariant, RelayProcessTypeOK
  <1> QED
    BY <1>2, <1>3

\* A row is left only to a pass, a notification or an excuse.
LEMMA RowsAreStillLookedFor ==
  RelayInvariant /\ [RelayProcessNext]_relayVars => RowsAreLookedFor'
  <1> SUFFICES ASSUME RelayInvariant, [RelayProcessNext]_relayVars PROVE RowsAreLookedFor'
    OBVIOUS
  <1>0. RelayProcessTypeOK /\ RowsAreLookedFor
    BY DEF RelayInvariant
  <1>1. CASE Poll
    BY <1>1, KickedRowsAreLookedFor DEF Poll
  <1>2. CASE ScanOutbox
    <2>1. CASE PendingRows = {}
      BY <1>2, <2>1 DEF ScanOutbox, EndOfDrain, NotRunning, RowsAreLookedFor, PendingRows
    <2>2. CASE PendingRows # {}
      <3>1. pass' = [pass EXCEPT !.step = "publish", !.batch = FirstRows]
        BY <1>2, <2>2 DEF ScanOutbox
      <3>2. pass'.step = "publish" /\ pass'.batch = FirstRows
        BY <1>0, <3>1 DEF RelayProcessTypeOK
      <3>3. PendingRows' = PendingRows
        BY <1>2 DEF ScanOutbox, PendingRows
      <3>4. Cardinality(pass'.batch) < BatchSize => pass'.batch = PendingRows
        BY <3>2, SmallBatchIsAll
      <3> QED
        BY <3>2, <3>3, <3>4 DEF RowsAreLookedFor
    <2> QED
      BY <2>1, <2>2
  <1>3. CASE PublishRows
    <2> SUFFICES ASSUME down = "up", notices = NoNotices
                 PROVE  /\ pass'.step # "publish"
                        /\ pass'.step = "off" => PendingRows' \subseteq excused
      BY <1>3 DEF PublishRows, RowsAreLookedFor
    <2>1. ~Stopping
      BY DEF Stopping
    <2>2. PendingRows' \subseteq PendingRows \ pass.batch
      BY <1>3 DEF PublishRows, PendingRows
    <2>3. CASE Cardinality(pass.batch) < BatchSize
      BY <1>0, <1>3, <2>1, <2>2, <2>3 DEF PublishRows, EndOfDrain, NotRunning, RowsAreLookedFor
    <2>4. CASE ~(Cardinality(pass.batch) < BatchSize)
      BY <1>0, <1>3, <2>1, <2>4 DEF PublishRows, RelayProcessTypeOK
    <2> QED
      BY <2>3, <2>4
  <1>4. CASE PassFails
    BY <1>4 DEF PassFails, NotRunning, RowsAreLookedFor, PendingRows
  <1>5. ASSUME NEW c \in Clients, Notified(c) PROVE RowsAreLookedFor'
    BY <1>5, KickedRowsAreLookedFor DEF Notified
  <1>6. ASSUME NEW c \in Clients, Connected(c) PROVE RowsAreLookedFor'
    <2>1. CASE Stopped
      BY <1>6, <2>1 DEF Connected, Stopped, RowsAreLookedFor
    <2>2. CASE ~Stopped
      BY <1>6, <2>2, KickedRowsAreLookedFor DEF Connected
    <2> QED
      BY <2>1, <2>2
  <1>7. ASSUME NEW c \in Clients, ListenDrops(c) PROVE RowsAreLookedFor'
    <2> SUFFICES ASSUME down = "up", notices' = NoNotices PROVE RowsAreLookedFor'
      BY <1>7 DEF ListenDrops, RowsAreLookedFor, NoNotices
    <2>1. UNCHANGED <<pass, PendingRows>>
      BY <1>7 DEF ListenDrops, PendingRows
    <2>2. CASE notices[c] > 0
      <3>1. excused' = PendingRows
        BY <1>7, <2>2 DEF ListenDrops
      <3> QED
        BY <2>1, <3>1 DEF RowsAreLookedFor
    <2>3. CASE ~(notices[c] > 0)
      <3>1. notices[c] = 0
        BY <1>0, <2>3 DEF RelayProcessTypeOK
      <3>2. notices' = notices
        BY <1>0, <1>7, <3>1 DEF ListenDrops, RelayProcessTypeOK
      <3>3. excused' = excused /\ down' = down
        BY <1>7, <2>3 DEF ListenDrops
      <3> QED
        BY <1>0, <2>1, <3>2, <3>3 DEF RowsAreLookedFor, NoNotices
    <2> QED
      BY <2>2, <2>3
  <1>8. ASSUME NEW e \in OutboxIds, Emit(e) PROVE RowsAreLookedFor'
    <2>1. PendingRows' \subseteq PendingRows \cup {e}
      BY <1>0, <1>8 DEF Emit, PendingRows, RelayProcessTypeOK
    <2>2. CASE Listening = {}
      BY <1>0, <1>8, <2>1, <2>2 DEF Emit, RowsAreLookedFor, NoNotices
    <2>3. CASE Listening # {}
      <3>1. PICK c \in Clients : c \in Listening
        BY <2>3 DEF Listening
      <3>2. notices'[c] = notices[c] + 1 /\ notices[c] \in Nat
        BY <1>0, <1>8, <2>3, <3>1 DEF Emit, RelayProcessTypeOK
      <3>3. notices' # NoNotices
        BY <3>2 DEF NoNotices
      <3> QED
        BY <3>3 DEF RowsAreLookedFor, NoNotices
    <2> QED
      BY <2>2, <2>3
  <1>9. CASE StopListener \/ StopRelay \/ CloseMaintenance \/ Exit
    BY <1>9 DEF StopListener, StopRelay, CloseMaintenance, Exit, RowsAreLookedFor
  <1>10. CASE UNCHANGED <<outbox, excused, notices, pass, down>>
    BY <1>0, <1>10 DEF RowsAreLookedFor, PendingRows, NoNotices
  <1>11. ASSUME NEW c \in Clients, ConnectFails(c) \/ RetryConnect(c)
         PROVE  UNCHANGED <<outbox, excused, notices, pass, down>>
    BY <1>11 DEF ConnectFails, RetryConnect
  <1>12. CASE Scheduled \/ ScheduleAgain
    BY <1>10, <1>12 DEF Scheduled, ScheduleAgain
  <1>13. CASE UNCHANGED relayVars
    BY <1>10, <1>13 DEF relayVars
  <1> QED
    BY <1>1, <1>2, <1>3, <1>4, <1>5, <1>6, <1>7, <1>8, <1>9, <1>10, <1>11, <1>12, <1>13
       DEF RelayProcessNext

\* Old clients' late events take nothing from the one that listens.
LEMMA ListenIsStillKept ==
  RelayInvariant /\ [RelayProcessNext]_relayVars => ListenIsKept'
  <1> SUFFICES ASSUME RelayInvariant, [RelayProcessNext]_relayVars PROVE ListenIsKept'
    OBVIOUS
  <1>0. RelayProcessTypeOK /\ ListenIsKept
    BY DEF RelayInvariant
  <1>1. ASSUME NEW c \in Clients, NEW then \in {"errored", "gone"}, Reconnects(c, then), down' = down
        PROVE  ListenIsKept'
    <2>1. CASE current \notin {NoClient, c}
      BY <1>0, <1>1, <2>1 DEF Reconnects, ListenIsKept, RelayProcessTypeOK
    <2>2. CASE current \in {NoClient, c}
      BY <1>0, <1>1, <2>2 DEF Reconnects, ListenIsKept, Stopped, RelayProcessTypeOK
    <2> QED
      BY <2>1, <2>2
  <1>2. ASSUME NEW c \in Clients, ConnectFails(c) PROVE ListenIsKept'
    BY <1>1, <1>2 DEF ConnectFails
  <1>3. ASSUME NEW c \in Clients, ListenDrops(c) PROVE ListenIsKept'
    BY <1>1, <1>3 DEF ListenDrops
  <1>4. ASSUME NEW c \in Clients, Connected(c) PROVE ListenIsKept'
    <2>1. CASE Stopped
      BY <1>0, <1>4, <2>1 DEF Connected, Stopped, ListenIsKept
    <2>2. CASE ~Stopped
      BY <1>0, <1>4, <2>2, RelayProcessAssumption
         DEF Connected, Stopped, ListenIsKept, RelayProcessTypeOK
    <2> QED
      BY <2>1, <2>2
  <1>5. ASSUME NEW c \in Clients, RetryConnect(c) PROVE ListenIsKept'
    <2>1. client'[c] = "connecting" /\ current # c
      BY <1>0, <1>5, RelayProcessAssumption DEF RetryConnect, ListenIsKept, RelayProcessTypeOK
    <2>2. current # NoClient => client'[current] = "listening"
      BY <1>0, <1>5, <2>1 DEF RetryConnect, ListenIsKept, RelayProcessTypeOK
    <2> QED
      BY <1>0, <1>5, <2>1, <2>2 DEF RetryConnect, ListenIsKept
  <1>6. CASE StopListener
    BY <1>6 DEF StopListener, ListenIsKept
  <1>7. CASE Exit
    BY <1>0, <1>7 DEF Exit, ListenIsKept
  <1>8. CASE UNCHANGED <<client, current, retryTimer>> /\ (down' = "up" <=> down = "up")
    BY <1>0, <1>8 DEF ListenIsKept
  <1>9. CASE Poll \/ (\E c \in Clients : Notified(c)) \/ \E e \in OutboxIds : Emit(e)
    BY <1>8, <1>9 DEF Poll, Notified, Emit
  <1>10. CASE ScanOutbox \/ PublishRows \/ PassFails \/ Scheduled \/ ScheduleAgain
    BY <1>8, <1>10 DEF ScanOutbox, PublishRows, PassFails, Scheduled, ScheduleAgain
  <1>11. CASE StopRelay \/ CloseMaintenance
    BY <1>8, <1>11 DEF StopRelay, CloseMaintenance
  <1>12. CASE UNCHANGED relayVars
    BY <1>8, <1>12 DEF relayVars
  <1> QED
    BY <1>2, <1>3, <1>4, <1>5, <1>6, <1>7, <1>9, <1>10, <1>11, <1>12 DEF RelayProcessNext

\* Nothing starts a pass once the relay stops, and maintenance.close waits for
\* the one that runs.
LEMMA ShutdownIsStillOrdered ==
  RelayInvariant /\ [RelayProcessNext]_relayVars => ShutdownIsOrdered'
  <1> SUFFICES ASSUME RelayInvariant, [RelayProcessNext]_relayVars PROVE ShutdownIsOrdered'
    OBVIOUS
  <1>0. ShutdownIsOrdered
    BY DEF RelayInvariant
  <1>1. ASSUME Kick, UNCHANGED <<down, schedule>> PROVE ShutdownIsOrdered'
    BY <1>0, <1>1 DEF Kick, Stopping, ShutdownIsOrdered
  <1>2. CASE UNCHANGED <<down, schedule, pass>>
    BY <1>0, <1>2 DEF ShutdownIsOrdered
  <1>3. CASE Poll \/ \E c \in Clients : Notified(c)
    BY <1>1, <1>3 DEF Poll, Notified
  <1>4. CASE ScanOutbox \/ PublishRows \/ PassFails
    BY <1>0, <1>4 DEF ScanOutbox, PublishRows, PassFails, ShutdownIsOrdered
  <1>5. ASSUME NEW c \in Clients, Connected(c) PROVE ShutdownIsOrdered'
    BY <1>1, <1>2, <1>5 DEF Connected
  <1>6. ASSUME NEW c \in Clients, ConnectFails(c) \/ ListenDrops(c) \/ RetryConnect(c)
        PROVE  ShutdownIsOrdered'
    BY <1>2, <1>6 DEF ConnectFails, ListenDrops, RetryConnect
  <1>7. ASSUME down # "exit", Scheduled \/ ScheduleAgain PROVE ShutdownIsOrdered'
    BY <1>0, <1>7 DEF Scheduled, ScheduleAgain, ShutdownIsOrdered
  <1>8. CASE StopListener \/ StopRelay \/ CloseMaintenance \/ Exit
    BY <1>0, <1>8 DEF StopListener, StopRelay, CloseMaintenance, Exit, ShutdownIsOrdered
  <1>9. ASSUME NEW e \in OutboxIds, Emit(e) PROVE ShutdownIsOrdered'
    BY <1>2, <1>9 DEF Emit
  <1>10. CASE UNCHANGED relayVars
    BY <1>2, <1>10 DEF relayVars
  <1> QED
    BY <1>3, <1>4, <1>5, <1>6, <1>7, <1>8, <1>9, <1>10 DEF RelayProcessNext
-----------------------------------------------------------------------------
\* For every batch size, every number of rows and of reconnections, whatever
\* fails: the relay's state stays well formed, every pending row is looked for
\* or excused, LISTEN is kept, and the shutdown is in order.
THEOREM RelayInvariantHolds == RelayProcessSpec => []RelayInvariant
  <1>1. RelayInvariant /\ [RelayProcessNext]_relayVars => RelayInvariant'
    BY RelayTypeIsKept, RowsAreStillLookedFor, ListenIsStillKept, ShutdownIsStillOrdered
       DEF RelayInvariant
  <1> QED
    BY RelayInvariantAtStart, <1>1, PTL DEF RelayProcessSpec

\* No row is left behind for the poll while LISTEN works, LISTEN is never given
\* up, and nothing is closed under a pass.
THEOREM WorkIsAlwaysScheduled == RelayProcessSpec => []WorkIsScheduled
  <1>1. RelayInvariant => WorkIsScheduled
    BY DEF RelayInvariant, RowsAreLookedFor, ListenIsKept, ShutdownIsOrdered, WorkIsScheduled
  <1> QED
    BY RelayInvariantHolds, <1>1, PTL
=============================================================================
