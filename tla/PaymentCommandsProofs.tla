----------------------- MODULE PaymentCommandsProofs -----------------------
(***************************************************************************)
(* What holds of every number of commands, handlers, attempts, crashes and  *)
(* redeliveries: an operation is recorded with its event and after the      *)
(* provider acted, a failure after it was reported; and, with a provider    *)
(* that answers and without crashes, repeated deliveries pay once.          *)
(***************************************************************************)
EXTENDS PaymentCommands, OutboxProofs

Owing == {"calling", "failing", "closing", "saving"}

\* What the place x of a handler says of the rows and of the provider: a row it
\* inserted is not committed, and one it did not insert it has found.
Sound(x) ==
  /\ x.cmd \in sent
  /\ x.at \in {"waiting", "calling"} => x.tries < Attempts
  /\ x.inserted => op[x.cmd] = "none"
  /\ ~x.inserted /\ x.at \in Owing => op[x.cmd] # "none"
  /\ x.at = "saving" => executed[x.cmd] > 0
  /\ x.at = "closing" => x.cmd \in dlq

AllSound == \A s \in Sessions : Busy(s) => Sound(sess[s])

\* The UNIQUE key: one uncommitted row for a command.
RowAlone ==
  \A s, t \in Sessions :
    Busy(s) /\ Busy(t) /\ sess[s].inserted /\ sess[t].inserted
      /\ sess[s].cmd = sess[t].cmd => s = t

CommandInv ==
  TypeOK /\ OutcomeRecorded /\ FailureReported /\ AllSound /\ RowAlone

IInv == OutboxInv /\ CommandInv

LEMMA InitHolds == Init => IInv
<1>1. Init => OutboxInv
  BY OutboxInitHolds DEF Init
<1>2. Init => CommandInv
  BY <1>1, CommandsAssumption
  DEF Init, OutboxInit, CommandInv, TypeOK, OutboxInv, OutcomeRecorded,
      FailureReported, AllSound, RowAlone, Busy
<1> QED
  BY <1>1, <1>2 DEF IInv

\* The record of a handler that is busy.
LEMMA BusyIsSession ==
  ASSUME TypeOK, NEW s \in Sessions, Busy(s)
  PROVE  sess[s] \in Session
  BY DEF TypeOK, Busy, Session

\* A handler moves on to S while the rows stay as they are: what has to be
\* seen is that S is sound, and that a row it has inserted is its own.
LEMMA HandlerMoves ==
  ASSUME IInv, NEW s \in Sessions, NEW S \in {None} \cup Session,
         sess' = [sess EXCEPT ![s] = S],
         OutboxInv', Absent' = Absent,
         UNCHANGED <<op, invoices, sent>>,
         queue' \subseteq sent,
         executed' \in [Cmds -> Nat], \A c \in Cmds : executed'[c] >= executed[c],
         dlq \subseteq dlq', dlq' \subseteq Cmds,
         crashes' \in 0 .. MaxCrashes, redeliveries' \in 0 .. MaxRedeliveries,
         S # None => Sound(S)',
         S # None /\ S.inserted =>
           \A t \in Sessions \ {s} :
             ~(Busy(t) /\ sess[t].cmd = S.cmd /\ sess[t].inserted)
  PROVE  IInv'
<1>1. sess'[s] = S /\ \A t \in Sessions \ {s} : sess'[t] = sess[t]
  BY DEF IInv, CommandInv, TypeOK
<1>2. TypeOK'
  BY DEF IInv, CommandInv, TypeOK, OutboxInv, Session
<1>3. OutcomeRecorded'
  <2>1. \A c \in Cmds : outbox'[c] = "absent" <=> outbox[c] = "absent"
    BY CommandsAssumption DEF Absent
  <2> QED
    BY <2>1 DEF IInv, CommandInv, TypeOK, OutcomeRecorded
<1>4. FailureReported'
  BY DEF IInv, CommandInv, FailureReported
<1>5. AllSound'
  <2> SUFFICES ASSUME NEW t \in Sessions, Busy(t)' PROVE Sound(sess[t])'
    BY DEF AllSound
  <2>1. CASE t = s
    BY <1>1, <2>1 DEF Busy
  <2>2. CASE t # s
    <3>1. Busy(t) /\ Sound(sess[t]) /\ sess[t] \in Session
      BY <1>1, <2>2, BusyIsSession DEF Busy, IInv, CommandInv, AllSound
    <3> QED
      BY <1>1, <2>2, <3>1 DEF Sound, Session, IInv, CommandInv, TypeOK
  <2> QED
    BY <2>1, <2>2
<1>6. RowAlone'
  BY <1>1 DEF RowAlone, Busy, IInv, CommandInv
<1> QED
  BY <1>2, <1>3, <1>4, <1>5, <1>6 DEF IInv, CommandInv

\* The same for a handler that keeps its command and its row.
LEMMA HandlerGoesOn ==
  ASSUME IInv, NEW s \in Sessions, Busy(s), NEW S \in {None} \cup Session,
         sess' = [sess EXCEPT ![s] = S],
         OutboxInv', Absent' = Absent,
         UNCHANGED <<op, invoices, sent>>,
         queue' \subseteq sent,
         executed' \in [Cmds -> Nat], \A c \in Cmds : executed'[c] >= executed[c],
         dlq \subseteq dlq', dlq' \subseteq Cmds,
         crashes' \in 0 .. MaxCrashes, redeliveries' \in 0 .. MaxRedeliveries,
         S # None =>
           /\ S.cmd = sess[s].cmd /\ S.inserted = sess[s].inserted
           /\ S.at \in Owing => sess[s].at \in Owing
           /\ S.at \in {"waiting", "calling"} => S.tries < Attempts
           /\ S.at = "saving" => executed'[S.cmd] > 0
           /\ S.at = "closing" => S.cmd \in dlq'
  PROVE  IInv'
<1>1. Sound(sess[s]) /\ sess[s] \in Session
  BY BusyIsSession DEF IInv, CommandInv, AllSound
<1>2. S # None => Sound(S)'
  BY <1>1 DEF Sound, Session
<1>3. S # None /\ S.inserted =>
        \A t \in Sessions \ {s} :
          ~(Busy(t) /\ sess[t].cmd = S.cmd /\ sess[t].inserted)
  BY <1>1 DEF IInv, CommandInv, RowAlone
<1> QED
  BY <1>2, <1>3, HandlerMoves

\* What a step leaves alone that is not about commands.
LEMMA CallersFrame ==
  ASSUME IInv
  PROVE  /\ queue \subseteq sent /\ sent \subseteq Cmds
         /\ executed \in [Cmds -> Nat] /\ dlq \subseteq Cmds
         /\ crashes \in 0 .. MaxCrashes /\ redeliveries \in 0 .. MaxRedeliveries
         /\ OutboxInv
  BY DEF IInv, CommandInv, TypeOK

LEMMA SendKeeps ==
  ASSUME IInv, NEW c \in Cmds, Send(c) PROVE IInv'
<1>1. OutboxInv' /\ Absent' = Absent
  BY FrameKeeps DEF IInv, Send
<1>2. TypeOK' /\ AllSound'
  BY <1>1 DEF IInv, CommandInv, TypeOK, Send, OutboxInv, AllSound, Sound, Busy
<1>3. OutcomeRecorded' /\ FailureReported' /\ RowAlone'
  BY DEF IInv, CommandInv, Send, OutcomeRecorded, FailureReported, RowAlone,
         Busy, outboxVars
<1> QED
  BY <1>1, <1>2, <1>3 DEF IInv, CommandInv

LEMMA DuplicateKeeps ==
  ASSUME IInv, NEW s \in Sessions, NEW c \in Cmds, Duplicate(s, c) PROVE IInv'
<1>1. OutboxInv' /\ Absent' = Absent
  BY FrameKeeps DEF IInv, Duplicate
<1>2. TypeOK' /\ AllSound'
  BY <1>1 DEF IInv, CommandInv, TypeOK, Duplicate, OutboxInv, AllSound, Sound,
              Busy
<1>3. OutcomeRecorded' /\ FailureReported' /\ RowAlone'
  BY DEF IInv, CommandInv, Duplicate, OutcomeRecorded, FailureReported,
         RowAlone, Busy, outboxVars
<1> QED
  BY <1>1, <1>2, <1>3 DEF IInv, CommandInv

LEMMA ReceiveKeeps ==
  ASSUME IInv, NEW s \in Sessions, NEW c \in Cmds, Receive(s, c) PROVE IInv'
<1>1. OutboxInv' /\ Absent' = Absent
  BY FrameKeeps DEF IInv, Receive
<1> DEFINE first == op[c] = "none" /\ ~Inserting(c)
           place == IF op[c] = "none" /\ Inserting(c)
                    THEN "waiting" ELSE "calling"
           X == [cmd |-> c, tries |-> 0, owns |-> TRUE, inserted |-> first,
                 at |-> place]
<1>2. PICK S : S = X
  OBVIOUS
<1>3. /\ S \in Session /\ S.cmd = c /\ S.tries = 0
      /\ S.inserted = first /\ S.at = place
  <2>1. first \in BOOLEAN /\ place \in Places
    BY DEF Inserting, Places
  <2>2. 0 \in 0 .. Attempts
    BY CommandsAssumption
  <2> HIDE DEF first, place
  <2> QED
    BY <1>2, <2>1, <2>2 DEF Session
<1>4. sess' = [sess EXCEPT ![s] = S]
  BY <1>2 DEF Receive
<1> HIDE DEF X
<1>5. Sound(S)'
  <2>1. /\ op' = op /\ sent' = sent /\ dlq' = dlq /\ executed' = executed
        /\ c \in sent /\ 0 < Attempts
    BY CallersFrame, CommandsAssumption DEF Receive
  <2>2. /\ S.inserted => op[c] = "none"
        /\ ~S.inserted /\ S.at \in Owing => op[c] # "none"
        /\ S.at # "saving" /\ S.at # "closing"
    BY <1>3 DEF Owing, Inserting
  <2> HIDE DEF first, place
  <2> QED
    BY <1>3, <2>1, <2>2 DEF Sound
<1>6. S.inserted =>
        \A t \in Sessions \ {s} :
          ~(Busy(t) /\ sess[t].cmd = S.cmd /\ sess[t].inserted)
  BY <1>3 DEF Inserting
<1>7. /\ UNCHANGED <<op, invoices, sent>>
      /\ queue' \subseteq sent
      /\ executed' \in [Cmds -> Nat] /\ \A d \in Cmds : executed'[d] >= executed[d]
      /\ dlq \subseteq dlq' /\ dlq' \subseteq Cmds
      /\ crashes' \in 0 .. MaxCrashes /\ redeliveries' \in 0 .. MaxRedeliveries
  BY CallersFrame DEF Receive
<1>8. S \in {None} \cup Session
  BY <1>3
<1> QED
  BY <1>1, <1>4, <1>5, <1>6, <1>7, <1>8, HandlerMoves

LEMMA EndWaitKeeps ==
  ASSUME IInv, NEW s \in Sessions, EndWait(s) PROVE IInv'
<1>1. OutboxInv' /\ Absent' = Absent
  BY FrameKeeps DEF IInv, EndWait
<1>2. /\ UNCHANGED <<op, invoices, sent>>
      /\ queue' \subseteq sent
      /\ executed' \in [Cmds -> Nat] /\ \A d \in Cmds : executed'[d] >= executed[d]
      /\ dlq \subseteq dlq' /\ dlq' \subseteq Cmds
      /\ crashes' \in 0 .. MaxCrashes /\ redeliveries' \in 0 .. MaxRedeliveries
  BY CallersFrame DEF EndWait
<1>3. Busy(s) /\ sess[s] \in Session /\ sess[s].at = "waiting" /\ Sound(sess[s])
  BY BusyIsSession DEF EndWait, At, IInv, CommandInv, AllSound
<1>4. PICK S : S = IF op[sess[s].cmd] = "none"
                   THEN [sess[s] EXCEPT !.at = "calling", !.inserted = TRUE]
                   ELSE None
  OBVIOUS
<1>5. sess' = [sess EXCEPT ![s] = S]
  BY <1>4 DEF EndWait
<1>6. CASE op[sess[s].cmd] # "none"
  BY <1>1, <1>2, <1>4, <1>5, <1>6, HandlerMoves
<1>7. CASE op[sess[s].cmd] = "none"
  <2>1. /\ S \in Session /\ S.cmd = sess[s].cmd /\ S.tries = sess[s].tries
        /\ S.inserted = TRUE /\ S.at = "calling"
    BY <1>3, <1>4, <1>7 DEF Session, Places
  <2>2. Sound(S)'
    BY <1>2, <1>3, <1>7, <2>1 DEF Sound
  <2>3. \A t \in Sessions \ {s} :
          ~(Busy(t) /\ sess[t].cmd = S.cmd /\ sess[t].inserted)
    BY <2>1 DEF EndWait, Inserting
  <2>4. S \in {None} \cup Session
    BY <2>1
  <2> QED
    BY <1>1, <1>2, <1>5, <2>2, <2>3, <2>4, HandlerMoves
<1> QED
  BY <1>6, <1>7

\* A provider call that timed out is repeated or given up.
LEMMA RetriedIs ==
  ASSUME TypeOK, NEW s \in Sessions, At(s, "calling"), Sound(sess[s])
  PROVE  /\ Retried(s) \in Session
         /\ Retried(s).cmd = sess[s].cmd
         /\ Retried(s).inserted = sess[s].inserted
         /\ \/ Retried(s).at = "failing"
            \/ Retried(s).at = "calling" /\ Retried(s).tries < Attempts
<1>1. sess[s] \in Session /\ sess[s].at = "calling" /\ sess[s].tries < Attempts
  BY BusyIsSession DEF At, Sound
<1>2. sess[s].tries \in Nat /\ Attempts \in Nat
  BY <1>1, CommandsAssumption DEF Session
<1>3. CASE sess[s].tries + 1 = Attempts
  BY <1>1, <1>3 DEF Retried, Session, Places
<1>4. CASE sess[s].tries + 1 # Attempts
  <2>1. sess[s].tries + 1 \in 0 .. Attempts /\ sess[s].tries + 1 < Attempts
    BY <1>1, <1>2, <1>4
  <2> QED
    BY <1>1, <1>4, <2>1 DEF Retried, Session
<1> QED
  BY <1>3, <1>4

\* A step of a handler on its way, to a place of the same command.
LEMMA WayKeeps ==
  ASSUME IInv, NEW s \in Sessions,
         \/ Reject(s) \/ ProviderAccepts(s) \/ ProviderRefuses(s)
         \/ ProviderUnreachable(s) \/ ReportFailure(s) \/ DeadLetterLost(s)
         \/ CommitConflicts(s) \/ HandlerRaises(s)
  PROVE  IInv'
<1>1. OutboxInv' /\ Absent' = Absent
  BY FrameKeeps DEF IInv, Reject, ProviderAccepts, ProviderRefuses,
     ProviderUnreachable, ReportFailure, DeadLetterLost, CommitConflicts,
     HandlerRaises
<1>2. /\ UNCHANGED <<op, invoices, sent, queue, crashes, redeliveries>>
      /\ queue' \subseteq sent
      /\ crashes' \in 0 .. MaxCrashes /\ redeliveries' \in 0 .. MaxRedeliveries
  BY CallersFrame DEF Reject, ProviderAccepts, ProviderRefuses,
     ProviderUnreachable, ReportFailure, DeadLetterLost, CommitConflicts,
     HandlerRaises
<1>3. Busy(s) /\ sess[s] \in Session /\ Sound(sess[s]) /\ sess[s].at \in Owing
  BY BusyIsSession
  DEF IInv, CommandInv, AllSound, At, Owing, Reject, ProviderAccepts,
      ProviderRefuses, ProviderUnreachable, ReportFailure, DeadLetterLost,
      CommitConflicts, HandlerRaises
<1>4. ASSUME UNCHANGED <<executed, dlq>>, At(s, "calling"), Goto(s, "failing")
      PROVE  IInv'
  <2>1. PICK S : S = [sess[s] EXCEPT !.at = "failing"]
    OBVIOUS
  <2>2. /\ S \in Session /\ S.cmd = sess[s].cmd /\ S.inserted = sess[s].inserted
        /\ S.at = "failing" /\ sess' = [sess EXCEPT ![s] = S]
    BY <1>3, <1>4, <2>1 DEF Session, Places, Goto
  <2>3. /\ executed' \in [Cmds -> Nat]
        /\ \A d \in Cmds : executed'[d] >= executed[d]
        /\ dlq \subseteq dlq' /\ dlq' \subseteq Cmds
    BY <1>4, CallersFrame
  <2>4. S \in {None} \cup Session /\ sess[s].at \in Owing
    BY <1>3, <2>2
  <2> QED
    BY <1>1, <1>2, <1>3, <2>2, <2>3, <2>4, HandlerGoesOn
<1>5. ASSUME At(s, "calling"), sess' = [sess EXCEPT ![s] = Retried(s)],
             executed' \in [Cmds -> Nat],
             \A d \in Cmds : executed'[d] >= executed[d], dlq' = dlq
      PROVE  IInv'
  <2>1. /\ Retried(s) \in Session
        /\ Retried(s).cmd = sess[s].cmd
        /\ Retried(s).inserted = sess[s].inserted
        /\ \/ Retried(s).at = "failing"
           \/ Retried(s).at = "calling" /\ Retried(s).tries < Attempts
    BY <1>3, <1>5, RetriedIs DEF IInv, CommandInv
  <2>2. PICK S \in Session :
          /\ S = Retried(s)
          /\ S.cmd = sess[s].cmd /\ S.inserted = sess[s].inserted
          /\ \/ S.at = "failing"
             \/ S.at = "calling" /\ S.tries < Attempts
    BY <2>1, Zenon
  <2>3. dlq \subseteq dlq' /\ dlq' \subseteq Cmds
    BY <1>5, CallersFrame
  <2>4. /\ S \in {None} \cup Session
        /\ S.at # "saving" /\ S.at # "closing"
        /\ S.at \in {"waiting", "calling"} => S.tries < Attempts
        /\ sess' = [sess EXCEPT ![s] = S]
    BY <1>5, <2>2
  <2>5. /\ executed' \in [Cmds -> Nat]
        /\ \A d \in Cmds : executed'[d] >= executed[d]
    BY <1>5
  <2> QED
    BY <1>1, <1>2, <1>3, <2>2, <2>3, <2>4, <2>5, HandlerGoesOn
<1>6. ASSUME dlq' = dlq, executed' \in [Cmds -> Nat],
             \A d \in Cmds : executed'[d] >= executed[d],
             sess' = [sess EXCEPT ![s] = None]
      PROVE  IInv'
  <2>1. dlq \subseteq dlq' /\ dlq' \subseteq Cmds
    BY <1>6, CallersFrame
  <2>2. None \in {None} \cup Session
    OBVIOUS
  <2>3. PICK S : S = None
    OBVIOUS
  <2> QED
    BY <1>1, <1>2, <1>3, <1>6, <2>1, <2>2, <2>3, HandlerGoesOn
<1>7. CASE ProviderAccepts(s)
  <2>1. sess[s].cmd \in Cmds
    BY <1>3 DEF Session
  <2>2. /\ executed' \in [Cmds -> Nat] /\ executed'[sess[s].cmd] > 0
        /\ \A d \in Cmds : executed'[d] >= executed[d]
        /\ dlq' = dlq /\ At(s, "calling")
    BY <1>7, <2>1, CallersFrame DEF ProviderAccepts
  <2>3. CASE Goto(s, "saving")
    <3>1. PICK S : S = [sess[s] EXCEPT !.at = "saving"]
      OBVIOUS
    <3>2. /\ S \in Session /\ S.cmd = sess[s].cmd
          /\ S.inserted = sess[s].inserted
          /\ S.at = "saving" /\ sess' = [sess EXCEPT ![s] = S]
      BY <1>3, <2>3, <3>1 DEF Session, Places, Goto
    <3> QED
      BY <1>1, <1>2, <1>3, <2>2, <3>2, CallersFrame, HandlerGoesOn
  <2>4. CASE sess' = [sess EXCEPT ![s] = Retried(s)]
    BY <1>5, <2>2, <2>4
  <2> QED
    BY <1>7, <2>3, <2>4 DEF ProviderAccepts
<1>8. CASE ReportFailure(s)
  <2>1. PICK S : S = [sess[s] EXCEPT !.at = "closing"]
    OBVIOUS
  <2>2. /\ S \in Session /\ S.cmd = sess[s].cmd /\ S.inserted = sess[s].inserted
        /\ S.at = "closing" /\ sess' = [sess EXCEPT ![s] = S]
    BY <1>3, <1>8, <2>1 DEF Session, Places, Goto, ReportFailure
  <2>3. /\ dlq \subseteq dlq' /\ S.cmd \in dlq' /\ dlq' \subseteq Cmds
        /\ executed' \in [Cmds -> Nat]
        /\ \A d \in Cmds : executed'[d] >= executed[d]
    BY <1>3, <1>8, <2>2, CallersFrame DEF ReportFailure, Session
  <2>4. S \in {None} \cup Session
    BY <2>2
  <2> QED
    BY <1>1, <1>2, <1>3, <2>2, <2>3, <2>4, HandlerGoesOn
<1>9. CASE Reject(s) \/ ProviderRefuses(s)
  BY <1>4, <1>9 DEF Reject, ProviderRefuses
<1>10. CASE ProviderUnreachable(s)
  BY <1>5, <1>10, CallersFrame DEF ProviderUnreachable
<1>11. CASE DeadLetterLost(s) \/ CommitConflicts(s)
  BY <1>6, <1>11, CallersFrame DEF DeadLetterLost, CommitConflicts
<1>12. CASE HandlerRaises(s)
  <2>1. sess[s].cmd \in Cmds
    BY <1>3 DEF Session
  <2>2. /\ executed' \in [Cmds -> Nat]
        /\ \A d \in Cmds : executed'[d] >= executed[d]
    BY <1>12, <2>1, CallersFrame DEF HandlerRaises
  <2>3. dlq' = dlq /\ sess' = [sess EXCEPT ![s] = None]
    BY <1>12 DEF HandlerRaises
  <2> QED
    BY <1>6, <2>2, <2>3
<1> QED
  BY <1>7, <1>8, <1>9, <1>10, <1>11, <1>12

LEMMA SweepOutboxKeeps ==
  ASSUME IInv, NEW s \in Sessions, SweepOutbox(s) PROVE IInv'
<1>1. Busy(s) /\ sess[s] \in Session /\ s \in Sweepers
  BY BusyIsSession, CommandsAssumption
  DEF IInv, CommandInv, SweepOutbox, Sweep, At
<1>2. OutboxInv' /\ Absent' = Absent
  BY <1>1, SweepKeeps DEF IInv, SweepOutbox, Sweep, SweepStep
<1>3. /\ UNCHANGED <<op, invoices, sent>>
      /\ queue' \subseteq sent
      /\ executed' \in [Cmds -> Nat] /\ \A d \in Cmds : executed'[d] >= executed[d]
      /\ dlq \subseteq dlq' /\ dlq' \subseteq Cmds
      /\ crashes' \in 0 .. MaxCrashes /\ redeliveries' \in 0 .. MaxRedeliveries
  BY CallersFrame DEF SweepOutbox
<1>4. PICK S \in {None} \cup Session :
        /\ sess' = [sess EXCEPT ![s] = S]
        /\ S # None => /\ S.cmd = sess[s].cmd /\ S.inserted = sess[s].inserted
                       /\ S.at \in {"sweeping"}
  <2>1. CASE Goto(s, "sweeping")
    <3> DEFINE X == [sess[s] EXCEPT !.at = "sweeping"]
    <3>1. /\ X \in Session /\ X.cmd = sess[s].cmd
          /\ X.inserted = sess[s].inserted /\ X.at = "sweeping"
      BY <1>1 DEF Session, Places
    <3>2. sess' = [sess EXCEPT ![s] = X]
      BY <2>1 DEF Goto
    <3> QED
      BY <3>1, <3>2
  <2>2. CASE UNCHANGED sess /\ sess[s].at = "sweeping"
    BY <1>1, <2>2 DEF IInv, CommandInv, TypeOK
  <2>3. CASE sess' = [sess EXCEPT ![s] = None]
    BY <2>3
  <2> QED
    BY <2>1, <2>2, <2>3 DEF SweepOutbox, Sweep, At
<1>5. S # None =>
        /\ S.at \in Owing => sess[s].at \in Owing
        /\ S.at \in {"waiting", "calling"} => S.tries < Attempts
        /\ S.at # "saving" /\ S.at # "closing"
  BY <1>4 DEF Owing
<1> QED
  BY <1>1, <1>2, <1>3, <1>4, <1>5, HandlerGoesOn

LEMMA RedeliverKeeps ==
  ASSUME IInv, NEW s \in Sessions, Redeliver(s) PROVE IInv'
<1>1. Busy(s) /\ sess[s] \in Session /\ Sound(sess[s])
  BY BusyIsSession DEF IInv, CommandInv, AllSound, Redeliver
<1>2. OutboxInv' /\ Absent' = Absent
  BY FrameKeeps DEF IInv, Redeliver
<1>3. /\ UNCHANGED <<op, invoices, sent>>
      /\ queue' \subseteq sent
      /\ executed' \in [Cmds -> Nat] /\ \A d \in Cmds : executed'[d] >= executed[d]
      /\ dlq \subseteq dlq' /\ dlq' \subseteq Cmds
      /\ crashes' \in 0 .. MaxCrashes
  BY <1>1, CallersFrame DEF Redeliver, Sound
<1>4. redeliveries' \in 0 .. MaxRedeliveries
  BY CallersFrame, CommandsAssumption DEF Redeliver
<1>5. PICK S : S = [sess[s] EXCEPT !.owns = FALSE]
  OBVIOUS
<1>6. /\ S \in Session /\ S.cmd = sess[s].cmd /\ S.inserted = sess[s].inserted
      /\ S.at = sess[s].at /\ S.tries = sess[s].tries
      /\ sess' = [sess EXCEPT ![s] = S]
  BY <1>1, <1>5 DEF Session, Redeliver
<1>7. /\ S \in {None} \cup Session
      /\ S.at \in {"waiting", "calling"} => S.tries < Attempts
      /\ S.at = "saving" => executed'[S.cmd] > 0
      /\ S.at = "closing" => S.cmd \in dlq'
  BY <1>1, <1>6 DEF Sound, Redeliver
<1> QED
  BY <1>1, <1>2, <1>3, <1>4, <1>6, <1>7, HandlerGoesOn

\* The commit of an outcome of command c by the handler that may store it.
LEMMA CommitKeeps ==
  ASSUME IInv, NEW s \in Sessions, Busy(s), NEW S \in {None} \cup Session,
         NEW c \in Cmds, NEW o \in {"failed", "succeeded"},
         c = sess[s].cmd,
         op' = [op EXCEPT ![c] = o],
         sess' = [sess EXCEPT ![s] = S],
         UNCHANGED <<sent, queue, executed, dlq, crashes, redeliveries>>,
         OutboxInv', OutcomeRecorded', invoices' \subseteq Cmds,
         o = "failed" => c \in dlq,
         sess[s].inserted \/ op[c] # "none",
         S # None => S.cmd = c /\ S.inserted = FALSE /\ S.at = "sweep"
  PROVE  IInv'
<1>1. sess'[s] = S /\ \A t \in Sessions \ {s} : sess'[t] = sess[t]
  BY DEF IInv, CommandInv, TypeOK
<1>2. TypeOK'
  BY DEF IInv, CommandInv, TypeOK, OutboxInv, Session
<1>3. FailureReported'
  BY DEF IInv, CommandInv, FailureReported, TypeOK
<1>4. \A t \in Sessions \ {s} :
        Busy(t) /\ sess[t].cmd = c => sess[t].inserted = FALSE
  <2> SUFFICES ASSUME NEW t \in Sessions \ {s}, Busy(t), sess[t].cmd = c
               PROVE  sess[t].inserted = FALSE
    OBVIOUS
  <2>1. sess[t] \in Session /\ sess[s] \in Session /\ Sound(sess[t])
    BY BusyIsSession DEF IInv, CommandInv, AllSound
  <2> QED
    BY <2>1 DEF Session, Sound, IInv, CommandInv, RowAlone
<1>5. AllSound'
  <2> SUFFICES ASSUME NEW t \in Sessions, Busy(t)' PROVE Sound(sess[t])'
    BY DEF AllSound
  <2>1. CASE t = s
    BY <1>1, <2>1, BusyIsSession
    DEF Busy, Sound, Owing, IInv, CommandInv, AllSound
  <2>2. CASE t # s
    <3>1. Busy(t) /\ Sound(sess[t]) /\ sess[t] \in Session /\ sess'[t] = sess[t]
      BY <1>1, <2>2, BusyIsSession DEF Busy, IInv, CommandInv, AllSound
    <3>2. op'[sess[t].cmd] = IF sess[t].cmd = c THEN o ELSE op[sess[t].cmd]
      BY <3>1 DEF Session, IInv, CommandInv, TypeOK
    <3>3. sess[t].inserted => sess[t].cmd # c
      BY <1>4, <2>2, <3>1
    <3> QED
      BY <3>1, <3>2, <3>3 DEF Sound
  <2> QED
    BY <2>1, <2>2
<1>6. RowAlone'
  BY <1>1 DEF RowAlone, Busy, IInv, CommandInv
<1> QED
  BY <1>2, <1>3, <1>5, <1>6 DEF IInv, CommandInv

LEMMA CommitFailureKeeps ==
  ASSUME IInv, NEW s \in Sessions, CommitFailure(s) PROVE IInv'
<1>1. /\ Busy(s) /\ sess[s] \in Session /\ Sound(sess[s])
      /\ sess[s].at = "closing" /\ sess[s].cmd \in Cmds
  BY BusyIsSession DEF IInv, CommandInv, AllSound, CommitFailure, At, Session
<1>2. OutboxInv' /\ Absent' = Absent
  BY FrameKeeps DEF IInv, CommitFailure
<1>3. PICK c \in Cmds : c = sess[s].cmd
  BY <1>1
<1>4. PICK S \in {None} \cup Session :
        /\ sess' = [sess EXCEPT ![s] = S]
        /\ S # None => S.cmd = c /\ S.inserted = FALSE /\ S.at = "sweep"
  <2> DEFINE X == [sess[s] EXCEPT !.at = "sweep", !.inserted = FALSE]
  <2>1. X \in Session /\ X.cmd = c /\ X.inserted = FALSE /\ X.at = "sweep"
    BY <1>1, <1>3 DEF Session, Places
  <2>2. sess' = [sess EXCEPT ![s] = X] \/ sess' = [sess EXCEPT ![s] = None]
    BY DEF CommitFailure
  <2> QED
    BY <2>1, <2>2
<1>5. UNCHANGED <<sent, queue, invoices, executed, dlq, crashes, redeliveries>>
  BY DEF CommitFailure
<1>6. CASE sess[s].inserted
  <2>1. op' = [op EXCEPT ![c] = "failed"] /\ op[c] = "none" /\ c \in dlq
    BY <1>1, <1>3, <1>6 DEF CommitFailure, Sound
  <2>2. OutcomeRecorded'
    <3>1. \A d \in Cmds : outbox'[d] = "absent" <=> outbox[d] = "absent"
      BY <1>2, CommandsAssumption DEF Absent
    <3>2. \A d \in Cmds : op'[d] = "succeeded" <=> op[d] = "succeeded"
      BY <2>1 DEF IInv, CommandInv, TypeOK
    <3> QED
      BY <1>5, <3>1, <3>2 DEF OutcomeRecorded, IInv, CommandInv
  <2>3. invoices' \subseteq Cmds
    BY <1>5 DEF IInv, CommandInv, TypeOK
  <2>4. "failed" \in {"failed", "succeeded"}
    OBVIOUS
  <2> QED
    BY <1>1, <1>2, <1>3, <1>4, <1>5, <1>6, <2>1, <2>2, <2>3, <2>4, CommitKeeps
<1>7. CASE ~sess[s].inserted
  <2>1. op' = op
    BY <1>7 DEF CommitFailure
  <2>2. /\ UNCHANGED <<op, invoices, sent>>
        /\ queue' \subseteq sent
        /\ executed' \in [Cmds -> Nat]
        /\ \A d \in Cmds : executed'[d] >= executed[d]
        /\ dlq \subseteq dlq' /\ dlq' \subseteq Cmds
        /\ crashes' \in 0 .. MaxCrashes /\ redeliveries' \in 0 .. MaxRedeliveries
    BY <1>5, <2>1, CallersFrame
  <2>3. S # None => S.inserted = sess[s].inserted
    BY <1>1, <1>4, <1>7 DEF Session
  <2>4. S # None => S.cmd = sess[s].cmd /\ S.at \notin Owing
                    /\ S.at \notin {"waiting", "calling", "saving", "closing"}
    BY <1>3, <1>4 DEF Owing
  <2> QED
    BY <1>1, <1>2, <1>4, <2>2, <2>3, <2>4, HandlerGoesOn
<1> QED
  BY <1>6, <1>7

LEMMA CommitSuccessKeeps ==
  ASSUME IInv, NEW s \in Sessions, CommitSuccess(s) PROVE IInv'
<1>1. /\ Busy(s) /\ sess[s] \in Session /\ Sound(sess[s])
      /\ sess[s].at = "saving" /\ sess[s].cmd \in Cmds
  BY BusyIsSession DEF IInv, CommandInv, AllSound, CommitSuccess, At, Session
<1>2. PICK c \in Cmds : c = sess[s].cmd
  BY <1>1
<1>3. /\ c \notin invoices /\ invoices' = invoices \cup {c}
      /\ op' = [op EXCEPT ![c] = "succeeded"]
      /\ Enqueue({c})
      /\ UNCHANGED <<sent, queue, executed, dlq, crashes, redeliveries>>
  BY <1>2 DEF CommitSuccess
<1>4. PICK S \in {None} \cup Session :
        /\ sess' = [sess EXCEPT ![s] = S]
        /\ S # None => S.cmd = c /\ S.inserted = FALSE /\ S.at = "sweep"
  <2> DEFINE Y == [sess[s] EXCEPT !.at = "sweep"]
             X == [Y EXCEPT !.inserted = FALSE]
  <2>1. X \in Session /\ X.cmd = c /\ X.inserted = FALSE /\ X.at = "sweep"
    BY <1>1, <1>2 DEF Session, Places
  <2>2. sess' = [sess EXCEPT ![s] = X]
    BY <1>1 DEF CommitSuccess, IInv, CommandInv, TypeOK
  <2> QED
    BY <2>1, <2>2
<1>5. /\ OutboxInv'
      /\ \A r \in Cmds : outbox'[r] = IF r = c THEN "pending" ELSE outbox[r]
  BY <1>3, EnqueueKeeps, CommandsAssumption DEF IInv
<1>6. OutcomeRecorded'
  BY <1>1, <1>2, <1>3, <1>5
  DEF OutcomeRecorded, IInv, CommandInv, TypeOK, Sound
<1>7. sess[s].inserted \/ op[c] # "none"
  BY <1>1, <1>2 DEF Sound, Owing, Session
<1>8. invoices' \subseteq Cmds
  BY <1>3 DEF IInv, CommandInv, TypeOK
<1>9. "succeeded" \in {"failed", "succeeded"} /\ "succeeded" # "failed"
  OBVIOUS
<1> QED
  BY <1>1, <1>2, <1>3, <1>4, <1>5, <1>6, <1>7, <1>8, <1>9, CommitKeeps

LEMMA CrashKeeps ==
  ASSUME IInv, Crash PROVE IInv'
<1>1. OutboxInv' /\ Absent' = Absent
  BY LoseKeeps DEF IInv, Crash
<1>2. queue' \subseteq sent
  BY DEF IInv, CommandInv, TypeOK, AllSound, Sound, Crash
<1>3. crashes' \in 0 .. MaxCrashes
  BY CallersFrame, CommandsAssumption DEF Crash
<1>4. TypeOK'
  BY <1>1, <1>2, <1>3 DEF IInv, CommandInv, TypeOK, OutboxInv, Crash
<1>5. AllSound' /\ RowAlone'
  BY DEF Crash, AllSound, RowAlone, Busy
<1>6. OutcomeRecorded' /\ FailureReported'
  <2>1. \A c \in Cmds : outbox'[c] = "absent" <=> outbox[c] = "absent"
    BY <1>1, CommandsAssumption DEF Absent
  <2> QED
    BY <2>1 DEF IInv, CommandInv, OutcomeRecorded, FailureReported, Crash
<1> QED
  BY <1>1, <1>4, <1>5, <1>6 DEF IInv, CommandInv

LEMMA StutterKeeps ==
  ASSUME IInv, UNCHANGED vars PROVE IInv'
<1>1. OutboxInv' /\ Absent' = Absent
  BY FrameKeeps DEF IInv, vars
<1>2. TypeOK' /\ AllSound'
  BY <1>1 DEF IInv, CommandInv, TypeOK, vars, OutboxInv, AllSound, Sound, Busy
<1>3. OutcomeRecorded' /\ FailureReported' /\ RowAlone'
  BY DEF IInv, CommandInv, vars, OutcomeRecorded, FailureReported, RowAlone,
         Busy, outboxVars
<1> QED
  BY <1>1, <1>2, <1>3 DEF IInv, CommandInv

LEMMA StepKeeps == IInv /\ [Next]_vars => IInv'
<1> SUFFICES ASSUME IInv, [Next]_vars PROVE IInv'
  OBVIOUS
<1>1. ASSUME NEW c \in Cmds, Send(c) PROVE IInv'
  BY <1>1, SendKeeps
<1>2. ASSUME NEW s \in Sessions, HandlerStep(s) PROVE IInv'
  <2>1. ASSUME NEW c \in Cmds, Receive(s, c) \/ Duplicate(s, c) PROVE IInv'
    BY <2>1, ReceiveKeeps, DuplicateKeeps
  <2>2. CASE \/ Reject(s) \/ ProviderAccepts(s) \/ ProviderRefuses(s)
             \/ ProviderUnreachable(s) \/ ReportFailure(s) \/ DeadLetterLost(s)
             \/ CommitConflicts(s) \/ HandlerRaises(s)
    BY <2>2, WayKeeps
  <2>3. CASE EndWait(s) \/ SweepOutbox(s)
    BY <2>3, EndWaitKeeps, SweepOutboxKeeps
  <2>4. CASE CommitFailure(s) \/ CommitSuccess(s)
    BY <2>4, CommitFailureKeeps, CommitSuccessKeeps
  <2> QED
    BY <1>2, <2>1, <2>2, <2>3, <2>4 DEF HandlerStep
<1>3. ASSUME NEW s \in Sessions, Redeliver(s) PROVE IInv'
  BY <1>3, RedeliverKeeps
<1>4. CASE Crash
  BY <1>4, CrashKeeps
<1>5. CASE UNCHANGED vars
  BY <1>5, StutterKeeps
<1> QED
  BY <1>1, <1>2, <1>3, <1>4, <1>5 DEF Next

LEMMA AlwaysIInv == Spec => []IInv
  BY InitHolds, StepKeeps, PTL DEF Spec

\* The state keeps its type, whatever crashes, is redelivered or overlaps.
THEOREM CommandsTyped == Spec => []TypeOK
<1>1. IInv => TypeOK
  BY DEF IInv, CommandInv
<1> QED
  BY <1>1, AlwaysIInv, PTL

\* A handler stores its outcome in one transaction: an operation has succeeded
\* exactly when its invoice row and its event are stored, and then the provider
\* acted.
THEOREM OutcomesRecorded == Spec => []OutcomeRecorded
<1>1. IInv => OutcomeRecorded
  BY DEF IInv, CommandInv
<1> QED
  BY <1>1, AlwaysIInv, PTL

\* The handlers call publish_failed_command before they commit the failure.
THEOREM FailuresReported == Spec => []FailureReported
<1>1. IInv => FailureReported
  BY DEF IInv, CommandInv
<1> QED
  BY <1>1, AlwaysIInv, PTL

\* Concurrent sweeps of publish_pending_outbox, some cut off by a crash, mark a
\* row as published only when it is on the queue, and publish committed rows
\* only.
THEOREM SweepsTellTruth == Spec => []PublishedTruthful
<1>1. IInv => PublishedTruthful
  BY DEF IInv, OutboxInv
<1> QED
  BY <1>1, AlwaysIInv, PTL
-----------------------------------------------------------------------------
(* Deliveries repeated while a handler runs, and a provider that answers.  *)

Saves(s, c) ==
  Busy(s) /\ sess[s].cmd = c /\ sess[s].inserted /\ sess[s].at = "saving"

\* The provider has not acted, or once, and then the outcome is stored or the
\* handler that has inserted the row is about to store it.
Once(c) ==
  \/ executed[c] = 0
  \/ executed[c] = 1 /\ (op[c] = "succeeded" \/ \E s \in Sessions : Saves(s, c))

\* A handler without a row of its own repeats a command that failed.
Repeats(x) == ~x.inserted /\ x.at \in Owing => x.cmd \in dlq

OnceInv ==
  /\ \A c \in Cmds : c \notin dlq => Once(c)
  /\ \A s \in Sessions : Busy(s) => Repeats(sess[s])

PaysInv == IInv /\ OnceInv

\* A handler moves on, and the provider does not act.
LEMMA OnceMoves ==
  ASSUME IInv, OnceInv, NEW s \in Sessions, NEW S \in {None} \cup Session,
         sess' = [sess EXCEPT ![s] = S], dlq \subseteq dlq',
         executed' = executed, op' = op,
         S # None => Repeats(S)',
         Busy(s) /\ sess[s].at = "saving" /\ sess[s].inserted =>
           S # None /\ S.at = "saving" /\ S.inserted /\ S.cmd = sess[s].cmd
  PROVE  OnceInv'
<1>1. sess'[s] = S /\ \A t \in Sessions \ {s} : sess'[t] = sess[t]
  BY DEF IInv, CommandInv, TypeOK
<1>2. ASSUME NEW c \in Cmds, c \notin dlq'
      PROVE  Once(c)'
  <2>1. Once(c)
    BY <1>2 DEF OnceInv
  <2>2. ASSUME NEW t \in Sessions, Saves(t, c) PROVE Saves(t, c)'
    BY <1>1, <2>2 DEF Saves, Busy
  <2> QED
    BY <2>1, <2>2 DEF Once
<1>3. ASSUME NEW t \in Sessions, Busy(t)'
      PROVE  Repeats(sess[t])'
  BY <1>1, <1>3 DEF OnceInv, Repeats, Busy
<1> QED
  BY <1>2, <1>3 DEF OnceInv

\* Its row, where it has one, is that of no success.
LEMMA SavingRow ==
  ASSUME IInv, NEW s \in Sessions, Busy(s)
  PROVE  /\ sess[s] \in Session /\ sess[s].cmd \in Cmds
         /\ sess[s].inserted => op[sess[s].cmd] = "none"
         /\ sess[s].inserted => sess[s].cmd \notin invoices
         /\ sess[s].at = "closing" => sess[s].cmd \in dlq
<1>1. sess[s] \in Session /\ Sound(sess[s])
  BY BusyIsSession DEF IInv, CommandInv, AllSound
<1>2. sess[s].cmd \in Cmds
  BY <1>1 DEF Session
<1> QED
  BY <1>1, <1>2 DEF Sound, IInv, CommandInv, OutcomeRecorded

\* Steps that leave the outcome to others.
LEMMA OnceWay ==
  ASSUME ~Lossy, IInv, OnceInv, NEW s \in Sessions,
         \/ Reject(s) \/ ProviderRefuses(s) \/ ReportFailure(s) \/ DeadLetterLost(s)
         \/ CommitConflicts(s) \/ EndWait(s) \/ SweepOutbox(s) \/ Redeliver(s)
  PROVE  OnceInv'
<1>1. /\ Busy(s) /\ sess[s] \in Session /\ sess[s].cmd \in Cmds /\ Repeats(sess[s])
      /\ sess[s].inserted => sess[s].cmd \notin invoices
  <2>1. Busy(s)
    BY DEF Reject, ProviderRefuses, ReportFailure, DeadLetterLost, CommitConflicts, EndWait,
           SweepOutbox, Sweep, Redeliver, At
  <2> QED
    BY <2>1, SavingRow DEF OnceInv
<1>2. dlq \subseteq dlq' /\ executed' = executed /\ op' = op
  BY DEF Reject, ProviderRefuses, ReportFailure, DeadLetterLost, CommitConflicts, EndWait,
         SweepOutbox, Redeliver
<1>3. ASSUME NEW place \in {"failing", "closing", "sweeping"},
             Goto(s, place), sess[s].at \in {"calling", "failing", "sweep"},
             place # "sweeping" => sess[s].at \in Owing
      PROVE  OnceInv'
  <2>1. PICK S : S = [sess[s] EXCEPT !.at = place]
    OBVIOUS
  <2>2. /\ S \in Session /\ S.cmd = sess[s].cmd /\ S.inserted = sess[s].inserted
        /\ S.at = place /\ sess' = [sess EXCEPT ![s] = S]
    BY <1>1, <1>3, <2>1 DEF Session, Places, Goto
  <2>3. Repeats(S)'
    BY <1>1, <1>2, <1>3, <2>2 DEF Repeats, Owing
  <2> QED
    BY <1>2, <1>3, <2>2, <2>3, OnceMoves
<1>4. ASSUME sess' = [sess EXCEPT ![s] = None], ~(sess[s].at = "saving" /\ sess[s].inserted)
      PROVE  OnceInv'
  BY <1>2, <1>4, OnceMoves
<1>5. CASE Reject(s) \/ ProviderRefuses(s) \/ ReportFailure(s)
  BY <1>3, <1>5 DEF Reject, ProviderRefuses, ReportFailure, At, Owing
<1>6. CASE DeadLetterLost(s) \/ CommitConflicts(s)
  BY <1>1, <1>4, <1>6 DEF DeadLetterLost, CommitConflicts, At
<1>7. CASE EndWait(s)
  <2>1. CASE op[sess[s].cmd] = "none"
    <3>1. PICK S : S = [sess[s] EXCEPT !.at = "calling", !.inserted = TRUE]
      OBVIOUS
    <3>2. /\ S \in Session /\ S.inserted /\ sess' = [sess EXCEPT ![s] = S]
      BY <1>1, <1>7, <2>1, <3>1 DEF Session, Places, EndWait
    <3>3. Repeats(S)' /\ sess[s].at = "waiting"
      BY <1>7, <3>2 DEF Repeats, EndWait, At
    <3> QED
      BY <1>2, <3>2, <3>3, OnceMoves
  <2>2. CASE op[sess[s].cmd] # "none"
    BY <1>4, <1>7, <2>2 DEF EndWait, At
  <2> QED
    BY <2>1, <2>2
<1>8. CASE SweepOutbox(s)
  <2>1. CASE At(s, "sweep") /\ Goto(s, "sweeping")
    BY <1>3, <2>1 DEF At
  <2>2. CASE sess' = sess
    <3>1. sess' = [sess EXCEPT ![s] = sess[s]]
      BY <2>2 DEF IInv, CommandInv, TypeOK
    <3>2. Repeats(sess[s])'
      BY <1>1, <1>2, <2>2 DEF Repeats
    <3>3. PICK S \in Session : S = sess[s] /\ S # None
      BY <1>1 DEF Busy
    <3>4. Repeats(S)'
      BY <1>1, <1>2, <3>3 DEF Repeats
    <3> QED
      BY <1>2, <3>1, <3>3, <3>4, OnceMoves
  <2>3. CASE At(s, "sweeping") /\ sess' = [sess EXCEPT ![s] = None]
    BY <1>4, <2>3 DEF At
  <2> QED
    BY <1>8, <2>1, <2>2, <2>3 DEF SweepOutbox, Sweep
<1>9. CASE Redeliver(s)
  <2>1. PICK S : S = [sess[s] EXCEPT !.owns = FALSE]
    OBVIOUS
  <2>2. /\ S \in Session /\ S.cmd = sess[s].cmd /\ S.inserted = sess[s].inserted
        /\ S.at = sess[s].at /\ sess' = [sess EXCEPT ![s] = S]
    BY <1>1, <1>9, <2>1 DEF Session, Redeliver
  <2>3. Repeats(S)' /\ S # None
    <3>1. Repeats(S)'
      BY <1>1, <1>2, <2>2 DEF Repeats
    <3>2. S # None
      BY <2>2, NoSession
    <3> QED
      BY <3>1, <3>2
  <2> QED
    BY <1>2, <2>2, <2>3, OnceMoves
<1> QED
  BY <1>5, <1>6, <1>7, <1>8, <1>9

\* The row is inserted, or waited for, or found: a success is not taken up, and
\* a failure was reported.
LEMMA OnceReceives ==
  ASSUME IInv, OnceInv, NEW s \in Sessions, NEW c \in Cmds, Receive(s, c)
  PROVE  OnceInv'
<1> DEFINE first == op[c] = "none" /\ ~Inserting(c)
           place == IF op[c] = "none" /\ Inserting(c)
                    THEN "waiting" ELSE "calling"
<1>1. PICK S : S = [cmd |-> c, tries |-> 0, owns |-> TRUE, inserted |-> first,
                    at |-> place]
  OBVIOUS
<1>2. /\ sess' = [sess EXCEPT ![s] = S] /\ ~Busy(s)
      /\ executed' = executed /\ op' = op /\ dlq' = dlq
  BY <1>1 DEF Receive
<1>3. first \in BOOLEAN /\ place \in {"waiting", "calling"}
  BY DEF Inserting
<1>4. 0 \in 0 .. Attempts
  BY CommandsAssumption
<1>5. S.cmd = c /\ S.inserted = first /\ S.at = place
  BY <1>1
<1>6. S \in Session
  <2> HIDE DEF first, place
  <2> QED
    BY <1>1, <1>3, <1>4 DEF Session, Places
<1>7. ~S.inserted /\ S.at \in Owing => op[c] = "failed"
  <2>1. ~first /\ place \in Owing => op[c] # "none"
    BY DEF Owing
  <2>2. op[c] \in {"none", "failed", "succeeded"} /\ op[c] # "succeeded"
    BY DEF Receive, IInv, CommandInv, TypeOK
  <2> HIDE DEF first, place
  <2> QED
    BY <1>5, <2>1, <2>2
<1>8. Repeats(S)'
  BY <1>2, <1>5, <1>7 DEF Repeats, IInv, CommandInv, FailureReported
<1> HIDE DEF first, place
<1> QED
  BY <1>2, <1>6, <1>8, OnceMoves

\* The provider acts for the command of a handler that inserted the row and is
\* the only one to have done so, or for one reported as failed before.
LEMMA OnceAccepted ==
  ASSUME ~Lossy, IInv, OnceInv, NEW s \in Sessions, ProviderAccepts(s)
  PROVE  OnceInv'
<1>1. /\ Busy(s) /\ sess[s] \in Session /\ sess[s].cmd \in Cmds
      /\ Repeats(sess[s]) /\ sess[s].at = "calling"
      /\ sess[s].inserted => op[sess[s].cmd] = "none"
  BY SavingRow DEF OnceInv, ProviderAccepts, At
<1>2. PICK c \in Cmds : c = sess[s].cmd
  BY <1>1
<1>3. /\ executed' = [executed EXCEPT ![c] = @ + 1]
      /\ dlq' = dlq /\ op' = op /\ Goto(s, "saving")
  BY <1>2 DEF ProviderAccepts
<1>4. PICK S : S = [sess[s] EXCEPT !.at = "saving"]
  OBVIOUS
<1>5. /\ S \in Session /\ S.cmd = c /\ S.inserted = sess[s].inserted
      /\ S.at = "saving" /\ S # None
      /\ sess' = [sess EXCEPT ![s] = S]
  BY <1>1, <1>2, <1>3, <1>4, NoSession DEF Session, Places, Goto
<1>6. sess'[s] = S /\ \A t \in Sessions \ {s} : sess'[t] = sess[t]
  BY <1>5 DEF IInv, CommandInv, TypeOK
<1>7. ASSUME NEW d \in Cmds, d \notin dlq' PROVE Once(d)'
  <2>1. Once(d) /\ executed[d] \in Nat
    BY <1>3, <1>7 DEF OnceInv, IInv, CommandInv, TypeOK
  <2>2. CASE d = c
    <3>1. sess[s].inserted /\ op[c] = "none"
      BY <1>1, <1>2, <1>3, <1>7, <2>2 DEF Repeats, Owing
    <3>2. ASSUME NEW t \in Sessions, Saves(t, c) PROVE FALSE
      BY <1>1, <1>2, <3>1, <3>2 DEF Saves, IInv, CommandInv, RowAlone
    <3>3. executed[c] = 0
      BY <2>1, <2>2, <3>1, <3>2 DEF Once
    <3>4. executed'[c] = 1
      BY <1>3, <3>3 DEF IInv, CommandInv, TypeOK
    <3>5. Saves(s, c)'
      BY <1>5, <1>6, <3>1 DEF Saves, Busy
    <3> QED
      BY <2>2, <3>4, <3>5 DEF Once
  <2>3. CASE d # c
    <3>1. executed'[d] = executed[d]
      BY <1>3, <2>3 DEF IInv, CommandInv, TypeOK
    <3>2. ASSUME NEW t \in Sessions, Saves(t, d) PROVE Saves(t, d)'
      BY <1>1, <1>2, <1>6, <2>3, <3>2 DEF Saves, Busy
    <3> QED
      BY <1>3, <2>1, <3>1, <3>2 DEF Once
  <2> QED
    BY <2>2, <2>3
<1>8. ASSUME NEW t \in Sessions, Busy(t)'
      PROVE  Repeats(sess[t])'
  <2>1. CASE t = s
    BY <1>1, <1>2, <1>3, <1>5, <1>6, <2>1 DEF Repeats, Owing
  <2>2. CASE t # s
    BY <1>3, <1>6, <1>8, <2>2 DEF OnceInv, Repeats, Busy
  <2> QED
    BY <2>1, <2>2
<1> QED
  BY <1>7, <1>8 DEF OnceInv

\* The outcome is stored in the transaction that inserted the row.
LEMMA OnceCommitted ==
  ASSUME IInv, OnceInv, NEW s \in Sessions, CommitFailure(s) \/ CommitSuccess(s)
  PROVE  OnceInv'
<1>1. /\ Busy(s) /\ sess[s] \in Session /\ sess[s].cmd \in Cmds
      /\ sess[s].at = "closing" => sess[s].cmd \in dlq
      /\ sess[s].at \in {"closing", "saving"}
  BY SavingRow DEF CommitFailure, CommitSuccess, At
<1>2. PICK c \in Cmds : c = sess[s].cmd
  BY <1>1
<1>3. /\ executed' = executed /\ dlq' = dlq
      /\ \A d \in Cmds : d # c => op'[d] = op[d]
      /\ c \in dlq \/ op'[c] = "succeeded"
  BY <1>1, <1>2 DEF CommitFailure, CommitSuccess, At, IInv, CommandInv, TypeOK
<1>4. PICK S \in {None} \cup Session :
        /\ sess' = [sess EXCEPT ![s] = S]
        /\ S # None => S.at = "sweep"
  <2> DEFINE X == [[sess[s] EXCEPT !.at = "sweep"] EXCEPT !.inserted = FALSE]
  <2>1. X \in Session /\ X.at = "sweep"
    BY <1>1 DEF Session, Places
  <2>2. sess' = [sess EXCEPT ![s] = X] \/ sess' = [sess EXCEPT ![s] = None]
    BY <1>1 DEF CommitFailure, CommitSuccess, IInv, CommandInv, TypeOK
  <2> QED
    BY <2>1, <2>2
<1>5. sess'[s] = S /\ \A t \in Sessions \ {s} : sess'[t] = sess[t]
  BY <1>4 DEF IInv, CommandInv, TypeOK
<1>6. ASSUME NEW d \in Cmds, d \notin dlq' PROVE Once(d)'
  <2>1. Once(d)
    BY <1>3, <1>6 DEF OnceInv
  <2>2. CASE d = c
    BY <1>3, <1>6, <2>1, <2>2 DEF Once
  <2>3. CASE d # c
    <3>1. ASSUME NEW t \in Sessions, Saves(t, d) PROVE Saves(t, d)'
      BY <1>2, <1>5, <2>3, <3>1 DEF Saves, Busy
    <3> QED
      BY <1>3, <2>1, <2>3, <3>1 DEF Once
  <2> QED
    BY <2>2, <2>3
<1>7. ASSUME NEW t \in Sessions, Busy(t)'
      PROVE  Repeats(sess[t])'
  BY <1>3, <1>4, <1>5, <1>7 DEF OnceInv, Repeats, Busy, Owing
<1> QED
  BY <1>6, <1>7 DEF OnceInv

LEMMA OnceStep ==
  ASSUME ~Lossy, MaxCrashes = 0, PaysInv, [Next]_vars
  PROVE  OnceInv'
<1> USE DEF PaysInv
<1>1. ASSUME UNCHANGED <<sess, op, executed, dlq>> PROVE OnceInv'
  BY <1>1 DEF OnceInv, Once, Saves, Repeats, Busy
<1>2. ASSUME NEW c \in Cmds, Send(c) PROVE OnceInv'
  BY <1>1, <1>2 DEF Send
<1>3. ASSUME NEW s \in Sessions, HandlerStep(s) PROVE OnceInv'
  <2>1. ASSUME NEW c \in Cmds, Receive(s, c) \/ Duplicate(s, c) PROVE OnceInv'
    <3>1. CASE Duplicate(s, c)
      BY <1>1, <3>1 DEF Duplicate
    <3> QED
      BY <2>1, <3>1, OnceReceives
  <2>2. CASE \/ Reject(s) \/ ProviderRefuses(s) \/ ReportFailure(s)
             \/ DeadLetterLost(s) \/ CommitConflicts(s) \/ EndWait(s)
             \/ SweepOutbox(s)
    BY <2>2, OnceWay
  <2>3. CASE ProviderAccepts(s)
    BY <2>3, OnceAccepted
  <2>4. CASE CommitFailure(s) \/ CommitSuccess(s)
    BY <2>4, OnceCommitted
  <2>5. ~ProviderUnreachable(s) /\ ~HandlerRaises(s)
    BY DEF ProviderUnreachable, HandlerRaises
  <2> QED
    BY <1>3, <2>1, <2>2, <2>3, <2>4, <2>5 DEF HandlerStep
<1>4. ASSUME NEW s \in Sessions, Redeliver(s) PROVE OnceInv'
  BY <1>4, OnceWay
<1>5. ~Crash
  BY CallersFrame DEF Crash
<1>6. CASE UNCHANGED vars
  BY <1>1, <1>6 DEF vars
<1> QED
  BY <1>2, <1>3, <1>4, <1>5, <1>6 DEF Next

\* A handler holds the uncommitted idempotency row over the provider call, and
\* start_operation refuses a success: without crashes and with a provider that
\* answers, deliveries repeated while a handler runs do not make it act twice
\* for a command that was not reported as failed.
THEOREM RedeliveriesPayOnce ==
  ASSUME ~Lossy, MaxCrashes = 0
  PROVE  Spec => []PaysOnce
<1>1. Init => PaysInv
  <2>1. Init => OnceInv
    BY DEF Init, OnceInv, Once, Busy
  <2> QED
    BY <2>1, InitHolds DEF PaysInv
<1>2. PaysInv /\ [Next]_vars => PaysInv'
  BY StepKeeps, OnceStep DEF PaysInv
<1>3. PaysInv => PaysOnce
  BY DEF PaysInv, OnceInv, Once, PaysOnce
<1> QED
  BY <1>1, <1>2, <1>3, PTL DEF Spec
=============================================================================
