----------------------- MODULE RoadmapSettlementProofs -----------------------
(***************************************************************************)
(* TLAPS proofs about RoadmapSettlement, for any roadmap.                  *)
(***************************************************************************)
EXTENDS RoadmapSettlement, TLAPS

\* A roadmap that was started satisfies the inductive invariant.
LEMMA InductiveInit == Init => Inductive
<1> SUFFICES ASSUME Init PROVE Inductive
  OBVIOUS
<1>1. TypeOK
  <2>1. /\ cycle \in [Entries -> Cycles] /\ session \in [Entries -> {"none", "live", "asked"}]
        /\ prep \in [Decisions -> {"none", "reserved", "running", "asked", "over"}]
    BY DEF Init, Cycles, Ended
  <2>2. authorised \in BOOLEAN /\ amendment \in BOOLEAN /\ late \in BOOLEAN
    BY DEF Init
  <2>3. acts \in 0..MaxCommands /\ faults \in 0..MaxFaults
    BY SettlementAssumption DEF Init
  <2> QED
    BY <2>1, <2>2, <2>3 DEF Init, TypeOK, Ended, Rounds, Awaiting
<1> QED
  BY <1>1 DEF Init, Inductive, SettlingHeld, Unchosen, ResumeLives, MergingStill, LiveSessions,
    StartsFresh, SettledIsStill, RetiringVersionsRest

\* No step of a round takes a variable out of its type.
LEMMA RoundTypeStep == TypeOK /\ SettlingHeld /\ RoundStep => TypeOK'
<1> SUFFICES ASSUME TypeOK, SettlingHeld, RoundStep PROVE TypeOK'
  OBVIOUS
<1> USE SettlementAssumption DEF TypeOK, Cycles, Ended, Rounds, Awaiting, rows, request, pass,
    settler, others, Writes, Unwritten, GivesUp, Round, Become, Ask
<1>1. CASE Advance
  BY <1>1 DEF Advance
<1>2. CASE EnterEntries
  BY <1>2 DEF EnterEntries
<1>3. CASE Superseded
  BY <1>3 DEF Superseded
<1>4. CASE HoldEntry
  <2>1. /\ owned' \subseteq Entries /\ investigated' \subseteq Entries /\ merging' \subseteq Entries
        /\ cycle' \in [Entries -> Cycles] /\ session' \in [Entries -> {"none", "live", "asked"}]
        /\ prep' \in [Decisions -> {"none", "reserved", "running", "asked", "over"}]
    BY <1>4 DEF HoldEntry
  <2>2. /\ authorised' \in BOOLEAN /\ amendment' \in BOOLEAN /\ late' \in BOOLEAN
    BY <1>4 DEF HoldEntry
  <2>3. /\ status' \in {"running", "paused", "needs-attention"} \cup Ended
        /\ record' \in {"none", "settling", "settled"}
        /\ named' \subseteq Entries /\ chosen' \subseteq Versions /\ retired' \subseteq chosen'
        /\ rival' \in {"draft", "running"} /\ outside' \subseteq Versions
        /\ fresh' \subseteq {"round", "resume"}
    BY <1>4 DEF HoldEntry
  <2>4. /\ round' \in Rounds /\ item' \in Entries \cup Decisions \cup {None}
        /\ left' \subseteq Entries \cup Decisions
        /\ todo' \subseteq Entries /\ aim' \in Entries \cup {None}
        /\ command' \in {"none", "resuming", "stopping"}
        /\ ~(command' = "stopping" /\ round' = "settling")
    BY <1>4 DEF HoldEntry
  <2>5. acts' \in 0..MaxCommands /\ faults' \in 0..MaxFaults
    BY <1>4 DEF HoldEntry
  <2> QED
    BY <2>1, <2>2, <2>3, <2>4, <2>5
<1>5. CASE FailRound
  <2>1. /\ owned' \subseteq Entries /\ investigated' \subseteq Entries /\ merging' \subseteq Entries
        /\ cycle' \in [Entries -> Cycles] /\ session' \in [Entries -> {"none", "live", "asked"}]
        /\ prep' \in [Decisions -> {"none", "reserved", "running", "asked", "over"}]
    BY <1>5 DEF FailRound
  <2>2. /\ authorised' \in BOOLEAN /\ amendment' \in BOOLEAN /\ late' \in BOOLEAN
    BY <1>5 DEF FailRound
  <2>3. /\ status' \in {"running", "paused", "needs-attention"} \cup Ended
        /\ record' \in {"none", "settling", "settled"}
        /\ named' \subseteq Entries /\ chosen' \subseteq Versions /\ retired' \subseteq chosen'
        /\ rival' \in {"draft", "running"} /\ outside' \subseteq Versions
        /\ fresh' \subseteq {"round", "resume"}
    BY <1>5 DEF FailRound
  <2>4. /\ round' \in Rounds /\ item' \in Entries \cup Decisions \cup {None}
        /\ left' \subseteq Entries \cup Decisions
        /\ todo' \subseteq Entries /\ aim' \in Entries \cup {None}
        /\ command' \in {"none", "resuming", "stopping"}
        /\ ~(command' = "stopping" /\ round' = "settling")
    BY <1>5 DEF FailRound
  <2>5. acts' \in 0..MaxCommands /\ faults' \in 0..MaxFaults
    BY <1>5 DEF FailRound
  <2> QED
    BY <2>1, <2>2, <2>3, <2>4, <2>5
<1>6. CASE EndRound
  <2>1. /\ owned' \subseteq Entries /\ investigated' \subseteq Entries /\ merging' \subseteq Entries
        /\ cycle' \in [Entries -> Cycles] /\ session' \in [Entries -> {"none", "live", "asked"}]
        /\ prep' \in [Decisions -> {"none", "reserved", "running", "asked", "over"}]
    BY <1>6 DEF EndRound
  <2>2. /\ authorised' \in BOOLEAN /\ amendment' \in BOOLEAN /\ late' \in BOOLEAN
    BY <1>6 DEF EndRound
  <2>3. /\ status' \in {"running", "paused", "needs-attention"} \cup Ended
        /\ record' \in {"none", "settling", "settled"}
        /\ named' \subseteq Entries /\ chosen' \subseteq Versions /\ retired' \subseteq chosen'
        /\ rival' \in {"draft", "running"} /\ outside' \subseteq Versions
        /\ fresh' \subseteq {"round", "resume"}
    BY <1>6 DEF EndRound
  <2>4. /\ round' \in Rounds /\ item' \in Entries \cup Decisions \cup {None}
        /\ left' \subseteq Entries \cup Decisions
        /\ todo' \subseteq Entries /\ aim' \in Entries \cup {None}
        /\ command' \in {"none", "resuming", "stopping"}
        /\ ~(command' = "stopping" /\ round' = "settling")
    BY <1>6 DEF EndRound
  <2>5. acts' \in 0..MaxCommands /\ faults' \in 0..MaxFaults
    BY <1>6 DEF EndRound
  <2> QED
    BY <2>1, <2>2, <2>3, <2>4, <2>5
<1>7. CASE AskCleared
  BY <1>7 DEF AskCleared
<1>8. CASE ResumeCleared
  <2>1. /\ owned' \subseteq Entries /\ investigated' \subseteq Entries /\ merging' \subseteq Entries
        /\ cycle' \in [Entries -> Cycles] /\ session' \in [Entries -> {"none", "live", "asked"}]
        /\ prep' \in [Decisions -> {"none", "reserved", "running", "asked", "over"}]
    BY <1>8 DEF ResumeCleared
  <2>2. /\ authorised' \in BOOLEAN /\ amendment' \in BOOLEAN /\ late' \in BOOLEAN
    BY <1>8 DEF ResumeCleared
  <2>3. /\ status' \in {"running", "paused", "needs-attention"} \cup Ended
        /\ record' \in {"none", "settling", "settled"}
        /\ named' \subseteq Entries /\ chosen' \subseteq Versions /\ retired' \subseteq chosen'
        /\ rival' \in {"draft", "running"} /\ outside' \subseteq Versions
        /\ fresh' \subseteq {"round", "resume"}
    BY <1>8 DEF ResumeCleared
  <2>4. /\ round' \in Rounds /\ item' \in Entries \cup Decisions \cup {None}
        /\ left' \subseteq Entries \cup Decisions
        /\ todo' \subseteq Entries /\ aim' \in Entries \cup {None}
        /\ command' \in {"none", "resuming", "stopping"}
        /\ ~(command' = "stopping" /\ round' = "settling")
    BY <1>8 DEF ResumeCleared
  <2>5. acts' \in 0..MaxCommands /\ faults' \in 0..MaxFaults
    BY <1>8 DEF ResumeCleared
  <2> QED
    BY <2>1, <2>2, <2>3, <2>4, <2>5
<1>9. ASSUME NEW d \in Decisions, Prepare(d) PROVE TypeOK'
  BY <1>9 DEF Prepare
<1>10. ASSUME NEW d \in Decisions, Reserve(d) PROVE TypeOK'
  <2>1. /\ owned' \subseteq Entries /\ investigated' \subseteq Entries /\ merging' \subseteq Entries
        /\ cycle' \in [Entries -> Cycles] /\ session' \in [Entries -> {"none", "live", "asked"}]
        /\ prep' \in [Decisions -> {"none", "reserved", "running", "asked", "over"}]
    BY <1>10 DEF Reserve
  <2>2. /\ authorised' \in BOOLEAN /\ amendment' \in BOOLEAN /\ late' \in BOOLEAN
    BY <1>10 DEF Reserve
  <2>3. /\ status' \in {"running", "paused", "needs-attention"} \cup Ended
        /\ record' \in {"none", "settling", "settled"}
        /\ named' \subseteq Entries /\ chosen' \subseteq Versions /\ retired' \subseteq chosen'
        /\ rival' \in {"draft", "running"} /\ outside' \subseteq Versions
        /\ fresh' \subseteq {"round", "resume"}
    BY <1>10 DEF Reserve
  <2>4. /\ round' \in Rounds /\ item' \in Entries \cup Decisions \cup {None}
        /\ left' \subseteq Entries \cup Decisions
        /\ todo' \subseteq Entries /\ aim' \in Entries \cup {None}
        /\ command' \in {"none", "resuming", "stopping"}
        /\ ~(command' = "stopping" /\ round' = "settling")
    BY <1>10 DEF Reserve
  <2>5. acts' \in 0..MaxCommands /\ faults' \in 0..MaxFaults
    BY <1>10 DEF Reserve
  <2> QED
    BY <2>1, <2>2, <2>3, <2>4, <2>5
<1>11. ASSUME NEW d \in Decisions, LaunchPreparation(d) PROVE TypeOK'
  BY <1>11 DEF LaunchPreparation
<1>12. ASSUME NEW d \in Decisions, FailPreparation(d) PROVE TypeOK'
  BY <1>12 DEF FailPreparation
<1>13. ASSUME NEW e \in Entries, BeginEntry(e) PROVE TypeOK'
  BY <1>13 DEF BeginEntry, Writes
<1>14. ASSUME NEW e \in Entries, StartCycle(e) PROVE TypeOK'
  BY <1>14 DEF StartCycle
<1> QED
  BY ONLY RoundStep, <1>1, <1>2, <1>3, <1>4, <1>5, <1>6, <1>7, <1>8, <1>9, <1>10, <1>11, <1>12,
    <1>13, <1>14 DEF RoundStep

\* No step of a settlement takes a variable out of its type.
LEMMA SettleTypeStep == TypeOK /\ SettlingHeld /\ SettleStep => TypeOK'
<1> SUFFICES ASSUME TypeOK, SettlingHeld, SettleStep PROVE TypeOK'
  OBVIOUS
<1> USE SettlementAssumption DEF TypeOK, Cycles, Ended, Rounds, Awaiting, rows, request, pass,
    settler, others, Writes, Unwritten, GivesUp, Round, Become, Ask
<1>1. CASE ResumeSettle
  BY <1>1 DEF ResumeSettle, BeginSettle
<1>2. CASE NoActor
  BY <1>2 DEF NoActor, EndSettle
<1>3. CASE WaitForSession
  <2>1. /\ owned' \subseteq Entries /\ investigated' \subseteq Entries /\ merging' \subseteq Entries
        /\ cycle' \in [Entries -> Cycles] /\ session' \in [Entries -> {"none", "live", "asked"}]
        /\ prep' \in [Decisions -> {"none", "reserved", "running", "asked", "over"}]
    BY <1>3 DEF WaitForSession, EndSettle
  <2>2. /\ authorised' \in BOOLEAN /\ amendment' \in BOOLEAN /\ late' \in BOOLEAN
    BY <1>3 DEF WaitForSession, EndSettle
  <2>3. /\ status' \in {"running", "paused", "needs-attention"} \cup Ended
        /\ record' \in {"none", "settling", "settled"}
        /\ named' \subseteq Entries /\ chosen' \subseteq Versions /\ retired' \subseteq chosen'
        /\ rival' \in {"draft", "running"} /\ outside' \subseteq Versions
        /\ fresh' \subseteq {"round", "resume"}
    BY <1>3 DEF WaitForSession, EndSettle
  <2>4. /\ round' \in Rounds /\ item' \in Entries \cup Decisions \cup {None}
        /\ left' \subseteq Entries \cup Decisions
        /\ todo' \subseteq Entries /\ aim' \in Entries \cup {None}
        /\ command' \in {"none", "resuming", "stopping"}
        /\ ~(command' = "stopping" /\ round' = "settling")
    BY <1>3 DEF WaitForSession, EndSettle
  <2>5. acts' \in 0..MaxCommands /\ faults' \in 0..MaxFaults
    BY <1>3 DEF WaitForSession, EndSettle
  <2> QED
    BY <2>1, <2>2, <2>3, <2>4, <2>5
<1>4. CASE Finish
  BY <1>4 DEF Finish, EndSettle, Stepping, SettlingHeld
<1>5. CASE AbandonFails
  <2>1. /\ owned' \subseteq Entries /\ investigated' \subseteq Entries /\ merging' \subseteq Entries
        /\ cycle' \in [Entries -> Cycles] /\ session' \in [Entries -> {"none", "live", "asked"}]
        /\ prep' \in [Decisions -> {"none", "reserved", "running", "asked", "over"}]
    BY <1>5 DEF AbandonFails, EndSettle, Faults
  <2>2. /\ authorised' \in BOOLEAN /\ amendment' \in BOOLEAN /\ late' \in BOOLEAN
    BY <1>5 DEF AbandonFails, EndSettle, Faults
  <2>3. /\ status' \in {"running", "paused", "needs-attention"} \cup Ended
        /\ record' \in {"none", "settling", "settled"}
        /\ named' \subseteq Entries /\ chosen' \subseteq Versions /\ retired' \subseteq chosen'
        /\ rival' \in {"draft", "running"} /\ outside' \subseteq Versions
        /\ fresh' \subseteq {"round", "resume"}
    BY <1>5 DEF AbandonFails, EndSettle, Faults
  <2>4. /\ round' \in Rounds /\ item' \in Entries \cup Decisions \cup {None}
        /\ left' \subseteq Entries \cup Decisions
        /\ todo' \subseteq Entries /\ aim' \in Entries \cup {None}
        /\ command' \in {"none", "resuming", "stopping"}
        /\ ~(command' = "stopping" /\ round' = "settling")
    BY <1>5 DEF AbandonFails, EndSettle, Faults
  <2>5. acts' \in 0..MaxCommands /\ faults' \in 0..MaxFaults
    BY <1>5 DEF AbandonFails, EndSettle, Faults
  <2> QED
    BY <2>1, <2>2, <2>3, <2>4, <2>5
<1>6. ASSUME NEW e \in Entries, Skip(e) PROVE TypeOK'
  BY <1>6 DEF Skip
<1>7. ASSUME NEW e \in Entries, StopCycle(e) PROVE TypeOK'
  BY <1>7 DEF StopCycle, Stoppable
<1>8. ASSUME NEW e \in Entries, CannotStop(e) PROVE TypeOK'
  <2>1. /\ owned' \subseteq Entries /\ investigated' \subseteq Entries /\ merging' \subseteq Entries
        /\ cycle' \in [Entries -> Cycles] /\ session' \in [Entries -> {"none", "live", "asked"}]
        /\ prep' \in [Decisions -> {"none", "reserved", "running", "asked", "over"}]
    BY <1>8 DEF CannotStop, Stoppable, EndSettle
  <2>2. /\ authorised' \in BOOLEAN /\ amendment' \in BOOLEAN /\ late' \in BOOLEAN
    BY <1>8 DEF CannotStop, Stoppable, EndSettle
  <2>3. /\ status' \in {"running", "paused", "needs-attention"} \cup Ended
        /\ record' \in {"none", "settling", "settled"}
        /\ named' \subseteq Entries /\ chosen' \subseteq Versions /\ retired' \subseteq chosen'
        /\ rival' \in {"draft", "running"} /\ outside' \subseteq Versions
        /\ fresh' \subseteq {"round", "resume"}
    BY <1>8 DEF CannotStop, Stoppable, EndSettle
  <2>4. /\ round' \in Rounds /\ item' \in Entries \cup Decisions \cup {None}
        /\ left' \subseteq Entries \cup Decisions
        /\ todo' \subseteq Entries /\ aim' \in Entries \cup {None}
        /\ command' \in {"none", "resuming", "stopping"}
        /\ ~(command' = "stopping" /\ round' = "settling")
    BY <1>8 DEF CannotStop, Stoppable, EndSettle
  <2>5. acts' \in 0..MaxCommands /\ faults' \in 0..MaxFaults
    BY <1>8 DEF CannotStop, Stoppable, EndSettle
  <2> QED
    BY <2>1, <2>2, <2>3, <2>4, <2>5
<1>9. ASSUME NEW e \in Entries, PauseResolution(e) PROVE TypeOK'
  BY <1>9 DEF PauseResolution, Stoppable
<1>10. ASSUME NEW e \in Entries, Abandon(e) PROVE TypeOK'
  BY <1>10 DEF Abandon, Stoppable
<1>11. ASSUME NEW e \in Entries, Abandoned(e) PROVE TypeOK'
  BY <1>11 DEF Abandoned
<1> QED
  BY ONLY SettleStep, <1>1, <1>2, <1>3, <1>4, <1>5, <1>6, <1>7, <1>8, <1>9, <1>10, <1>11 DEF
    SettleStep, SettleOn

\* No step of an agent takes a variable out of its type.
LEMMA WorkTypeStep == TypeOK /\ SettlingHeld /\ WorkStep => TypeOK'
<1> SUFFICES ASSUME TypeOK, SettlingHeld, WorkStep PROVE TypeOK'
  OBVIOUS
<1> USE SettlementAssumption DEF TypeOK, Cycles, Ended, Rounds, Awaiting, rows, request, pass,
    settler, others, Writes, Unwritten, GivesUp, Round, Become, Ask
<1>1. ASSUME NEW e \in Entries, StartSession(e) PROVE TypeOK'
  BY <1>1 DEF StartSession
<1>2. ASSUME NEW e \in Entries, EndTurn(e) PROVE TypeOK'
  BY <1>2 DEF EndTurn
<1>3. ASSUME NEW e \in Entries, SessionExits(e) PROVE TypeOK'
  BY <1>3 DEF SessionExits
<1>4. ASSUME NEW e \in Entries, EndMerge(e) PROVE TypeOK'
  BY <1>4 DEF EndMerge
<1>5. ASSUME NEW d \in Decisions, PreparationEnds(d) PROVE TypeOK'
  BY <1>5 DEF PreparationEnds
<1> QED
  BY ONLY WorkStep, <1>1, <1>2, <1>3, <1>4, <1>5 DEF WorkStep

\* No command of an operator takes a variable out of its type.
LEMMA OperatorTypeStep == TypeOK /\ SettlingHeld /\ OperatorStep => TypeOK'
<1> SUFFICES ASSUME TypeOK, SettlingHeld, OperatorStep PROVE TypeOK'
  OBVIOUS
<1> USE SettlementAssumption DEF TypeOK, Cycles, Ended, Rounds, Awaiting, rows, request, pass,
    settler, others, Writes, Unwritten, GivesUp, Round, Become, Ask
<1>1. CASE Pause
  BY <1>1 DEF Pause, Acts
<1>2. CASE Resume
  BY <1>2 DEF Resume, Acts
<1>3. CASE EndResume
  <2>1. /\ owned' \subseteq Entries /\ investigated' \subseteq Entries /\ merging' \subseteq Entries
        /\ cycle' \in [Entries -> Cycles] /\ session' \in [Entries -> {"none", "live", "asked"}]
        /\ prep' \in [Decisions -> {"none", "reserved", "running", "asked", "over"}]
    BY <1>3 DEF EndResume
  <2>2. /\ authorised' \in BOOLEAN /\ amendment' \in BOOLEAN /\ late' \in BOOLEAN
    BY <1>3 DEF EndResume
  <2>3. /\ status' \in {"running", "paused", "needs-attention"} \cup Ended
        /\ record' \in {"none", "settling", "settled"}
        /\ named' \subseteq Entries /\ chosen' \subseteq Versions /\ retired' \subseteq chosen'
        /\ rival' \in {"draft", "running"} /\ outside' \subseteq Versions
        /\ fresh' \subseteq {"round", "resume"}
    BY <1>3 DEF EndResume
  <2>4. /\ round' \in Rounds /\ item' \in Entries \cup Decisions \cup {None}
        /\ left' \subseteq Entries \cup Decisions
        /\ todo' \subseteq Entries /\ aim' \in Entries \cup {None}
        /\ command' \in {"none", "resuming", "stopping"}
        /\ ~(command' = "stopping" /\ round' = "settling")
    BY <1>3 DEF EndResume
  <2>5. acts' \in 0..MaxCommands /\ faults' \in 0..MaxFaults
    BY <1>3 DEF EndResume
  <2> QED
    BY <2>1, <2>2, <2>3, <2>4, <2>5
<1>4. CASE ProposeAmendment
  BY <1>4 DEF ProposeAmendment, Acts
<1>5. CASE RejectAmendment
  <2>1. /\ owned' \subseteq Entries /\ investigated' \subseteq Entries /\ merging' \subseteq Entries
        /\ cycle' \in [Entries -> Cycles] /\ session' \in [Entries -> {"none", "live", "asked"}]
        /\ prep' \in [Decisions -> {"none", "reserved", "running", "asked", "over"}]
    BY <1>5 DEF RejectAmendment
  <2>2. /\ authorised' \in BOOLEAN /\ amendment' \in BOOLEAN /\ late' \in BOOLEAN
    BY <1>5 DEF RejectAmendment
  <2>3. /\ status' \in {"running", "paused", "needs-attention"} \cup Ended
        /\ record' \in {"none", "settling", "settled"}
        /\ named' \subseteq Entries /\ chosen' \subseteq Versions /\ retired' \subseteq chosen'
        /\ rival' \in {"draft", "running"} /\ outside' \subseteq Versions
        /\ fresh' \subseteq {"round", "resume"}
    BY <1>5 DEF RejectAmendment
  <2>4. /\ round' \in Rounds /\ item' \in Entries \cup Decisions \cup {None}
        /\ left' \subseteq Entries \cup Decisions
        /\ todo' \subseteq Entries /\ aim' \in Entries \cup {None}
        /\ command' \in {"none", "resuming", "stopping"}
        /\ ~(command' = "stopping" /\ round' = "settling")
    BY <1>5 DEF RejectAmendment
  <2>5. acts' \in 0..MaxCommands /\ faults' \in 0..MaxFaults
    BY <1>5 DEF RejectAmendment
  <2> QED
    BY <2>1, <2>2, <2>3, <2>4, <2>5
<1>6. ASSUME NEW R \in SUBSET Versions, WindDown(R) PROVE TypeOK'
  <2>1. /\ owned' \subseteq Entries /\ investigated' \subseteq Entries /\ merging' \subseteq Entries
        /\ cycle' \in [Entries -> Cycles] /\ session' \in [Entries -> {"none", "live", "asked"}]
        /\ prep' \in [Decisions -> {"none", "reserved", "running", "asked", "over"}]
    BY <1>6 DEF WindDown, Acts, BeginSettle, Accepts, SettlingHeld
  <2>2. /\ authorised' \in BOOLEAN /\ amendment' \in BOOLEAN /\ late' \in BOOLEAN
    BY <1>6 DEF WindDown, Acts, BeginSettle, Accepts, SettlingHeld
  <2>3. /\ status' \in {"running", "paused", "needs-attention"} \cup Ended
        /\ record' \in {"none", "settling", "settled"}
        /\ named' \subseteq Entries /\ chosen' \subseteq Versions /\ retired' \subseteq chosen'
        /\ rival' \in {"draft", "running"} /\ outside' \subseteq Versions
        /\ fresh' \subseteq {"round", "resume"}
    BY <1>6 DEF WindDown, Acts, BeginSettle, Accepts, SettlingHeld
  <2>4. /\ round' \in Rounds /\ item' \in Entries \cup Decisions \cup {None}
        /\ left' \subseteq Entries \cup Decisions
        /\ todo' \subseteq Entries /\ aim' \in Entries \cup {None}
        /\ command' \in {"none", "resuming", "stopping"}
        /\ ~(command' = "stopping" /\ round' = "settling")
    BY <1>6 DEF WindDown, Acts, BeginSettle, Accepts, SettlingHeld
  <2>5. acts' \in 0..MaxCommands /\ faults' \in 0..MaxFaults
    BY <1>6 DEF WindDown, Acts, BeginSettle, Accepts, SettlingHeld
  <2> QED
    BY <2>1, <2>2, <2>3, <2>4, <2>5
<1>7. ASSUME NEW R \in SUBSET Versions, WindDownAgain(R) PROVE TypeOK'
  <2>1. /\ owned' \subseteq Entries /\ investigated' \subseteq Entries /\ merging' \subseteq Entries
        /\ cycle' \in [Entries -> Cycles] /\ session' \in [Entries -> {"none", "live", "asked"}]
        /\ prep' \in [Decisions -> {"none", "reserved", "running", "asked", "over"}]
    BY <1>7 DEF WindDownAgain, Acts, BeginSettle, Accepts
  <2>2. /\ authorised' \in BOOLEAN /\ amendment' \in BOOLEAN /\ late' \in BOOLEAN
    BY <1>7 DEF WindDownAgain, Acts, BeginSettle, Accepts
  <2>3. /\ status' \in {"running", "paused", "needs-attention"} \cup Ended
        /\ record' \in {"none", "settling", "settled"}
        /\ named' \subseteq Entries /\ chosen' \subseteq Versions /\ retired' \subseteq chosen'
        /\ rival' \in {"draft", "running"} /\ outside' \subseteq Versions
        /\ fresh' \subseteq {"round", "resume"}
    BY <1>7 DEF WindDownAgain, Acts, BeginSettle, Accepts
  <2>4. /\ round' \in Rounds /\ item' \in Entries \cup Decisions \cup {None}
        /\ left' \subseteq Entries \cup Decisions
        /\ todo' \subseteq Entries /\ aim' \in Entries \cup {None}
        /\ command' \in {"none", "resuming", "stopping"}
        /\ ~(command' = "stopping" /\ round' = "settling")
    BY <1>7 DEF WindDownAgain, Acts, BeginSettle, Accepts
  <2>5. acts' \in 0..MaxCommands /\ faults' \in 0..MaxFaults
    BY <1>7 DEF WindDownAgain, Acts, BeginSettle, Accepts
  <2> QED
    BY <2>1, <2>2, <2>3, <2>4, <2>5
<1>8. ASSUME NEW e \in Entries, ResumeOwned(e) PROVE TypeOK'
  BY <1>8 DEF ResumeOwned
<1>9. ASSUME NEW e \in Entries, ResumeCycle(e) PROVE TypeOK'
  BY <1>9 DEF ResumeCycle, Acts
<1>10. ASSUME NEW e \in Entries, AbandonResolution(e) PROVE TypeOK'
  BY <1>10 DEF AbandonResolution
<1>11. ASSUME NEW e \in Entries, Investigate(e) PROVE TypeOK'
  BY <1>11 DEF Investigate, Acts
<1>12. ASSUME NEW e \in Entries, ReserveMerge(e) PROVE TypeOK'
  BY <1>12 DEF ReserveMerge, Acts
<1> QED
  BY ONLY OperatorStep, <1>1, <1>2, <1>3, <1>4, <1>5, <1>6, <1>7, <1>8, <1>9, <1>10, <1>11,
    <1>12 DEF OperatorStep

\* No other step takes a variable out of its type.
LEMMA OtherTypeStep == TypeOK /\ SettlingHeld /\ OtherStep => TypeOK'
<1> SUFFICES ASSUME TypeOK, SettlingHeld, OtherStep PROVE TypeOK'
  OBVIOUS
<1> USE SettlementAssumption DEF TypeOK, Cycles, Ended, Rounds, Awaiting, rows, request, pass,
    settler, others, Writes, Unwritten, GivesUp, Round, Become, Ask
<1>1. CASE Revoke
  <2>1. /\ owned' \subseteq Entries /\ investigated' \subseteq Entries /\ merging' \subseteq Entries
        /\ cycle' \in [Entries -> Cycles] /\ session' \in [Entries -> {"none", "live", "asked"}]
        /\ prep' \in [Decisions -> {"none", "reserved", "running", "asked", "over"}]
    BY <1>1 DEF Revoke, Acts
  <2>2. /\ authorised' \in BOOLEAN /\ amendment' \in BOOLEAN /\ late' \in BOOLEAN
    BY <1>1 DEF Revoke, Acts
  <2>3. /\ status' \in {"running", "paused", "needs-attention"} \cup Ended
        /\ record' \in {"none", "settling", "settled"}
        /\ named' \subseteq Entries /\ chosen' \subseteq Versions /\ retired' \subseteq chosen'
        /\ rival' \in {"draft", "running"} /\ outside' \subseteq Versions
        /\ fresh' \subseteq {"round", "resume"}
    BY <1>1 DEF Revoke, Acts
  <2>4. /\ round' \in Rounds /\ item' \in Entries \cup Decisions \cup {None}
        /\ left' \subseteq Entries \cup Decisions
        /\ todo' \subseteq Entries /\ aim' \in Entries \cup {None}
        /\ command' \in {"none", "resuming", "stopping"}
        /\ ~(command' = "stopping" /\ round' = "settling")
    BY <1>1 DEF Revoke, Acts
  <2>5. acts' \in 0..MaxCommands /\ faults' \in 0..MaxFaults
    BY <1>1 DEF Revoke, Acts
  <2> QED
    BY <2>1, <2>2, <2>3, <2>4, <2>5
<1>2. CASE StartRival
  BY <1>2 DEF StartRival
<1>3. CASE EndRival
  BY <1>3 DEF EndRival
<1>4. CASE Crash
  <2>1. /\ owned' \subseteq Entries /\ investigated' \subseteq Entries /\ merging' \subseteq Entries
        /\ cycle' \in [Entries -> Cycles] /\ session' \in [Entries -> {"none", "live", "asked"}]
        /\ prep' \in [Decisions -> {"none", "reserved", "running", "asked", "over"}]
    BY <1>4 DEF Crash, Faults
  <2>2. /\ authorised' \in BOOLEAN /\ amendment' \in BOOLEAN /\ late' \in BOOLEAN
    BY <1>4 DEF Crash, Faults
  <2>3. /\ status' \in {"running", "paused", "needs-attention"} \cup Ended
        /\ record' \in {"none", "settling", "settled"}
        /\ named' \subseteq Entries /\ chosen' \subseteq Versions /\ retired' \subseteq chosen'
        /\ rival' \in {"draft", "running"} /\ outside' \subseteq Versions
        /\ fresh' \subseteq {"round", "resume"}
    BY <1>4 DEF Crash, Faults
  <2>4. /\ round' \in Rounds /\ item' \in Entries \cup Decisions \cup {None}
        /\ left' \subseteq Entries \cup Decisions
        /\ todo' \subseteq Entries /\ aim' \in Entries \cup {None}
        /\ command' \in {"none", "resuming", "stopping"}
        /\ ~(command' = "stopping" /\ round' = "settling")
    BY <1>4 DEF Crash, Faults
  <2>5. acts' \in 0..MaxCommands /\ faults' \in 0..MaxFaults
    BY <1>4 DEF Crash, Faults
  <2> QED
    BY <2>1, <2>2, <2>3, <2>4, <2>5
<1>5. ASSUME NEW v \in Versions, WorkOutside(v) PROVE TypeOK'
  BY <1>5 DEF WorkOutside, Acts
<1> QED
  BY ONLY OtherStep, <1>1, <1>2, <1>3, <1>4, <1>5 DEF OtherStep

\* Who settles has the record, after any step.
LEMMA SettlingHeldStep == Inductive /\ Next => SettlingHeld'
<1> SUFFICES ASSUME Inductive, Next PROVE SettlingHeld'
  OBVIOUS
<1> USE DEF Inductive, TypeOK, Ended, rows, request, pass, settler, others, Writes, Unwritten,
  GivesUp, Round, Become, Ask, Acts, Faults, LiveCycle, Still, EndSettle, BeginSettle,
  Stepping, Stoppable, Held, Accepts, InUse, SettlingHeld
<1>1. CASE RoundStep
  BY <1>1 DEF RoundStep, Advance, EnterEntries, Superseded, HoldEntry, FailRound, EndRound,
    AskCleared, ResumeCleared, Prepare, Reserve, LaunchPreparation, FailPreparation,
    BeginEntry, StartCycle
<1>2. CASE SettleStep
  BY <1>2 DEF SettleStep, SettleOn, ResumeSettle, NoActor, WaitForSession, Finish,
    AbandonFails, Skip, StopCycle, CannotStop, PauseResolution, Abandon, Abandoned
<1>3. CASE WorkStep
  BY <1>3 DEF WorkStep, StartSession, EndTurn, SessionExits, EndMerge, PreparationEnds
<1>4. CASE OperatorStep
  BY <1>4 DEF OperatorStep, Pause, Resume, EndResume, ProposeAmendment, RejectAmendment,
    WindDown, WindDownAgain, ResumeOwned, ResumeCycle, AbandonResolution, Investigate,
    ReserveMerge
<1>5. CASE OtherStep
  BY <1>5 DEF OtherStep, Revoke, StartRival, EndRival, Crash, WorkOutside
<1> QED
  BY <1>1, <1>2, <1>3, <1>4, <1>5 DEF Next

\* A roadmap without a record has no version chosen.
LEMMA UnchosenStep == Inductive /\ Next => Unchosen'
<1> SUFFICES ASSUME Inductive, Next PROVE Unchosen'
  OBVIOUS
<1> USE DEF Inductive, TypeOK, Ended, rows, request, pass, settler, others, Writes, Unwritten,
  GivesUp, Round, Become, Ask, Acts, Faults, LiveCycle, Still, EndSettle, BeginSettle,
  Stepping, Stoppable, Held, Accepts, InUse, Unchosen
<1>1. CASE RoundStep
  BY <1>1 DEF RoundStep, Advance, EnterEntries, Superseded, HoldEntry, FailRound, EndRound,
    AskCleared, ResumeCleared, Prepare, Reserve, LaunchPreparation, FailPreparation,
    BeginEntry, StartCycle
<1>2. CASE SettleStep
  BY <1>2 DEF SettleStep, SettleOn, ResumeSettle, NoActor, WaitForSession, Finish,
    AbandonFails, Skip, StopCycle, CannotStop, PauseResolution, Abandon, Abandoned
<1>3. CASE WorkStep
  BY <1>3 DEF WorkStep, StartSession, EndTurn, SessionExits, EndMerge, PreparationEnds
<1>4. CASE OperatorStep
  BY <1>4 DEF OperatorStep, Pause, Resume, EndResume, ProposeAmendment, RejectAmendment,
    WindDown, WindDownAgain, ResumeOwned, ResumeCycle, AbandonResolution, Investigate,
    ReserveMerge
<1>5. CASE OtherStep
  BY <1>5 DEF OtherStep, Revoke, StartRival, EndRival, Crash, WorkOutside
<1> QED
  BY <1>1, <1>2, <1>3, <1>4, <1>5 DEF Next

\* A resume keeps the version it read only while the roadmap lives.
LEMMA ResumeLivesStep == Inductive /\ Next => ResumeLives'
<1> SUFFICES ASSUME Inductive, Next PROVE ResumeLives'
  OBVIOUS
<1> USE DEF Inductive, TypeOK, Ended, rows, request, pass, settler, others, Writes, Unwritten,
  GivesUp, Round, Become, Ask, Acts, Faults, LiveCycle, Still, EndSettle, BeginSettle,
  Stepping, Stoppable, Held, Accepts, InUse, ResumeLives
<1>1. CASE RoundStep
  BY <1>1 DEF RoundStep, Advance, EnterEntries, Superseded, HoldEntry, FailRound, EndRound,
    AskCleared, ResumeCleared, Prepare, Reserve, LaunchPreparation, FailPreparation,
    BeginEntry, StartCycle
<1>2. CASE SettleStep
  BY <1>2 DEF SettleStep, SettleOn, ResumeSettle, NoActor, WaitForSession, Finish,
    AbandonFails, Skip, StopCycle, CannotStop, PauseResolution, Abandon, Abandoned
<1>3. CASE WorkStep
  BY <1>3 DEF WorkStep, StartSession, EndTurn, SessionExits, EndMerge, PreparationEnds
<1>4. CASE OperatorStep
  BY <1>4 DEF OperatorStep, Pause, Resume, EndResume, ProposeAmendment, RejectAmendment,
    WindDown, WindDownAgain, ResumeOwned, ResumeCycle, AbandonResolution, Investigate,
    ReserveMerge
<1>5. CASE OtherStep
  BY <1>5 DEF OtherStep, Revoke, StartRival, EndRival, Crash, WorkOutside
<1> QED
  BY <1>1, <1>2, <1>3, <1>4, <1>5 DEF Next

\* A reserved merge's cycle waits, and nobody works in its worktree.
LEMMA MergingStillStep == Inductive /\ Next => MergingStill'
<1> SUFFICES ASSUME Inductive, Next PROVE MergingStill'
  OBVIOUS
<1> USE DEF Inductive, TypeOK, Ended, rows, request, pass, settler, others, Writes, Unwritten,
  GivesUp, Round, Become, Ask, Acts, Faults, LiveCycle, Still, EndSettle, BeginSettle,
  Stepping, Stoppable, Held, Accepts, InUse, MergingStill
<1>1. CASE RoundStep
  <2>1. CASE Advance
    BY <2>1 DEF Advance
  <2>2. CASE EnterEntries
    BY <2>2 DEF EnterEntries
  <2>3. CASE HoldEntry
    BY <2>3 DEF HoldEntry
  <2>4. CASE FailRound
    BY <2>4 DEF FailRound
  <2>5. CASE EndRound
    BY <2>5 DEF EndRound
  <2>6. CASE ResumeCleared
    BY <2>6 DEF ResumeCleared
  <2>7. ASSUME NEW d \in Decisions, Reserve(d) PROVE MergingStill'
    BY <2>7 DEF Reserve
  <2>8. ASSUME NEW e \in Entries, BeginEntry(e) PROVE MergingStill'
    BY <2>8 DEF BeginEntry
  <2>9. ASSUME NEW e \in Entries, StartCycle(e) PROVE MergingStill'
    BY <2>9, StartsFresh DEF StartCycle, StartsFresh
  <2> QED
    BY <1>1, <2>1, <2>2, <2>3, <2>4, <2>5, <2>6, <2>7, <2>8, <2>9 DEF RoundStep, Superseded,
      AskCleared, Prepare, LaunchPreparation, FailPreparation
<1>2. CASE SettleStep
  BY <1>2 DEF SettleStep, SettleOn, ResumeSettle, NoActor, WaitForSession, Finish,
    AbandonFails, Skip, StopCycle, CannotStop, PauseResolution, Abandon, Abandoned
<1>3. CASE WorkStep
  BY <1>3 DEF WorkStep, StartSession, EndTurn, SessionExits, EndMerge, PreparationEnds
<1>4. CASE OperatorStep
  BY <1>4 DEF OperatorStep, Pause, Resume, EndResume, ProposeAmendment, RejectAmendment,
    WindDown, WindDownAgain, ResumeOwned, ResumeCycle, AbandonResolution, Investigate,
    ReserveMerge
<1>5. CASE OtherStep
  BY <1>5 DEF OtherStep, Revoke, StartRival, EndRival, Crash, WorkOutside
<1> QED
  BY <1>1, <1>2, <1>3, <1>4, <1>5 DEF Next

\* An agent nobody asked to end works for a live cycle.
LEMMA LiveSessionsStep == Inductive /\ Next => LiveSessions'
<1> SUFFICES ASSUME Inductive, Next PROVE LiveSessions'
  OBVIOUS
<1> USE DEF Inductive, TypeOK, Ended, rows, request, pass, settler, others, Writes, Unwritten,
  GivesUp, Round, Become, Ask, Acts, Faults, LiveCycle, Still, EndSettle, BeginSettle,
  Stepping, Stoppable, Held, Accepts, InUse, LiveSessions
<1>1. CASE RoundStep
  BY <1>1 DEF RoundStep, Advance, EnterEntries, Superseded, HoldEntry, FailRound, EndRound,
    AskCleared, ResumeCleared, Prepare, Reserve, LaunchPreparation, FailPreparation,
    BeginEntry, StartCycle
<1>2. CASE SettleStep
  BY <1>2 DEF SettleStep, SettleOn, ResumeSettle, NoActor, WaitForSession, Finish,
    AbandonFails, Skip, StopCycle, CannotStop, PauseResolution, Abandon, Abandoned
<1>3. CASE WorkStep
  <2>1. ASSUME NEW e \in Entries, StartSession(e) PROVE LiveSessions'
    BY <2>1 DEF StartSession
  <2>2. ASSUME NEW e \in Entries, EndTurn(e) PROVE LiveSessions'
    BY <2>2 DEF EndTurn
  <2>3. ASSUME NEW e \in Entries, SessionExits(e) PROVE LiveSessions'
    BY <2>3 DEF SessionExits
  <2>4. ASSUME NEW e \in Entries, EndMerge(e) PROVE LiveSessions'
    <3>1. session' = session /\ session[e] = "none"
      BY <2>4 DEF EndMerge, MergingStill
    <3>2. \A x \in Entries : x # e => cycle'[x] = cycle[x]
      BY <2>4 DEF EndMerge
    <3> QED
      BY <3>1, <3>2
  <2>5. ASSUME NEW d \in Decisions, PreparationEnds(d) PROVE LiveSessions'
    BY <2>5 DEF PreparationEnds
  <2> QED
    BY <1>3, <2>1, <2>2, <2>3, <2>4, <2>5 DEF WorkStep
<1>4. CASE OperatorStep
  BY <1>4 DEF OperatorStep, Pause, Resume, EndResume, ProposeAmendment, RejectAmendment,
    WindDown, WindDownAgain, ResumeOwned, ResumeCycle, AbandonResolution, Investigate,
    ReserveMerge
<1>5. CASE OtherStep
  BY <1>5 DEF OtherStep, Revoke, StartRival, EndRival, Crash, WorkOutside
<1> QED
  BY <1>1, <1>2, <1>3, <1>4, <1>5 DEF Next

\* The entry a round starts has no cycle yet.
LEMMA StartsFreshStep == Inductive /\ Next => StartsFresh'
<1> SUFFICES ASSUME Inductive, Next PROVE StartsFresh'
  OBVIOUS
<1> USE DEF Inductive, TypeOK, Ended, rows, request, pass, settler, others, Writes, Unwritten,
  GivesUp, Round, Become, Ask, Acts, Faults, LiveCycle, Still, EndSettle, BeginSettle,
  Stepping, Stoppable, Held, Accepts, InUse, StartsFresh
<1>1. CASE RoundStep
  BY <1>1 DEF RoundStep, Advance, EnterEntries, Superseded, HoldEntry, FailRound, EndRound,
    AskCleared, ResumeCleared, Prepare, Reserve, LaunchPreparation, FailPreparation,
    BeginEntry, StartCycle
<1>2. CASE SettleStep
  BY <1>2 DEF SettleStep, SettleOn, ResumeSettle, NoActor, WaitForSession, Finish,
    AbandonFails, Skip, StopCycle, CannotStop, PauseResolution, Abandon, Abandoned
<1>3. CASE WorkStep
  <2>1. ASSUME NEW e \in Entries, StartSession(e) PROVE StartsFresh'
    BY <2>1 DEF StartSession
  <2>2. ASSUME NEW e \in Entries, EndTurn(e) PROVE StartsFresh'
    BY <2>2 DEF EndTurn
  <2>3. ASSUME NEW e \in Entries, EndMerge(e) PROVE StartsFresh'
    BY <2>3 DEF EndMerge, MergingStill
  <2> QED
    BY <1>3, <2>1, <2>2, <2>3 DEF WorkStep, SessionExits, PreparationEnds
<1>4. CASE OperatorStep
  BY <1>4 DEF OperatorStep, Pause, Resume, EndResume, ProposeAmendment, RejectAmendment,
    WindDown, WindDownAgain, ResumeOwned, ResumeCycle, AbandonResolution, Investigate,
    ReserveMerge
<1>5. CASE OtherStep
  BY <1>5 DEF OtherStep, Revoke, StartRival, EndRival, Crash, WorkOutside
<1> QED
  BY <1>1, <1>2, <1>3, <1>4, <1>5 DEF Next

\* A settled roadmap stays still.
LEMMA SettledIsStillStep == Inductive /\ Next => SettledIsStill'
<1> SUFFICES ASSUME Inductive, Next PROVE SettledIsStill'
  OBVIOUS
<1> USE DEF Inductive, TypeOK, Ended, rows, request, pass, settler, others, Writes, Unwritten,
  GivesUp, Round, Become, Ask, Acts, Faults, LiveCycle, Still, EndSettle, BeginSettle,
  Stepping, Stoppable, Held, Accepts, InUse, SettledIsStill
<1>1. CASE RoundStep
  BY <1>1 DEF RoundStep, Advance, EnterEntries, Superseded, HoldEntry, FailRound, EndRound,
    AskCleared, ResumeCleared, Prepare, Reserve, LaunchPreparation, FailPreparation,
    BeginEntry, StartCycle
<1>2. CASE SettleStep
  <2>1. CASE Finish
    <3> SUFFICES ASSUME record' = "settled" PROVE SettledIsStill'
      OBVIOUS
    <3>1. record = "settling"
      BY <2>1 DEF Finish, SettlingHeld
    <3>2. /\ \A e \in Entries : ~LiveCycle(e)
          /\ status' \in Ended /\ retired' = chosen
      BY <3>1, <2>1 DEF Finish
    <3>3. UNCHANGED <<cycle, session, chosen>>
      BY <2>1 DEF Finish
    <3>4. ~amendment'
      BY <2>1 DEF Finish
    <3>5. \A e \in Entries : ~LiveCycle(e)' /\ session'[e] # "live"
      BY <3>2, <3>3 DEF LiveSessions
    <3> QED
      BY <3>2, <3>3, <3>4, <3>5
  <2>2. ASSUME NEW e \in Entries, StopCycle(e) PROVE SettledIsStill'
    BY <2>2 DEF StopCycle
  <2>3. ASSUME NEW e \in Entries, PauseResolution(e) PROVE SettledIsStill'
    BY <2>3 DEF PauseResolution
  <2>4. ASSUME NEW e \in Entries, Abandon(e) PROVE SettledIsStill'
    BY <2>4 DEF Abandon
  <2>5. ASSUME NEW e \in Entries, Abandoned(e) PROVE SettledIsStill'
    BY <2>5 DEF Abandoned
  <2> QED
    BY <1>2, <2>1, <2>2, <2>3, <2>4, <2>5 DEF SettleStep, SettleOn, ResumeSettle, NoActor,
      WaitForSession, AbandonFails, Skip, CannotStop
<1>3. CASE WorkStep
  BY <1>3 DEF WorkStep, StartSession, EndTurn, SessionExits, EndMerge, PreparationEnds
<1>4. CASE OperatorStep
  <2>1. CASE Pause
    BY <2>1 DEF Pause
  <2>2. CASE Resume
    BY <2>2 DEF Resume
  <2>3. CASE EndResume
    <3>1. CASE "resume" \in fresh
      BY <2>3, <3>1 DEF EndResume, ResumeLives
    <3>2. CASE "resume" \notin fresh
      <4>1. UNCHANGED <<status, record, amendment, retired, chosen, cycle, session>>
        BY <2>3, <3>2 DEF EndResume
      <4> QED
        BY <4>1
    <3> QED
      BY <3>1, <3>2
  <2>4. CASE ProposeAmendment
    BY <2>4 DEF ProposeAmendment
  <2>5. CASE RejectAmendment
    BY <2>5 DEF RejectAmendment
  <2>6. ASSUME NEW R \in SUBSET Versions, WindDown(R) PROVE SettledIsStill'
    BY <2>6 DEF WindDown
  <2>7. ASSUME NEW R \in SUBSET Versions, WindDownAgain(R) PROVE SettledIsStill'
    BY <2>7 DEF WindDownAgain
  <2>8. ASSUME NEW e \in Entries, ResumeOwned(e) PROVE SettledIsStill'
    BY <2>8 DEF ResumeOwned
  <2>9. ASSUME NEW e \in Entries, ResumeCycle(e) PROVE SettledIsStill'
    BY <2>9 DEF ResumeCycle
  <2>10. ASSUME NEW e \in Entries, AbandonResolution(e) PROVE SettledIsStill'
    BY <2>10 DEF AbandonResolution
  <2>11. ASSUME NEW e \in Entries, Investigate(e) PROVE SettledIsStill'
    BY <2>11 DEF Investigate
  <2> QED
    BY <1>4, <2>1, <2>2, <2>3, <2>4, <2>5, <2>6, <2>7, <2>8, <2>9, <2>10, <2>11 DEF
      OperatorStep, ReserveMerge
<1>5. CASE OtherStep
  BY <1>5 DEF OtherStep, Revoke, StartRival, EndRival, Crash, WorkOutside
<1> QED
  BY <1>1, <1>2, <1>3, <1>4, <1>5 DEF Next

\* No other roadmap comes to run a version that is retired or about to be.
LEMMA RetiringVersionsRestStep == Inductive /\ Next => RetiringVersionsRest'
<1> SUFFICES ASSUME Inductive, Next PROVE RetiringVersionsRest'
  OBVIOUS
<1> USE DEF Inductive, TypeOK, Ended, rows, request, pass, settler, others, Writes, Unwritten,
  GivesUp, Round, Become, Ask, Acts, Faults, LiveCycle, Still, EndSettle, BeginSettle,
  Stepping, Stoppable, Held, Accepts, InUse, RetiringVersionsRest
<1>1. CASE RoundStep
  BY <1>1 DEF RoundStep, Advance, EnterEntries, Superseded, HoldEntry, FailRound, EndRound,
    AskCleared, ResumeCleared, Prepare, Reserve, LaunchPreparation, FailPreparation,
    BeginEntry, StartCycle
<1>2. CASE SettleStep
  BY <1>2 DEF SettleStep, SettleOn, ResumeSettle, NoActor, WaitForSession, Finish,
    AbandonFails, Skip, StopCycle, CannotStop, PauseResolution, Abandon, Abandoned
<1>3. CASE WorkStep
  BY <1>3 DEF WorkStep, StartSession, EndTurn, SessionExits, EndMerge, PreparationEnds
<1>4. CASE OperatorStep
  <2>1. CASE Pause
    BY <2>1 DEF Pause
  <2>2. CASE ProposeAmendment
    BY <2>2 DEF ProposeAmendment
  <2>3. ASSUME NEW R \in SUBSET Versions, WindDown(R) PROVE RetiringVersionsRest'
    <3>1. /\ UNCHANGED <<rival, retired>>
          /\ record' = "settling" /\ chosen' = chosen \cup R
      BY <2>3 DEF WindDown
    <3>2. ASSUME rival = "running" PROVE RivalVersions \cap (retired \cup chosen \cup R) = {}
      <4>1. RivalVersions \cap (R \ retired) = {}
        BY <3>2, <2>3 DEF WindDown
      <4>2. chosen \subseteq retired
        BY <2>3 DEF WindDown, Unchosen, SettledIsStill
      <4>3. RivalVersions \cap retired = {}
        BY <3>2
      <4> QED
        BY <4>1, <4>2, <4>3
    <3> QED
      BY <3>1, <3>2
  <2>4. ASSUME NEW R \in SUBSET Versions, WindDownAgain(R) PROVE RetiringVersionsRest'
    BY <2>4 DEF WindDownAgain
  <2> QED
    BY <1>4, <2>1, <2>2, <2>3, <2>4 DEF OperatorStep, Resume, EndResume, RejectAmendment,
      ResumeOwned, ResumeCycle, AbandonResolution, Investigate, ReserveMerge
<1>5. CASE OtherStep
  BY <1>5 DEF OtherStep, Revoke, StartRival, EndRival, Crash, WorkOutside
<1> QED
  BY <1>1, <1>2, <1>3, <1>4, <1>5 DEF Next

\* Every step keeps the inductive invariant.
LEMMA InductiveStep == Inductive /\ [Next]_vars => Inductive'
<1> SUFFICES ASSUME Inductive, [Next]_vars PROVE Inductive'
  OBVIOUS
<1>1. CASE Next
  <2>1. TypeOK'
    BY <1>1, RoundTypeStep, SettleTypeStep, WorkTypeStep, OperatorTypeStep, OtherTypeStep
      DEF Inductive, Next
  <2> QED
    BY <1>1, <2>1, SettlingHeldStep, UnchosenStep, ResumeLivesStep, MergingStillStep,
      LiveSessionsStep, StartsFreshStep, SettledIsStillStep, RetiringVersionsRestStep
      DEF Inductive
<1>2. CASE UNCHANGED vars
  BY <1>2 DEF vars, rows, request, pass, settler, others, Inductive, TypeOK, SettlingHeld,
    Unchosen, ResumeLives, MergingStill, LiveSessions, StartsFresh, SettledIsStill,
    RetiringVersionsRest, LiveCycle
<1> QED
  BY <1>1, <1>2

LEMMA Invariance == Spec => []Inductive
<1> QED
  BY InductiveInit, InductiveStep, PTL DEF Spec

\* Every variable keeps its type, and a settlement is never under way twice.
THEOREM TypeCorrect == Spec => []TypeOK
<1>1. Inductive => TypeOK
  BY DEF Inductive
<1> QED
  BY Invariance, <1>1, PTL

\* Once Stop or a wind-down has settled (roadmap-settlement.ts, finish), no cycle of the roadmap is
\* live, no agent works for it that nobody asked to end, no amendment waits, and every chosen
\* version is retired, however rounds, commands, agents, others and crashes interleave.
THEOREM SettledStays == Spec => []SettledIsStill
<1>1. Inductive => SettledIsStill
  BY DEF Inductive
<1> QED
  BY Invariance, <1>1, PTL

\* No other roadmap runs a version that is retired or chosen (retired-versions.ts).
THEOREM RetiredForGood == Spec => []RetiringVersionsRest
<1>1. Inductive => RetiringVersionsRest
  BY DEF Inductive
<1> QED
  BY Invariance, <1>1, PTL

\* No step takes a roadmap out of stopped or completed.
LEMMA EndedStep == Inductive /\ [Next]_vars /\ status \in Ended => status' = status
<1> SUFFICES ASSUME Inductive, [Next]_vars, status \in Ended PROVE status' = status
  OBVIOUS
<1> USE DEF Inductive, Ended, Writes, Unwritten, GivesUp, ResumeLives
<1>1. CASE RoundStep
  BY <1>1 DEF RoundStep, Advance, EnterEntries, Superseded, HoldEntry, FailRound, EndRound,
    AskCleared, ResumeCleared, Prepare, Reserve, LaunchPreparation, FailPreparation,
    BeginEntry, StartCycle, Held, TypeOK
<1>2. CASE SettleStep
  BY <1>2 DEF SettleStep, SettleOn, ResumeSettle, NoActor, WaitForSession, Finish,
    AbandonFails, Skip, StopCycle, CannotStop, PauseResolution, Abandon, Abandoned
<1>3. CASE WorkStep
  BY <1>3 DEF WorkStep, StartSession, EndTurn, SessionExits, EndMerge, PreparationEnds
<1>4. CASE OperatorStep
  BY <1>4 DEF OperatorStep, Pause, Resume, EndResume, ProposeAmendment, RejectAmendment,
    WindDown, WindDownAgain, ResumeOwned, ResumeCycle, AbandonResolution, Investigate,
    ReserveMerge, Held, TypeOK
<1>5. CASE OtherStep
  BY <1>5 DEF OtherStep, Revoke, StartRival, EndRival, Crash, WorkOutside
<1>6. CASE UNCHANGED vars
  BY <1>6 DEF vars
<1> QED
  BY <1>1, <1>2, <1>3, <1>4, <1>5, <1>6 DEF Next

\* A roadmap that has ended is never revived (a pass, a command, an amendment or a restart that
\* read it before it ended).
THEOREM EndedStays == Spec => EndedForGood
<1>1. Inductive /\ [Next]_vars => [(status \in Ended) => (status' = status)]_vars
  BY EndedStep
<1> QED
  BY Invariance, <1>1, PTL DEF Spec, EndedForGood
==============================================================================
