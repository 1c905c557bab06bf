------------------------ MODULE CycleControllerProofs ------------------------
(***************************************************************************)
(* TLAPS proofs about CycleController, for any set of cycles.              *)
(***************************************************************************)
EXTENDS CycleController, TLAPS

\* The controller starts with its variables in their types.
LEMMA TypeInit == Init => TypeOK
<1> SUFFICES ASSUME Init PROVE TypeOK
  OBVIOUS
<1>1. need \in [Cycles -> Needs] /\ limited \subseteq Cycles /\ due \in [Cycles -> DueTimes]
  BY CyclesAssumption DEF Init, Needs, DueTimes
<1>2. push \in [open : BOOLEAN, owed : SUBSET Cycles, began : BOOLEAN, kept : BOOLEAN,
    passed : BOOLEAN]
  BY DEF Init, NoPush
<1>3. stale \in [Cycles -> Needs \cup {"no"}] /\ \A c \in Cycles : stale[c] # "no" => c \in rest
  BY DEF Init, Needs
<1> QED
  BY <1>1, <1>2, <1>3 DEF Init, TypeOK

\* No step of the controller, or around it, takes a variable out of its type.
LEMMA TypeStep == TypeOK /\ [Next]_vars => TypeOK'
<1> SUFFICES ASSUME TypeOK, [Next]_vars PROVE TypeOK'
  OBVIOUS
<1> USE CyclesAssumption DEF TypeOK, Needs, DueTimes, marks, lane, round
<1>1. CASE Take
  <2>1. CASE ~Pending
    BY <1>1, <2>1 DEF Take, Pending
  <2>2. CASE Pending
    <3>1. /\ rest' \subseteq Cycles
          /\ UNCHANGED <<need, limited, stale, job, held, refreshing, unseen>>
          /\ everything' = FALSE /\ keys' = {} /\ loop' = "round" /\ meanwhile' \in BOOLEAN
      BY <1>1, <2>2 DEF Take
    <3>2. waiting' \subseteq Cycles /\ before' \subseteq waiting' \X waiting' /\ behind' \subseteq waiting'
      BY <1>1, <2>2 DEF Take, Keeping
    <3>3. due' \in [Cycles -> DueTimes]
      BY <1>1, <2>2 DEF Take
    <3>4. push' = [push EXCEPT !.began = push.open]
      BY <1>1, <2>2 DEF Take
    <3>5. \A c \in Cycles : stale[c] = "no"
      BY <1>1 DEF Take
    <3> QED
      BY <3>1, <3>2, <3>3, <3>4, <3>5
  <2> QED
    BY <2>1, <2>2
<1>2. CASE EndRound
  BY <1>2 DEF EndRound
<1>3. CASE JobWrites
  BY <1>3 DEF JobWrites, Becomes, MarkAll, Wake, Active
<1>4. CASE JobEnds
  <2>1. due' \in [Cycles -> DueTimes]
    BY <1>4 DEF JobEnds, LookAgain
  <2>2. push' \in [open : BOOLEAN, owed : SUBSET Cycles, began : BOOLEAN, kept : BOOLEAN,
      passed : BOOLEAN]
    BY <1>4 DEF JobEnds, Settled
  <2>3. /\ UNCHANGED <<need, limited, round, waiting, before, held, refreshing>>
        /\ UNCHANGED <<unseen, everything>>
        /\ job' = NoCycle /\ meanwhile' = FALSE /\ behind' = {}
    BY <1>4 DEF JobEnds, Mark
  <2>4. /\ keys' \subseteq Cycles /\ (everything => keys' = {})
        /\ (loop' # loop => loop = "parked" /\ loop' = "ready")
    BY <1>4 DEF JobEnds, Mark, Wake
  <2> QED
    BY <2>1, <2>2, <2>3, <2>4
<1>5. CASE Sweep
  BY <1>5 DEF Sweep, MarkAll, Wake
<1>6. CASE OpenItem
  BY <1>6 DEF OpenItem, Active, NoPush
<1>7. CASE CloseItem
  BY <1>7 DEF CloseItem, NoPush
<1>8. ASSUME NEW c \in Cycles, Write(c) PROVE TypeOK'
  BY <1>8 DEF Write, Becomes, MarkAll, Wake, Active
<1>9. ASSUME NEW c \in Cycles, Start(c) PROVE TypeOK'
  BY <1>9 DEF Start, Becomes, MarkAll, Wake, Active
<1>10. ASSUME NEW c \in Cycles, SilentChange(c) PROVE TypeOK'
  BY <1>10 DEF SilentChange
<1>11. ASSUME NEW c \in Cycles, Expire(c) PROVE TypeOK'
  BY <1>11 DEF Expire, Mark, NoMark, Wake
<1>12. ASSUME NEW c \in Cycles, FireDue(c) PROVE TypeOK'
  BY <1>12 DEF FireDue, Mark, Wake
<1>13. ASSUME NEW c \in Cycles, Hold(c) PROVE TypeOK'
  BY <1>13 DEF Hold, Active
<1>14. ASSUME NEW c \in Cycles, Release(c) PROVE TypeOK'
  BY <1>14 DEF Release, Mark, Wake
<1>15. ASSUME NEW c \in Cycles, RefreshBegins(c) PROVE TypeOK'
  BY <1>15 DEF RefreshBegins, Active
<1>16. ASSUME NEW c \in Cycles, RefreshEnds(c) PROVE TypeOK'
  BY <1>16 DEF RefreshEnds, Mark, Wake
<1>17. ASSUME NEW c \in Cycles, LookBusy(c) PROVE TypeOK'
  BY <1>17 DEF LookBusy, Looks, GivesUp, Keeping
<1>18. ASSUME NEW c \in Cycles, LookIdle(c) PROVE TypeOK'
  BY <1>18 DEF LookIdle, Looks, Decides, LookAgain, Seen, Settled, GivesUp, Keeping
<1>19. ASSUME NEW c \in Cycles, CarryOut(c) PROVE TypeOK'
  BY <1>19 DEF CarryOut, Looks, Becomes, MarkAll, Wake, Settled, GivesUp, Keeping
<1>20. ASSUME NEW c \in Cycles, LookFails(c) PROVE TypeOK'
  BY <1>20 DEF LookFails, Looks, Decides, Settled, GivesUp, Keeping
<1>21. ASSUME NEW c \in Cycles, LookWaits(c) PROVE TypeOK'
  BY <1>21 DEF LookWaits, Looks, Decides, LookAgain
<1>22. ASSUME NEW c \in Cycles, Dispatch(c) PROVE TypeOK'
  BY <1>22 DEF Dispatch, Looks, Decides, GivesUp, Keeping, Seen
<1>23. CASE UNCHANGED vars
  BY <1>23 DEF vars
<1> QED
  BY <1>1, <1>2, <1>3, <1>4, <1>5, <1>6, <1>7, <1>8, <1>9, <1>10, <1>11, <1>12, <1>13, <1>14,
      <1>15, <1>16, <1>17, <1>18, <1>19, <1>20, <1>21, <1>22, <1>23 DEF Next, Look, Around

\* A round leaves the job's cycle out, and a cycle given the lane has left the round.
LEMMA ApartStep ==
    TypeOK /\ JobApart /\ [Next]_vars
        => JobApart'
<1> SUFFICES ASSUME TypeOK, JobApart, [Next]_vars PROVE JobApart'
  OBVIOUS
<1> USE CyclesAssumption DEF TypeOK, Needs, DueTimes, marks, lane, round, JobApart
<1>1. CASE Take
  BY <1>1 DEF Take, Pending, Keeping
<1>2. CASE EndRound
  BY <1>2 DEF EndRound
<1>3. CASE JobWrites
  BY <1>3 DEF JobWrites, Becomes, MarkAll, Wake, Active
<1>4. CASE JobEnds
  BY <1>4 DEF JobEnds, Mark, Wake, LookAgain, Settled
<1>5. CASE Sweep
  BY <1>5 DEF Sweep, MarkAll, Wake
<1>6. CASE OpenItem
  BY <1>6 DEF OpenItem, Active, NoPush
<1>7. CASE CloseItem
  BY <1>7 DEF CloseItem, NoPush
<1>8. ASSUME NEW c \in Cycles, Write(c) PROVE JobApart'
  BY <1>8 DEF Write, Becomes, MarkAll, Wake, Active
<1>9. ASSUME NEW c \in Cycles, Start(c) PROVE JobApart'
  BY <1>9 DEF Start, Becomes, MarkAll, Wake, Active
<1>10. ASSUME NEW c \in Cycles, SilentChange(c) PROVE JobApart'
  BY <1>10 DEF SilentChange
<1>11. ASSUME NEW c \in Cycles, Expire(c) PROVE JobApart'
  BY <1>11 DEF Expire, Mark, NoMark, Wake
<1>12. ASSUME NEW c \in Cycles, FireDue(c) PROVE JobApart'
  BY <1>12 DEF FireDue, Mark, Wake
<1>13. ASSUME NEW c \in Cycles, Hold(c) PROVE JobApart'
  BY <1>13 DEF Hold, Active
<1>14. ASSUME NEW c \in Cycles, Release(c) PROVE JobApart'
  BY <1>14 DEF Release, Mark, Wake
<1>15. ASSUME NEW c \in Cycles, RefreshBegins(c) PROVE JobApart'
  BY <1>15 DEF RefreshBegins, Active
<1>16. ASSUME NEW c \in Cycles, RefreshEnds(c) PROVE JobApart'
  BY <1>16 DEF RefreshEnds, Mark, Wake
<1>17. ASSUME NEW c \in Cycles, LookBusy(c) PROVE JobApart'
  BY <1>17 DEF LookBusy, Looks, GivesUp, Keeping
<1>18. ASSUME NEW c \in Cycles, LookIdle(c) PROVE JobApart'
  BY <1>18 DEF LookIdle, Looks, Decides, LookAgain, Seen, Settled, GivesUp, Keeping
<1>19. ASSUME NEW c \in Cycles, CarryOut(c) PROVE JobApart'
  BY <1>19 DEF CarryOut, Looks, Becomes, MarkAll, Wake, Settled, GivesUp, Keeping
<1>20. ASSUME NEW c \in Cycles, LookFails(c) PROVE JobApart'
  BY <1>20 DEF LookFails, Looks, Decides, Settled, GivesUp, Keeping
<1>21. ASSUME NEW c \in Cycles, LookWaits(c) PROVE JobApart'
  BY <1>21 DEF LookWaits, Looks, Decides, LookAgain
<1>22. ASSUME NEW c \in Cycles, Dispatch(c) PROVE JobApart'
  BY <1>22 DEF Dispatch, Looks, Decides, GivesUp, Keeping, Seen
<1>23. CASE UNCHANGED vars
  BY <1>23 DEF vars
<1> QED
  BY <1>1, <1>2, <1>3, <1>4, <1>5, <1>6, <1>7, <1>8, <1>9, <1>10, <1>11, <1>12, <1>13, <1>14,
      <1>15, <1>16, <1>17, <1>18, <1>19, <1>20, <1>21, <1>22, <1>23 DEF Next, Look, Around

\* A write under a round marks every cycle, and only the next round takes that mark.
LEMMA StaleStep ==
    TypeOK /\ StaleMarked /\ [Next]_vars
        => StaleMarked'
<1> SUFFICES ASSUME TypeOK, StaleMarked, [Next]_vars PROVE StaleMarked'
  OBVIOUS
<1> USE CyclesAssumption DEF TypeOK, Needs, DueTimes, marks, lane, round, StaleMarked
<1>1. CASE Take
  BY <1>1 DEF Take, Pending, Keeping
<1>2. CASE EndRound
  BY <1>2 DEF EndRound
<1>3. CASE JobWrites
  BY <1>3 DEF JobWrites, Becomes, MarkAll, Wake, Active
<1>4. CASE JobEnds
  BY <1>4 DEF JobEnds, Mark, Wake, LookAgain, Settled
<1>5. CASE Sweep
  BY <1>5 DEF Sweep, MarkAll, Wake
<1>6. CASE OpenItem
  BY <1>6 DEF OpenItem, Active, NoPush
<1>7. CASE CloseItem
  BY <1>7 DEF CloseItem, NoPush
<1>8. ASSUME NEW c \in Cycles, Write(c) PROVE StaleMarked'
  BY <1>8 DEF Write, Becomes, MarkAll, Wake, Active
<1>9. ASSUME NEW c \in Cycles, Start(c) PROVE StaleMarked'
  BY <1>9 DEF Start, Becomes, MarkAll, Wake, Active
<1>10. ASSUME NEW c \in Cycles, SilentChange(c) PROVE StaleMarked'
  BY <1>10 DEF SilentChange
<1>11. ASSUME NEW c \in Cycles, Expire(c) PROVE StaleMarked'
  BY <1>11 DEF Expire, Mark, NoMark, Wake
<1>12. ASSUME NEW c \in Cycles, FireDue(c) PROVE StaleMarked'
  BY <1>12 DEF FireDue, Mark, Wake
<1>13. ASSUME NEW c \in Cycles, Hold(c) PROVE StaleMarked'
  BY <1>13 DEF Hold, Active
<1>14. ASSUME NEW c \in Cycles, Release(c) PROVE StaleMarked'
  BY <1>14 DEF Release, Mark, Wake
<1>15. ASSUME NEW c \in Cycles, RefreshBegins(c) PROVE StaleMarked'
  BY <1>15 DEF RefreshBegins, Active
<1>16. ASSUME NEW c \in Cycles, RefreshEnds(c) PROVE StaleMarked'
  BY <1>16 DEF RefreshEnds, Mark, Wake
<1>17. ASSUME NEW c \in Cycles, LookBusy(c) PROVE StaleMarked'
  BY <1>17 DEF LookBusy, Looks, GivesUp, Keeping
<1>18. ASSUME NEW c \in Cycles, LookIdle(c) PROVE StaleMarked'
  BY <1>18 DEF LookIdle, Looks, Decides, LookAgain, Seen, Settled, GivesUp, Keeping
<1>19. ASSUME NEW c \in Cycles, CarryOut(c) PROVE StaleMarked'
  BY <1>19 DEF CarryOut, Looks, Becomes, MarkAll, Wake, Settled, GivesUp, Keeping
<1>20. ASSUME NEW c \in Cycles, LookFails(c) PROVE StaleMarked'
  BY <1>20 DEF LookFails, Looks, Decides, Settled, GivesUp, Keeping
<1>21. ASSUME NEW c \in Cycles, LookWaits(c) PROVE StaleMarked'
  BY <1>21 DEF LookWaits, Looks, Decides, LookAgain
<1>22. ASSUME NEW c \in Cycles, Dispatch(c) PROVE StaleMarked'
  BY <1>22 DEF Dispatch, Looks, Decides, GivesUp, Keeping, Seen
<1>23. CASE UNCHANGED vars
  BY <1>23 DEF vars
<1> QED
  BY <1>1, <1>2, <1>3, <1>4, <1>5, <1>6, <1>7, <1>8, <1>9, <1>10, <1>11, <1>12, <1>13, <1>14,
      <1>15, <1>16, <1>17, <1>18, <1>19, <1>20, <1>21, <1>22, <1>23 DEF Next, Look, Around

\* A change of the job's cycle is still marked, or a round that met it is remembered.
LEMMA KeptStep ==
    TypeOK /\ JobApart /\ StaleMarked /\ JobKept /\ LimitsKept /\ [Next]_vars
        => JobKept'
<1> SUFFICES ASSUME TypeOK, JobApart, StaleMarked, JobKept, LimitsKept, [Next]_vars PROVE JobKept'
  OBVIOUS
<1> USE CyclesAssumption DEF TypeOK, Needs, DueTimes, marks, lane, round, JobApart, StaleMarked,
    JobKept, LimitsKept, Marked, Active
<1>1. CASE Take
  BY <1>1 DEF Take, Pending, Keeping
<1>2. CASE EndRound
  BY <1>2 DEF EndRound
<1>3. CASE JobWrites
  BY <1>3 DEF JobWrites, Becomes, MarkAll, Wake, Active
<1>4. CASE JobEnds
  BY <1>4 DEF JobEnds, Mark, Wake, LookAgain, Settled
<1>5. CASE Sweep
  BY <1>5 DEF Sweep, MarkAll, Wake
<1>6. CASE OpenItem
  BY <1>6 DEF OpenItem, Active, NoPush
<1>7. CASE CloseItem
  BY <1>7 DEF CloseItem, NoPush
<1>8. ASSUME NEW c \in Cycles, Write(c) PROVE JobKept'
  BY <1>8 DEF Write, Becomes, MarkAll, Wake, Active
<1>9. ASSUME NEW c \in Cycles, Start(c) PROVE JobKept'
  BY <1>9 DEF Start, Becomes, MarkAll, Wake, Active
<1>10. ASSUME NEW c \in Cycles, SilentChange(c) PROVE JobKept'
  BY <1>10 DEF SilentChange
<1>11. ASSUME NEW c \in Cycles, Expire(c) PROVE JobKept'
  BY <1>11 DEF Expire, Mark, NoMark, Wake
<1>12. ASSUME NEW c \in Cycles, FireDue(c) PROVE JobKept'
  BY <1>12 DEF FireDue, Mark, Wake
<1>13. ASSUME NEW c \in Cycles, Hold(c) PROVE JobKept'
  BY <1>13 DEF Hold, Active
<1>14. ASSUME NEW c \in Cycles, Release(c) PROVE JobKept'
  BY <1>14 DEF Release, Mark, Wake
<1>15. ASSUME NEW c \in Cycles, RefreshBegins(c) PROVE JobKept'
  BY <1>15 DEF RefreshBegins, Active
<1>16. ASSUME NEW c \in Cycles, RefreshEnds(c) PROVE JobKept'
  BY <1>16 DEF RefreshEnds, Mark, Wake
<1>17. ASSUME NEW c \in Cycles, LookBusy(c) PROVE JobKept'
  BY <1>17 DEF LookBusy, Looks, GivesUp, Keeping
<1>18. ASSUME NEW c \in Cycles, LookIdle(c) PROVE JobKept'
  BY <1>18 DEF LookIdle, Looks, Decides, LookAgain, Seen, Settled, GivesUp, Keeping
<1>19. ASSUME NEW c \in Cycles, CarryOut(c) PROVE JobKept'
  BY <1>19 DEF CarryOut, Looks, Becomes, MarkAll, Wake, Settled, GivesUp, Keeping
<1>20. ASSUME NEW c \in Cycles, LookFails(c) PROVE JobKept'
  BY <1>20 DEF LookFails, Looks, Decides, Settled, GivesUp, Keeping
<1>21. ASSUME NEW c \in Cycles, LookWaits(c) PROVE JobKept'
  BY <1>21 DEF LookWaits, Looks, Decides, LookAgain
<1>22. ASSUME NEW c \in Cycles, Dispatch(c) PROVE JobKept'
  BY <1>22 DEF Dispatch, Looks, Decides, GivesUp, Keeping, Seen
<1>23. CASE UNCHANGED vars
  BY <1>23 DEF vars
<1> QED
  BY <1>1, <1>2, <1>3, <1>4, <1>5, <1>6, <1>7, <1>8, <1>9, <1>10, <1>11, <1>12, <1>13, <1>14,
      <1>15, <1>16, <1>17, <1>18, <1>19, <1>20, <1>21, <1>22, <1>23 DEF Next, Look, Around

\* A limit ahead keeps its due time until a look sets it afresh, a retry stands in for it,
\* or the job is still to set it.
LEMMA LimitsStep ==
    TypeOK /\ NothingUnseen /\ JobApart /\ StaleMarked /\ JobKept /\ [Next]_vars
        => LimitsKept'
<1> SUFFICES ASSUME TypeOK, NothingUnseen, JobApart, StaleMarked, JobKept,
    [Next]_vars PROVE LimitsKept'
  OBVIOUS
<1> USE CyclesAssumption DEF TypeOK, Needs, DueTimes, marks, lane, round, NothingUnseen,
    ChangesKept, JobApart, StaleMarked, JobKept, LimitsKept, Marked, Awaited, Active
<1>1. CASE Take
  BY <1>1 DEF Take, Pending, Keeping
<1>2. CASE EndRound
  BY <1>2 DEF EndRound
<1>3. CASE JobWrites
  BY <1>3 DEF JobWrites, Becomes, MarkAll, Wake, Active
<1>4. CASE JobEnds
  BY <1>4 DEF JobEnds, Mark, Wake, LookAgain, Settled
<1>5. CASE Sweep
  BY <1>5 DEF Sweep, MarkAll, Wake
<1>6. CASE OpenItem
  BY <1>6 DEF OpenItem, Active, NoPush
<1>7. CASE CloseItem
  BY <1>7 DEF CloseItem, NoPush
<1>8. ASSUME NEW c \in Cycles, Write(c) PROVE LimitsKept'
  BY <1>8 DEF Write, Becomes, MarkAll, Wake, Active
<1>9. ASSUME NEW c \in Cycles, Start(c) PROVE LimitsKept'
  BY <1>9 DEF Start, Becomes, MarkAll, Wake, Active
<1>10. ASSUME NEW c \in Cycles, SilentChange(c) PROVE LimitsKept'
  BY <1>10 DEF SilentChange
<1>11. ASSUME NEW c \in Cycles, Expire(c) PROVE LimitsKept'
  BY <1>11 DEF Expire, Mark, NoMark, Wake
<1>12. ASSUME NEW c \in Cycles, FireDue(c) PROVE LimitsKept'
  BY <1>12 DEF FireDue, Mark, Wake
<1>13. ASSUME NEW c \in Cycles, Hold(c) PROVE LimitsKept'
  BY <1>13 DEF Hold, Active
<1>14. ASSUME NEW c \in Cycles, Release(c) PROVE LimitsKept'
  BY <1>14 DEF Release, Mark, Wake
<1>15. ASSUME NEW c \in Cycles, RefreshBegins(c) PROVE LimitsKept'
  BY <1>15 DEF RefreshBegins, Active
<1>16. ASSUME NEW c \in Cycles, RefreshEnds(c) PROVE LimitsKept'
  BY <1>16 DEF RefreshEnds, Mark, Wake
<1>17. ASSUME NEW c \in Cycles, LookBusy(c) PROVE LimitsKept'
  BY <1>17 DEF LookBusy, Looks, GivesUp, Keeping
<1>18. ASSUME NEW c \in Cycles, LookIdle(c) PROVE LimitsKept'
  BY <1>18 DEF LookIdle, Looks, Decides, LookAgain, Seen, Settled, GivesUp, Keeping
<1>19. ASSUME NEW c \in Cycles, CarryOut(c) PROVE LimitsKept'
  BY <1>19 DEF CarryOut, Looks, Becomes, MarkAll, Wake, Settled, GivesUp, Keeping
<1>20. ASSUME NEW c \in Cycles, LookFails(c) PROVE LimitsKept'
  BY <1>20 DEF LookFails, Looks, Decides, Settled, GivesUp, Keeping
<1>21. ASSUME NEW c \in Cycles, LookWaits(c) PROVE LimitsKept'
  BY <1>21 DEF LookWaits, Looks, Decides, LookAgain
<1>22. ASSUME NEW c \in Cycles, Dispatch(c) PROVE LimitsKept'
  BY <1>22 DEF Dispatch, Looks, Decides, GivesUp, Keeping, Seen
<1>23. CASE UNCHANGED vars
  BY <1>23 DEF vars
<1> QED
  BY <1>1, <1>2, <1>3, <1>4, <1>5, <1>6, <1>7, <1>8, <1>9, <1>10, <1>11, <1>12, <1>13, <1>14,
      <1>15, <1>16, <1>17, <1>18, <1>19, <1>20, <1>21, <1>22, <1>23 DEF Next, Look, Around

\* The loop does not sleep on a mark.
AwakeWhenMarked == loop = "parked" => ~Pending

\* Whatever takes a mark, a place in the lane or a hold from a changed cycle leaves it another way
\* to be looked at.
LEMMA UnseenStep ==
    TypeOK /\ NothingUnseen /\ JobApart /\ StaleMarked /\ JobKept /\ [Next]_vars
        => ChangesKept' /\ AwakeWhenMarked'
<1> SUFFICES ASSUME TypeOK, NothingUnseen, JobApart, StaleMarked, JobKept,
    [Next]_vars PROVE ChangesKept' /\ AwakeWhenMarked'
  OBVIOUS
<1> USE CyclesAssumption DEF TypeOK, Needs, DueTimes, marks, lane, round, NothingUnseen,
    ChangesKept, AwakeWhenMarked, JobApart, StaleMarked, JobKept, LimitsKept, Marked, Pending, Awaited, Active
<1>1. CASE Take
  <2>1. CASE ~Pending
    BY <1>1, <2>1 DEF Take
  <2>2. CASE Pending
    <3>1. loop' = "round"
      BY <1>1, <2>2 DEF Take
    <3>2. ASSUME NEW c \in unseen', Active(c)' PROVE Awaited(c)' \/ c \in behind'
      <4>1. c \in Cycles /\ c \in unseen /\ Active(c) /\ (Awaited(c) \/ c \in behind)
        BY <1>1, <3>2 DEF Take
      <4>2. CASE Marked(c)
        <5>1. /\ rest' = {d \in Cycles : Active(d) /\ Marked(d)} \ (held \cup {job})
              /\ meanwhile' = (meanwhile \/ job \in {d \in Cycles : Active(d) /\ Marked(d)})
              /\ held' = held /\ job' = job
          BY <1>1, <2>2 DEF Take
        <5>2. c \in {d \in Cycles : Active(d) /\ Marked(d)}
          BY <4>1, <4>2
        <5> QED
          BY <5>1, <5>2
      <4>3. CASE c \in rest
        BY <1>1, <4>3 DEF Take
      <4>4. CASE c \in held \cup refreshing \/ (c \in waiting /\ job # NoCycle)
        BY <1>1, <2>2, <4>1, <4>4 DEF Take
      <4>5. CASE c = job /\ meanwhile
        BY <1>1, <2>2, <4>5 DEF Take
      <4>6. CASE due[c] = "retry"
        BY <1>1, <2>2, <4>1, <4>6 DEF Take
      <4>7. CASE c \in behind
        BY <1>1, <2>2, <4>1, <4>7 DEF Take
      <4> QED
        BY <4>1, <4>2, <4>3, <4>4, <4>5, <4>6, <4>7
    <3> QED
      BY <3>1, <3>2
  <2> QED
    BY <2>1, <2>2
<1>2. CASE EndRound
  BY <1>2 DEF EndRound
<1>3. CASE JobWrites
  BY <1>3 DEF JobWrites, Becomes, MarkAll, Wake, Active
<1>4. CASE JobEnds
  BY <1>4 DEF JobEnds, Mark, Wake, LookAgain, Settled
<1>5. CASE Sweep
  BY <1>5 DEF Sweep, MarkAll, Wake
<1>6. CASE OpenItem
  BY <1>6 DEF OpenItem, Active, NoPush
<1>7. CASE CloseItem
  BY <1>7 DEF CloseItem, NoPush
<1>8. ASSUME NEW c \in Cycles, Write(c) PROVE ChangesKept' /\ AwakeWhenMarked'
  BY <1>8 DEF Write, Becomes, MarkAll, Wake, Active
<1>9. ASSUME NEW c \in Cycles, Start(c) PROVE ChangesKept' /\ AwakeWhenMarked'
  BY <1>9 DEF Start, Becomes, MarkAll, Wake, Active
<1>10. ASSUME NEW c \in Cycles, SilentChange(c) PROVE ChangesKept' /\ AwakeWhenMarked'
  BY <1>10 DEF SilentChange
<1>11. ASSUME NEW c \in Cycles, Expire(c) PROVE ChangesKept' /\ AwakeWhenMarked'
  BY <1>11 DEF Expire, Mark, NoMark, Wake
<1>12. ASSUME NEW c \in Cycles, FireDue(c) PROVE ChangesKept' /\ AwakeWhenMarked'
  BY <1>12 DEF FireDue, Mark, Wake
<1>13. ASSUME NEW c \in Cycles, Hold(c) PROVE ChangesKept' /\ AwakeWhenMarked'
  BY <1>13 DEF Hold, Active
<1>14. ASSUME NEW c \in Cycles, Release(c) PROVE ChangesKept' /\ AwakeWhenMarked'
  BY <1>14 DEF Release, Mark, Wake
<1>15. ASSUME NEW c \in Cycles, RefreshBegins(c) PROVE ChangesKept' /\ AwakeWhenMarked'
  BY <1>15 DEF RefreshBegins, Active
<1>16. ASSUME NEW c \in Cycles, RefreshEnds(c) PROVE ChangesKept' /\ AwakeWhenMarked'
  BY <1>16 DEF RefreshEnds, Mark, Wake
<1>17. ASSUME NEW c \in Cycles, LookBusy(c) PROVE ChangesKept' /\ AwakeWhenMarked'
  BY <1>17 DEF LookBusy, Looks, GivesUp, Keeping
<1>18. ASSUME NEW c \in Cycles, LookIdle(c) PROVE ChangesKept' /\ AwakeWhenMarked'
  BY <1>18 DEF LookIdle, Looks, Decides, LookAgain, Seen, Settled, GivesUp, Keeping
<1>19. ASSUME NEW c \in Cycles, CarryOut(c) PROVE ChangesKept' /\ AwakeWhenMarked'
  BY <1>19 DEF CarryOut, Looks, Becomes, MarkAll, Wake, Settled, GivesUp, Keeping
<1>20. ASSUME NEW c \in Cycles, LookFails(c) PROVE ChangesKept' /\ AwakeWhenMarked'
  BY <1>20 DEF LookFails, Looks, Decides, Settled, GivesUp, Keeping
<1>21. ASSUME NEW c \in Cycles, LookWaits(c) PROVE ChangesKept' /\ AwakeWhenMarked'
  BY <1>21 DEF LookWaits, Looks, Decides, LookAgain
<1>22. ASSUME NEW c \in Cycles, Dispatch(c) PROVE ChangesKept' /\ AwakeWhenMarked'
  BY <1>22 DEF Dispatch, Looks, Decides, GivesUp, Keeping, Seen
<1>23. CASE UNCHANGED vars
  BY <1>23 DEF vars
<1> QED
  BY <1>1, <1>2, <1>3, <1>4, <1>5, <1>6, <1>7, <1>8, <1>9, <1>10, <1>11, <1>12, <1>13, <1>14,
      <1>15, <1>16, <1>17, <1>18, <1>19, <1>20, <1>21, <1>22, <1>23 DEF Next, Look, Around

\* The inductive invariant holds as the loop starts: its first mark covers every cycle.
LEMMA InductiveInit == Init => Inductive
  BY TypeInit, CyclesAssumption
  DEF Init, Inductive, NothingUnseen, ChangesKept, LimitsKept, JobApart, StaleMarked, JobKept, Awaited,
      Marked, Active, Pending

\* Each part is kept with the help of the others.
LEMMA InductiveStep == Inductive /\ [Next]_vars => Inductive'
<1> SUFFICES ASSUME Inductive, [Next]_vars PROVE Inductive'
  OBVIOUS
<1>1. TypeOK' /\ JobApart' /\ StaleMarked'
  BY TypeStep, ApartStep, StaleStep DEF Inductive
<1>2. JobKept'
  BY KeptStep DEF Inductive, NothingUnseen
<1>3. NothingUnseen'
  BY LimitsStep, UnseenStep DEF Inductive, NothingUnseen, AwakeWhenMarked
<1> QED
  BY <1>1, <1>2, <1>3 DEF Inductive

\* The model's types hold for any set of cycles, and what its bounds are.
THEOREM TypeCorrect == Spec => []TypeOK
<1>1. Init => TypeOK
  BY TypeInit
<1>2. TypeOK /\ [Next]_vars => TypeOK'
  BY TypeStep
<1> QED
  BY <1>1, <1>2, PTL DEF Spec

\* The job's cycle is in no round.
THEOREM JobIsApart == Spec => []JobApart
<1>1. Init => Inductive
  BY InductiveInit
<1>2. Inductive /\ [Next]_vars => Inductive'
  BY InductiveStep
<1>3. Inductive => JobApart
  BY DEF Inductive
<1> QED
  BY <1>1, <1>2, <1>3, PTL DEF Spec

\* However many cycles there are: no change of a cycle and no deadline is lost between marks, rounds,
\* the lane and holds, but the change of a waiter left to one before it as the lane was free, and a
\* deadline that comes, not due yet, during its cycle's own job.
THEOREM NoChangeIsLost == Spec => []NothingUnseen
<1>1. Init => Inductive
  BY InductiveInit
<1>2. Inductive /\ [Next]_vars => Inductive'
  BY InductiveStep
<1>3. Inductive => NothingUnseen
  BY DEF Inductive
<1> QED
  BY <1>1, <1>2, <1>3, PTL DEF Spec

-----------------------------------------------------------------------------
(* Pushes wait for the controller.                                         *)

\* What an open item still waits for is unseen, or the job's.
OwedKept == \A c \in push.owed : Active(c) => c \in unseen \/ c = job

\* A look that decides a cycle settles what was owed of it; one given to the lane stays owed until the
\* job ends.
LEMMA OwedStep ==
    TypeOK /\ JobApart /\ LimitsKept /\ OwedKept /\ [Next]_vars
        => OwedKept'
<1> SUFFICES ASSUME TypeOK, JobApart, LimitsKept, OwedKept, [Next]_vars PROVE OwedKept'
  OBVIOUS
<1> USE CyclesAssumption DEF TypeOK, Needs, DueTimes, marks, lane, round, JobApart, LimitsKept,
    OwedKept, Active
<1>1. CASE Take
  BY <1>1 DEF Take, Pending, Keeping
<1>2. CASE EndRound
  BY <1>2 DEF EndRound
<1>3. CASE JobWrites
  BY <1>3 DEF JobWrites, Becomes, MarkAll, Wake, Active
<1>4. CASE JobEnds
  BY <1>4 DEF JobEnds, Mark, Wake, LookAgain, Settled
<1>5. CASE Sweep
  BY <1>5 DEF Sweep, MarkAll, Wake
<1>6. CASE OpenItem
  BY <1>6 DEF OpenItem, Active, NoPush
<1>7. CASE CloseItem
  BY <1>7 DEF CloseItem, NoPush
<1>8. ASSUME NEW c \in Cycles, Write(c) PROVE OwedKept'
  BY <1>8 DEF Write, Becomes, MarkAll, Wake, Active
<1>9. ASSUME NEW c \in Cycles, Start(c) PROVE OwedKept'
  BY <1>9 DEF Start, Becomes, MarkAll, Wake, Active
<1>10. ASSUME NEW c \in Cycles, SilentChange(c) PROVE OwedKept'
  BY <1>10 DEF SilentChange
<1>11. ASSUME NEW c \in Cycles, Expire(c) PROVE OwedKept'
  BY <1>11 DEF Expire, Mark, NoMark, Wake
<1>12. ASSUME NEW c \in Cycles, FireDue(c) PROVE OwedKept'
  BY <1>12 DEF FireDue, Mark, Wake
<1>13. ASSUME NEW c \in Cycles, Hold(c) PROVE OwedKept'
  BY <1>13 DEF Hold, Active
<1>14. ASSUME NEW c \in Cycles, Release(c) PROVE OwedKept'
  BY <1>14 DEF Release, Mark, Wake
<1>15. ASSUME NEW c \in Cycles, RefreshBegins(c) PROVE OwedKept'
  BY <1>15 DEF RefreshBegins, Active
<1>16. ASSUME NEW c \in Cycles, RefreshEnds(c) PROVE OwedKept'
  BY <1>16 DEF RefreshEnds, Mark, Wake
<1>17. ASSUME NEW c \in Cycles, LookBusy(c) PROVE OwedKept'
  BY <1>17 DEF LookBusy, Looks, GivesUp, Keeping
<1>18. ASSUME NEW c \in Cycles, LookIdle(c) PROVE OwedKept'
  BY <1>18 DEF LookIdle, Looks, Decides, LookAgain, Seen, Settled, GivesUp, Keeping
<1>19. ASSUME NEW c \in Cycles, CarryOut(c) PROVE OwedKept'
  BY <1>19 DEF CarryOut, Looks, Becomes, MarkAll, Wake, Settled, GivesUp, Keeping
<1>20. ASSUME NEW c \in Cycles, LookFails(c) PROVE OwedKept'
  BY <1>20 DEF LookFails, Looks, Decides, Settled, GivesUp, Keeping
<1>21. ASSUME NEW c \in Cycles, LookWaits(c) PROVE OwedKept'
  BY <1>21 DEF LookWaits, Looks, Decides, LookAgain
<1>22. ASSUME NEW c \in Cycles, Dispatch(c) PROVE OwedKept'
  BY <1>22 DEF Dispatch, Looks, Decides, GivesUp, Keeping, Seen
<1>23. CASE UNCHANGED vars
  BY <1>23 DEF vars
<1> QED
  BY <1>1, <1>2, <1>3, <1>4, <1>5, <1>6, <1>7, <1>8, <1>9, <1>10, <1>11, <1>12, <1>13, <1>14,
      <1>15, <1>16, <1>17, <1>18, <1>19, <1>20, <1>21, <1>22, <1>23 DEF Next, Look, Around

\* One step of PushesWait.
PushWaits ==
    push.open /\ push'.open /\ ~Quiet /\ Quiet' =>
        \A c \in push'.owed :
            Active(c)' => c \in held' \cup refreshing' \/ Marked(c)' \/ due'[c] = "retry"

\* A pass completes only as a round ends.
LEMMA OnlyRoundsPass ==
    ASSUME TypeOK, [Next]_vars, push'.open, push'.passed, ~push.passed
    PROVE  EndRound
<1> SUFFICES ASSUME ~EndRound PROVE FALSE
  OBVIOUS
<1>0. push \in [open : BOOLEAN, owed : SUBSET Cycles, began : BOOLEAN, kept : BOOLEAN,
               passed : BOOLEAN]
  BY DEF TypeOK
<1>1. CASE Take
  BY <1>0, <1>1 DEF Take
<1>2. CASE JobEnds
  BY <1>0, <1>2 DEF JobEnds, Settled
<1>3. CASE OpenItem \/ CloseItem
  <2>1. CASE OpenItem
    BY <2>1 DEF OpenItem, NoPush
  <2>2. CASE CloseItem
    BY <2>2 DEF CloseItem, NoPush
  <2> QED
    BY <1>3, <2>1, <2>2
<1>4. CASE JobWrites \/ Sweep \/ UNCHANGED vars
  BY <1>4 DEF JobWrites, Sweep, vars
<1>5. ASSUME NEW c \in Cycles, Look(c) PROVE FALSE
  BY <1>0, <1>5 DEF Look, LookBusy, LookIdle, CarryOut, LookFails, LookWaits, Dispatch, Settled
<1>6. ASSUME NEW c \in Cycles, Around(c) PROVE FALSE
  BY <1>6 DEF Around, Write, Start, SilentChange, Expire, FireDue, Hold, Release, RefreshBegins, RefreshEnds
<1> QED
  BY <1>1, <1>2, <1>3, <1>4, <1>5, <1>6 DEF Next

\* As a push stops waiting the lane is empty and no round is under way, so what it was owed is decided
\* or elsewhere.
LEMMA PushStep ==
    ASSUME Inductive, Inductive', OwedKept', [Next]_vars
    PROVE  PushWaits
<1> SUFFICES ASSUME push'.open, ~Quiet, Quiet', NEW c \in push'.owed, Active(c)'
             PROVE  c \in held' \cup refreshing' \/ Marked(c)' \/ due'[c] = "retry"
  BY DEF PushWaits
<1>1. rest' = {} /\ job' = NoCycle /\ waiting' = {}
  <2>1. CASE push'.passed
    <3>1. ~push.passed
      BY DEF Quiet
    <3>2. EndRound
      BY <2>1, <3>1, OnlyRoundsPass DEF Inductive
    <3> QED
      BY <2>1, <3>1, <3>2 DEF EndRound, Inductive, TypeOK, lane
  <2>2. CASE ~push'.passed
    <3>1. loop' # "round" /\ job' = NoCycle /\ waiting' = {}
      BY <2>2 DEF Quiet
    <3>2. loop' # "round" => rest' = {}
      BY DEF Inductive, TypeOK
    <3> QED
      BY <3>1, <3>2
  <2> QED
    BY <2>1, <2>2
<1>2. c \in Cycles /\ c # job' /\ NothingUnseen'
  <2>1. push' \in [open : BOOLEAN, owed : SUBSET Cycles, began : BOOLEAN, kept : BOOLEAN,
                   passed : BOOLEAN]
    BY DEF Inductive, TypeOK
  <2>2. c \in Cycles
    BY <2>1
  <2> QED
    BY <1>1, <2>2, CyclesAssumption DEF Inductive
<1>3. c \in unseen'
  BY <1>2 DEF OwedKept
<1>4. Awaited(c)' \/ c \in behind'
  BY <1>2, <1>3 DEF NothingUnseen, ChangesKept
<1>5. behind' = {}
  BY <1>1 DEF Inductive, TypeOK
<1> QED
  BY <1>1, <1>2, <1>4, <1>5 DEF Awaited

\* For any set of cycles: when a push stops waiting for the controller, each cycle that had a change to
\* decide as its item opened is decided, busy elsewhere, or marked or due again. None waits for the lane.
THEOREM PushesDoWait == Spec => PushesWait
<1>1. Init => Inductive /\ OwedKept
  <2>1. Init => OwedKept
    BY DEF Init, NoPush, OwedKept
  <2> QED
    BY <2>1, InductiveInit
<1>2. Inductive /\ OwedKept /\ [Next]_vars => Inductive' /\ OwedKept'
  BY InductiveStep, OwedStep DEF Inductive, NothingUnseen
<1>3. Inductive /\ Inductive' /\ OwedKept' /\ [Next]_vars =>
        [push.open /\ push'.open /\ ~Quiet /\ Quiet' =>
            \A c \in push'.owed :
                Active(c)' => c \in held' \cup refreshing' \/ Marked(c)' \/ due'[c] = "retry"]_vars
  BY PushStep DEF PushWaits
<1> QED
  BY <1>1, <1>2, <1>3, PTL DEF Spec, PushesWait
=============================================================================
