-------------------------- MODULE InstanceLockProofs --------------------------
(***************************************************************************)
(* TLAPS proofs about InstanceLock, for any processes, directories, number *)
(* of retries and failures.                                                *)
(***************************************************************************)
EXTENDS InstanceLock, TLAPS

\* What a name is made of.
LEMMA NameFields ==
    \A k, d, i : Name(k, d, i).kind = k /\ Name(k, d, i).dir = d /\ Name(k, d, i).id = i
  BY DEF Name

\* What is true of every name and identifier.
LEMMA NameTypes ==
    /\ \A n \in Names : n.id \in Ids /\ n.dir \in Dirs /\ n.kind \in {"starting", "published"}
    /\ \A i \in Ids : i[1] \in Procs /\ i[2] \in Nat
    /\ \A k \in {"starting", "published"}, d \in Dirs, i \in Ids : Name(k, d, i) \in Names
    /\ \A p \in Procs, k \in Nat : <<p, k>> \in Ids
  BY DEF Names, Ids, Name

\* A process's list of directories is not empty, and its entries are directories.
LEMMA NeedsTypes ==
    \A p \in Procs : /\ Len(needs[p]) \in Nat /\ Len(needs[p]) >= 1
                     /\ \A i \in 1..Len(needs[p]) : needs[p][i] \in Dirs
<1> SUFFICES ASSUME NEW p \in Procs
             PROVE  /\ Len(needs[p]) \in Nat /\ Len(needs[p]) >= 1
                    /\ \A i \in 1..Len(needs[p]) : needs[p][i] \in Dirs
  OBVIOUS
<1>1. needs[p] \in Seq(Dirs) /\ needs[p] # <<>>
  BY NeedsAssumption
<1> QED
  BY <1>1

\* The name of a process's current socket is a name, while it takes a lock.
LEMMA MineIsName ==
    ASSUME TypeOK, NEW p \in Procs, pc[p] \in Taking
    PROVE  /\ Dir(p) \in Dirs /\ Id(p) \in Ids
           /\ \A k \in {"starting", "published"} : Mine(p, k) \in Names
<1>1. lock[p] \in 1..Len(needs[p])
  BY DEF TypeOK
<1>2. Dir(p) \in Dirs
  BY <1>1, NeedsTypes DEF Dir
<1>3. Id(p) \in Ids
  BY NameTypes DEF TypeOK, Id
<1> QED
  BY <1>2, <1>3, NameTypes DEF Mine

\* Every variable starts in its type.
LEMMA TypeInit == Init => TypeOK
  BY RetriesAssumption DEF Init, TypeOK, Running, Taking, FirstLook, SecondLook, Published

\* No step of a process takes a variable out of its type.
LEMMA TypeStep == TypeOK /\ [Next]_vars => TypeOK'
<1> SUFFICES ASSUME TypeOK, [Next]_vars PROVE TypeOK'
  OBVIOUS
<1>1. ASSUME NEW p \in Procs, Start(p) PROVE TypeOK'
  <2>1. pc' \in [Procs -> Running \cup {"idle", "done", "killed"}]
    BY <1>1 DEF Start, Goes, Rivals, TypeOK, Running, Taking, FirstLook, SecondLook, Published
  <2>2. lock' \in [Procs -> Nat]
    BY <1>1 DEF Start, Goes, Rivals, TypeOK, Running, Taking, FirstLook, SecondLook, Published
  <2>3. attempt' \in [Procs -> 1..Retries]
    BY <1>1, RetriesAssumption
      DEF Start, Goes, Rivals, TypeOK, Running, Taking, FirstLook, SecondLook, Published
  <2>4. serial' \in [Procs -> Nat]
    BY <1>1 DEF Start, Goes, Rivals, TypeOK, Running, Taking, FirstLook, SecondLook, Published
  <2>5. outcome' \in [Procs -> {"none", "refused", "gave up", "failed"}]
    BY <1>1 DEF Start, Goes, Rivals, TypeOK, Running, Taking, FirstLook, SecondLook, Published
  <2>6. look' \in [Procs -> SUBSET Names]
    BY <1>1 DEF Start, Goes, Rivals, TypeOK, Running, Taking, FirstLook, SecondLook, Published
  <2>7. doomed' \in [Procs -> SUBSET Names]
    BY <1>1 DEF Start, Goes, Rivals, TypeOK, Running, Taking, FirstLook, SecondLook, Published
  <2>8. held' \in [Procs -> SUBSET Names] /\ abstract' \in [Procs -> SUBSET Dirs]
    BY <1>1, MineIsName DEF Start, Goes, Rivals, TypeOK, Running, Taking, FirstLook,
         SecondLook, Published
  <2>9. files' \subseteq Names /\ listening' \subseteq Ids /\ alone' \in [Procs -> BOOLEAN]
    BY <1>1 DEF Start, Goes, Rivals, TypeOK, Running, Taking, FirstLook, SecondLook, Published
  <2>10. ASSUME NEW q \in Procs, pc'[q] \in Taking PROVE lock'[q] \in 1..Len(needs[q])
    <3>1. CASE q = p
      <4>1. lock \in [Procs -> Nat] /\ Len(needs[p]) \in Nat /\ Len(needs[p]) >= 1
        BY NeedsTypes DEF TypeOK
      <4>2. lock'[p] = 1
        BY <1>1, <4>1 DEF Start, Goes, Rivals
      <4> QED
        BY <3>1, <4>1, <4>2
    <3>2. CASE q # p
      BY <1>1, <2>10, <3>2 DEF Start, Goes, Rivals, TypeOK, Running, Taking, FirstLook,
           SecondLook, Published
    <3> QED
      BY <3>1, <3>2
  <2> QED
    BY <2>1, <2>2, <2>3, <2>4, <2>5, <2>6, <2>7, <2>8, <2>9, <2>10 DEF TypeOK
<1>2. ASSUME NEW p \in Procs, BindAbstract(p) PROVE TypeOK'
  <2>1. pc' \in [Procs -> Running \cup {"idle", "done", "killed"}]
    BY <1>2 DEF BindAbstract, Goes, TypeOK, Running, Taking, FirstLook, SecondLook, Published
  <2>2. lock' \in [Procs -> Nat]
    BY <1>2 DEF BindAbstract, Goes, TypeOK, Running, Taking, FirstLook, SecondLook, Published
  <2>3. attempt' \in [Procs -> 1..Retries]
    <3>1. attempt' = [attempt EXCEPT ![p] = 1]
      BY <1>2 DEF BindAbstract, Goes
    <3>2. attempt \in [Procs -> 1..Retries]
      BY DEF TypeOK
    <3>3. 1 \in 1..Retries
      BY <3>2, <1>2, RetriesAssumption
    <3> QED
      BY <3>1, <3>2, <3>3
  <2>4. serial' \in [Procs -> Nat]
    <3>1. serial' = [serial EXCEPT ![p] = serial[p] + 1]
      BY <1>2 DEF BindAbstract, Goes
    <3>2. serial \in [Procs -> Nat]
      BY DEF TypeOK
    <3>3. serial[p] + 1 \in Nat
      BY <3>2, <1>2
    <3> QED
      BY <3>1, <3>2, <3>3
  <2>5. outcome' \in [Procs -> {"none", "refused", "gave up", "failed"}]
    BY <1>2 DEF BindAbstract, Goes, TypeOK, Running, Taking, FirstLook, SecondLook, Published
  <2>6. look' \in [Procs -> SUBSET Names]
    BY <1>2 DEF BindAbstract, Goes, TypeOK, Running, Taking, FirstLook, SecondLook, Published
  <2>7. doomed' \in [Procs -> SUBSET Names]
    BY <1>2 DEF BindAbstract, Goes, TypeOK, Running, Taking, FirstLook, SecondLook, Published
  <2>8. held' \in [Procs -> SUBSET Names] /\ abstract' \in [Procs -> SUBSET Dirs]
    BY <1>2, MineIsName DEF BindAbstract, Goes, TypeOK, Running, Taking, FirstLook, SecondLook,
         Published
  <2>9. files' \subseteq Names /\ listening' \subseteq Ids /\ alone' \in [Procs -> BOOLEAN]
    BY <1>2 DEF BindAbstract, Goes, TypeOK, Running, Taking, FirstLook, SecondLook, Published
  <2>10. ASSUME NEW q \in Procs, pc'[q] \in Taking PROVE lock'[q] \in 1..Len(needs[q])
    <3>1. CASE q = p
      BY <1>2, <2>10, <3>1, NeedsTypes
        DEF BindAbstract, Goes, TypeOK, Running, Taking, FirstLook, SecondLook, Published
    <3>2. CASE q # p
      BY <1>2, <2>10, <3>2 DEF BindAbstract, Goes, TypeOK, Running, Taking, FirstLook,
           SecondLook, Published
    <3> QED
      BY <3>1, <3>2
  <2> QED
    BY <2>1, <2>2, <2>3, <2>4, <2>5, <2>6, <2>7, <2>8, <2>9, <2>10 DEF TypeOK
<1>3. ASSUME NEW p \in Procs, AddressInUse(p) PROVE TypeOK'
  BY <1>3, MineIsName DEF AddressInUse, Goes, Fails, TypeOK, Running, Taking, FirstLook,
       SecondLook, Published
<1>4. ASSUME NEW p \in Procs, List(p) PROVE TypeOK'
  BY <1>4, MineIsName DEF List, Goes, Listed, TypeOK, Running, Taking, FirstLook, SecondLook,
       Published
<1>5. ASSUME NEW p \in Procs, AskDead(p) PROVE TypeOK'
  <2>1. pc' \in [Procs -> Running \cup {"idle", "done", "killed"}]
    BY <1>5 DEF AskDead, Goes, Asks, TypeOK, Running, Taking, FirstLook, SecondLook, Published
  <2>2. lock' \in [Procs -> Nat]
    BY <1>5 DEF AskDead, Goes, Asks, TypeOK, Running, Taking, FirstLook, SecondLook, Published
  <2>3. attempt' \in [Procs -> 1..Retries]
    BY <1>5, RetriesAssumption
      DEF AskDead, Goes, Asks, TypeOK, Running, Taking, FirstLook, SecondLook, Published
  <2>4. serial' \in [Procs -> Nat]
    BY <1>5 DEF AskDead, Goes, Asks, TypeOK, Running, Taking, FirstLook, SecondLook, Published
  <2>5. outcome' \in [Procs -> {"none", "refused", "gave up", "failed"}]
    BY <1>5 DEF AskDead, Goes, Asks, TypeOK, Running, Taking, FirstLook, SecondLook, Published
  <2>6. look' \in [Procs -> SUBSET Names]
    <3>1. PICK n \in look[p] : look' = [look EXCEPT ![p] = look[p] \ {n}]
      BY <1>5 DEF AskDead, Goes, Asks
    <3>2. look \in [Procs -> SUBSET Names] /\ look[p] \ {n} \in SUBSET Names
      BY DEF TypeOK
    <3> QED
      BY <3>1, <3>2
  <2>7. doomed' \in [Procs -> SUBSET Names]
    <3>1. PICK n \in look[p] : doomed' = [doomed EXCEPT ![p] = {n}]
      BY <1>5 DEF AskDead, Goes, Asks
    <3>2. doomed \in [Procs -> SUBSET Names] /\ {n} \in SUBSET Names
      BY DEF TypeOK
    <3> QED
      BY <3>1, <3>2
  <2>8. held' \in [Procs -> SUBSET Names] /\ abstract' \in [Procs -> SUBSET Dirs]
    BY <1>5, MineIsName DEF AskDead, Goes, Asks, TypeOK, Running, Taking, FirstLook,
         SecondLook, Published
  <2>9. files' \subseteq Names /\ listening' \subseteq Ids /\ alone' \in [Procs -> BOOLEAN]
    BY <1>5 DEF AskDead, Goes, Asks, TypeOK, Running, Taking, FirstLook, SecondLook, Published
  <2>10. ASSUME NEW q \in Procs, pc'[q] \in Taking PROVE lock'[q] \in 1..Len(needs[q])
    <3>1. CASE q = p
      BY <1>5, <2>10, <3>1, NeedsTypes
        DEF AskDead, Goes, Asks, TypeOK, Running, Taking, FirstLook, SecondLook, Published
    <3>2. CASE q # p
      BY <1>5, <2>10, <3>2 DEF AskDead, Goes, Asks, TypeOK, Running, Taking, FirstLook,
           SecondLook, Published
    <3> QED
      BY <3>1, <3>2
  <2> QED
    BY <2>1, <2>2, <2>3, <2>4, <2>5, <2>6, <2>7, <2>8, <2>9, <2>10 DEF TypeOK
<1>6. ASSUME NEW p \in Procs, AskStarter(p) PROVE TypeOK'
  <2>1. look' \in [Procs -> SUBSET Names]
    <3>1. PICK n \in look[p] : look' = [look EXCEPT ![p] = look[p] \ {n}]
      BY <1>6 DEF AskStarter, Asks
    <3>2. look \in [Procs -> SUBSET Names] /\ look[p] \ {n} \in SUBSET Names
      BY DEF TypeOK
    <3> QED
      BY <3>1, <3>2
  <2>2. UNCHANGED <<pc, lock, attempt, serial, doomed, held, abstract, outcome, files, listening, alone>>
    BY <1>6 DEF AskStarter
  <2> QED
    BY <2>1, <2>2 DEF TypeOK
<1>7. ASSUME NEW p \in Procs, AskHolder(p) PROVE TypeOK'
  <2>1. pc' \in [Procs -> Running \cup {"idle", "done", "killed"}]
    <3>1. pc' = [pc EXCEPT ![p] = "unwinding"] \/ pc' = [pc EXCEPT ![p] = "withdraw"]
      BY <1>7 DEF AskHolder, Goes, Fails
    <3>2. {"unwinding", "withdraw"} \subseteq Running
      BY DEF Running, Taking, FirstLook, SecondLook, Published
    <3> QED
      BY <3>1, <3>2 DEF TypeOK
  <2>2. lock' \in [Procs -> Nat]
    BY <1>7 DEF AskHolder, Goes, Fails, Asks, TypeOK, Running, Taking, FirstLook, SecondLook,
         Published
  <2>3. attempt' \in [Procs -> 1..Retries]
    BY <1>7, RetriesAssumption
      DEF AskHolder, Goes, Fails, Asks, TypeOK, Running, Taking, FirstLook, SecondLook,
    Published
  <2>4. serial' \in [Procs -> Nat]
    BY <1>7 DEF AskHolder, Goes, Fails, Asks, TypeOK, Running, Taking, FirstLook, SecondLook,
         Published
  <2>5. outcome' \in [Procs -> {"none", "refused", "gave up", "failed"}]
    BY <1>7 DEF AskHolder, Goes, Fails, Asks, TypeOK, Running, Taking, FirstLook, SecondLook,
         Published
  <2>6. look' \in [Procs -> SUBSET Names]
    <3>1. PICK n \in look[p] : look' = [look EXCEPT ![p] = look[p] \ {n}]
      BY <1>7 DEF AskHolder, Goes, Fails, Asks
    <3>2. look \in [Procs -> SUBSET Names] /\ look[p] \ {n} \in SUBSET Names
      BY DEF TypeOK
    <3> QED
      BY <3>1, <3>2
  <2>7. doomed' \in [Procs -> SUBSET Names]
    BY <1>7 DEF AskHolder, Goes, Fails, Asks, TypeOK, Running, Taking, FirstLook, SecondLook,
         Published
  <2>8. held' \in [Procs -> SUBSET Names] /\ abstract' \in [Procs -> SUBSET Dirs]
    BY <1>7, MineIsName DEF AskHolder, Goes, Fails, Asks, TypeOK, Running, Taking, FirstLook,
         SecondLook, Published
  <2>9. files' \subseteq Names /\ listening' \subseteq Ids /\ alone' \in [Procs -> BOOLEAN]
    BY <1>7 DEF AskHolder, Goes, Fails, Asks, TypeOK, Running, Taking, FirstLook, SecondLook,
         Published
  <2>10. ASSUME NEW q \in Procs, pc'[q] \in Taking PROVE lock'[q] \in 1..Len(needs[q])
    <3>1. CASE q = p
      BY <1>7, <2>10, <3>1, NeedsTypes
        DEF AskHolder, Goes, Fails, Asks, TypeOK, Running, Taking, FirstLook, SecondLook,
      Published
    <3>2. CASE q # p
      BY <1>7, <2>10, <3>2 DEF AskHolder, Goes, Fails, Asks, TypeOK, Running, Taking,
           FirstLook, SecondLook, Published
    <3> QED
      BY <3>1, <3>2
  <2> QED
    BY <2>1, <2>2, <2>3, <2>4, <2>5, <2>6, <2>7, <2>8, <2>9, <2>10 DEF TypeOK
<1>8. ASSUME NEW p \in Procs, Remove(p) PROVE TypeOK'
  BY <1>8, MineIsName DEF Remove, Goes, TypeOK, Running, Taking, FirstLook, SecondLook,
       Published
<1>9. ASSUME NEW p \in Procs, NobodyThere(p) PROVE TypeOK'
  BY <1>9, MineIsName DEF NobodyThere, Goes, LookEnds, TypeOK, Running, Taking, FirstLook,
       SecondLook, Published
<1>10. ASSUME NEW p \in Procs, Bind(p) PROVE TypeOK'
  BY <1>10, MineIsName DEF Bind, Goes, TypeOK, Running, Taking, FirstLook, SecondLook, Published
<1>11. ASSUME NEW p \in Procs, Listen(p) PROVE TypeOK'
  BY <1>11, MineIsName DEF Listen, Goes, TypeOK, Running, Taking, FirstLook, SecondLook,
       Published
<1>12. ASSUME NEW p \in Procs, Publish(p) PROVE TypeOK'
  BY <1>12, MineIsName DEF Publish, Goes, TypeOK, Running, Taking, FirstLook, SecondLook,
       Published
<1>13. ASSUME NEW p \in Procs, NameGone(p) PROVE TypeOK'
  BY <1>13, MineIsName DEF NameGone, Goes, TypeOK, Running, Taking, FirstLook, SecondLook,
       Published
<1>14. ASSUME NEW p \in Procs, Withdraw(p) PROVE TypeOK'
  BY <1>14, MineIsName DEF Withdraw, Goes, TypeOK, Running, Taking, FirstLook, SecondLook,
       Published
<1>15. ASSUME NEW p \in Procs, Retry(p) PROVE TypeOK'
  <2>1. pc' \in [Procs -> Running \cup {"idle", "done", "killed"}]
    BY <1>15 DEF Retry, Goes, TypeOK, Running, Taking, FirstLook, SecondLook, Published
  <2>2. lock' \in [Procs -> Nat]
    BY <1>15 DEF Retry, Goes, TypeOK, Running, Taking, FirstLook, SecondLook, Published
  <2>3. attempt' \in [Procs -> 1..Retries]
    <3>1. attempt' = [attempt EXCEPT ![p] = attempt[p] + 1]
      BY <1>15 DEF Retry, Goes
    <3>2. attempt \in [Procs -> 1..Retries]
      BY DEF TypeOK
    <3>3. attempt[p] + 1 \in 1..Retries
      BY <3>2, <1>15, RetriesAssumption DEF Retry
    <3> QED
      BY <3>1, <3>2, <3>3
  <2>4. serial' \in [Procs -> Nat]
    <3>1. serial' = [serial EXCEPT ![p] = serial[p] + 1]
      BY <1>15 DEF Retry, Goes
    <3>2. serial \in [Procs -> Nat]
      BY DEF TypeOK
    <3>3. serial[p] + 1 \in Nat
      BY <3>2, <1>15
    <3> QED
      BY <3>1, <3>2, <3>3
  <2>5. outcome' \in [Procs -> {"none", "refused", "gave up", "failed"}]
    BY <1>15 DEF Retry, Goes, TypeOK, Running, Taking, FirstLook, SecondLook, Published
  <2>6. look' \in [Procs -> SUBSET Names]
    BY <1>15 DEF Retry, Goes, TypeOK, Running, Taking, FirstLook, SecondLook, Published
  <2>7. doomed' \in [Procs -> SUBSET Names]
    BY <1>15 DEF Retry, Goes, TypeOK, Running, Taking, FirstLook, SecondLook, Published
  <2>8. held' \in [Procs -> SUBSET Names] /\ abstract' \in [Procs -> SUBSET Dirs]
    BY <1>15, MineIsName DEF Retry, Goes, TypeOK, Running, Taking, FirstLook, SecondLook,
         Published
  <2>9. files' \subseteq Names /\ listening' \subseteq Ids /\ alone' \in [Procs -> BOOLEAN]
    BY <1>15 DEF Retry, Goes, TypeOK, Running, Taking, FirstLook, SecondLook, Published
  <2>10. ASSUME NEW q \in Procs, pc'[q] \in Taking PROVE lock'[q] \in 1..Len(needs[q])
    <3>1. CASE q = p
      BY <1>15, <2>10, <3>1, NeedsTypes
        DEF Retry, Goes, TypeOK, Running, Taking, FirstLook, SecondLook, Published
    <3>2. CASE q # p
      BY <1>15, <2>10, <3>2
        DEF Retry, Goes, TypeOK, Running, Taking, FirstLook, SecondLook, Published
    <3> QED
      BY <3>1, <3>2
  <2> QED
    BY <2>1, <2>2, <2>3, <2>4, <2>5, <2>6, <2>7, <2>8, <2>9, <2>10 DEF TypeOK
<1>16. ASSUME NEW p \in Procs, GiveUp(p) PROVE TypeOK'
  BY <1>16, MineIsName DEF GiveUp, Goes, Fails, TypeOK, Running, Taking, FirstLook, SecondLook,
       Published
<1>17. ASSUME NEW p \in Procs, Take(p) PROVE TypeOK'
  <2>1. pc' \in [Procs -> Running \cup {"idle", "done", "killed"}]
    <3>1. pc' = [pc EXCEPT ![p] = "abstract"] \/ pc' = [pc EXCEPT ![p] = "holding"]
      BY <1>17 DEF Take, Goes
    <3>2. {"abstract", "holding"} \subseteq Running
      BY DEF Running, Taking, FirstLook, Published
    <3> QED
      BY <3>1, <3>2 DEF TypeOK
  <2>2. lock' \in [Procs -> Nat]
    <3>1. lock[p] \in Nat /\ lock \in [Procs -> Nat]
      BY DEF TypeOK
    <3>2. lock' = lock \/ lock' = [lock EXCEPT ![p] = lock[p] + 1]
      BY <1>17 DEF Take, Goes, LookEnds
    <3> QED
      BY <3>1, <3>2
  <2>3. attempt' \in [Procs -> 1..Retries]
    BY <1>17, RetriesAssumption
      DEF Take, Goes, LookEnds, TypeOK, Running, Taking, FirstLook, SecondLook, Published
  <2>4. serial' \in [Procs -> Nat]
    BY <1>17 DEF Take, Goes, LookEnds, TypeOK, Running, Taking, FirstLook, SecondLook, Published
  <2>5. outcome' \in [Procs -> {"none", "refused", "gave up", "failed"}]
    BY <1>17 DEF Take, Goes, LookEnds, TypeOK, Running, Taking, FirstLook, SecondLook, Published
  <2>6. look' \in [Procs -> SUBSET Names]
    BY <1>17 DEF Take, Goes, LookEnds, TypeOK, Running, Taking, FirstLook, SecondLook, Published
  <2>7. doomed' \in [Procs -> SUBSET Names]
    BY <1>17 DEF Take, Goes, LookEnds, TypeOK, Running, Taking, FirstLook, SecondLook, Published
  <2>8. held' \in [Procs -> SUBSET Names] /\ abstract' \in [Procs -> SUBSET Dirs]
    BY <1>17, MineIsName DEF Take, Goes, LookEnds, TypeOK, Running, Taking, FirstLook,
         SecondLook, Published
  <2>9. files' \subseteq Names /\ listening' \subseteq Ids /\ alone' \in [Procs -> BOOLEAN]
    BY <1>17 DEF Take, Goes, LookEnds, TypeOK, Running, Taking, FirstLook, SecondLook, Published
  <2>10. ASSUME NEW q \in Procs, pc'[q] \in Taking PROVE lock'[q] \in 1..Len(needs[q])
    <3>1. CASE q = p
      <4>1. lock \in [Procs -> Nat] /\ Len(needs[p]) \in Nat /\ Len(needs[p]) >= 1
        BY NeedsTypes DEF TypeOK
      <4>2. lock[p] \in 1..Len(needs[p])
        BY <1>17 DEF Take, TypeOK, Running, Taking, FirstLook, SecondLook, Published
      <4>3. lock'[p] = lock[p] \/ (lock[p] < Len(needs[p]) /\ lock'[p] = lock[p] + 1)
        BY <1>17, <4>1 DEF Take, Goes, LookEnds
      <4> QED
        BY <3>1, <4>1, <4>2, <4>3
    <3>2. CASE q # p
      BY <1>17, <2>10, <3>2
        DEF Take, Goes, LookEnds, TypeOK, Running, Taking, FirstLook, SecondLook, Published
    <3> QED
      BY <3>1, <3>2
  <2> QED
    BY <2>1, <2>2, <2>3, <2>4, <2>5, <2>6, <2>7, <2>8, <2>9, <2>10 DEF TypeOK
<1>18. ASSUME NEW p \in Procs, ReleaseFile(p) PROVE TypeOK'
  <2>1. pc' \in [Procs -> Running \cup {"idle", "done", "killed"}]
    BY <1>18 DEF ReleaseFile, Goes, TypeOK, Running, Taking, FirstLook, SecondLook, Published
  <2>2. lock' \in [Procs -> Nat]
    BY <1>18 DEF ReleaseFile, Goes, TypeOK, Running, Taking, FirstLook, SecondLook, Published
  <2>3. attempt' \in [Procs -> 1..Retries]
    BY <1>18, RetriesAssumption
      DEF ReleaseFile, Goes, TypeOK, Running, Taking, FirstLook, SecondLook, Published
  <2>4. serial' \in [Procs -> Nat]
    BY <1>18 DEF ReleaseFile, Goes, TypeOK, Running, Taking, FirstLook, SecondLook, Published
  <2>5. outcome' \in [Procs -> {"none", "refused", "gave up", "failed"}]
    BY <1>18 DEF ReleaseFile, Goes, TypeOK, Running, Taking, FirstLook, SecondLook, Published
  <2>6. look' \in [Procs -> SUBSET Names]
    BY <1>18 DEF ReleaseFile, Goes, TypeOK, Running, Taking, FirstLook, SecondLook, Published
  <2>7. doomed' \in [Procs -> SUBSET Names]
    BY <1>18 DEF ReleaseFile, Goes, TypeOK, Running, Taking, FirstLook, SecondLook, Published
  <2>8. held' \in [Procs -> SUBSET Names] /\ abstract' \in [Procs -> SUBSET Dirs]
    <3>1. PICK n \in held[p] : held' = [held EXCEPT ![p] = held[p] \ {n}]
      BY <1>18 DEF ReleaseFile, Goes
    <3>2. held \in [Procs -> SUBSET Names] /\ held[p] \ {n} \in SUBSET Names
      BY DEF TypeOK
    <3>3. UNCHANGED abstract /\ abstract \in [Procs -> SUBSET Dirs]
      BY <1>18 DEF ReleaseFile, Goes, TypeOK
    <3> QED
      BY <3>1, <3>2, <3>3
  <2>9. files' \subseteq Names /\ listening' \subseteq Ids /\ alone' \in [Procs -> BOOLEAN]
    BY <1>18 DEF ReleaseFile, Goes, TypeOK, Running, Taking, FirstLook, SecondLook, Published
  <2>10. ASSUME NEW q \in Procs, pc'[q] \in Taking PROVE lock'[q] \in 1..Len(needs[q])
    <3>1. CASE q = p
      BY <1>18, <2>10, <3>1, NeedsTypes
        DEF ReleaseFile, Goes, TypeOK, Running, Taking, FirstLook, SecondLook, Published
    <3>2. CASE q # p
      BY <1>18, <2>10, <3>2
        DEF ReleaseFile, Goes, TypeOK, Running, Taking, FirstLook, SecondLook, Published
    <3> QED
      BY <3>1, <3>2
  <2> QED
    BY <2>1, <2>2, <2>3, <2>4, <2>5, <2>6, <2>7, <2>8, <2>9, <2>10 DEF TypeOK
<1>19. ASSUME NEW p \in Procs, ReleaseAbstract(p) PROVE TypeOK'
  <2>1. pc' \in [Procs -> Running \cup {"idle", "done", "killed"}]
    BY <1>19 DEF ReleaseAbstract, Goes, HeldHere, TypeOK, Running, Taking, FirstLook,
         SecondLook, Published
  <2>2. lock' \in [Procs -> Nat]
    <3>1. lock' = [lock EXCEPT ![p] = lock[p] - 1]
      BY <1>19 DEF ReleaseAbstract, Goes, HeldHere
    <3>2. lock \in [Procs -> Nat]
      BY DEF TypeOK
    <3>3. lock[p] - 1 \in Nat
      BY <3>2, <1>19 DEF ReleaseAbstract
    <3> QED
      BY <3>1, <3>2, <3>3
  <2>3. attempt' \in [Procs -> 1..Retries]
    BY <1>19, RetriesAssumption
      DEF ReleaseAbstract, Goes, HeldHere, TypeOK, Running, Taking, FirstLook, SecondLook,
    Published
  <2>4. serial' \in [Procs -> Nat]
    BY <1>19 DEF ReleaseAbstract, Goes, HeldHere, TypeOK, Running, Taking, FirstLook,
         SecondLook, Published
  <2>5. outcome' \in [Procs -> {"none", "refused", "gave up", "failed"}]
    BY <1>19 DEF ReleaseAbstract, Goes, HeldHere, TypeOK, Running, Taking, FirstLook,
         SecondLook, Published
  <2>6. look' \in [Procs -> SUBSET Names]
    BY <1>19 DEF ReleaseAbstract, Goes, HeldHere, TypeOK, Running, Taking, FirstLook,
         SecondLook, Published
  <2>7. doomed' \in [Procs -> SUBSET Names]
    BY <1>19 DEF ReleaseAbstract, Goes, HeldHere, TypeOK, Running, Taking, FirstLook,
         SecondLook, Published
  <2>8. held' \in [Procs -> SUBSET Names] /\ abstract' \in [Procs -> SUBSET Dirs]
    BY <1>19, MineIsName DEF ReleaseAbstract, Goes, HeldHere, TypeOK, Running, Taking,
         FirstLook, SecondLook, Published
  <2>9. files' \subseteq Names /\ listening' \subseteq Ids /\ alone' \in [Procs -> BOOLEAN]
    BY <1>19 DEF ReleaseAbstract, Goes, HeldHere, TypeOK, Running, Taking, FirstLook,
         SecondLook, Published
  <2>10. ASSUME NEW q \in Procs, pc'[q] \in Taking PROVE lock'[q] \in 1..Len(needs[q])
    <3>1. CASE q = p
      BY <1>19, <2>10, <3>1, NeedsTypes
        DEF ReleaseAbstract, Goes, HeldHere, TypeOK, Running, Taking, FirstLook, SecondLook,
      Published
    <3>2. CASE q # p
      BY <1>19, <2>10, <3>2
        DEF ReleaseAbstract, Goes, HeldHere, TypeOK, Running, Taking, FirstLook, SecondLook,
      Published
    <3> QED
      BY <3>1, <3>2
  <2> QED
    BY <2>1, <2>2, <2>3, <2>4, <2>5, <2>6, <2>7, <2>8, <2>9, <2>10 DEF TypeOK
<1>20. ASSUME NEW p \in Procs, Ended(p) PROVE TypeOK'
  BY <1>20, MineIsName DEF Ended, Goes, TypeOK, Running, Taking, FirstLook, SecondLook,
       Published
<1>21. ASSUME NEW p \in Procs, CallFails(p) PROVE TypeOK'
  BY <1>21, MineIsName DEF CallFails, Goes, Fails, TypeOK, Running, Taking, FirstLook,
       SecondLook, Published
<1>22. ASSUME NEW p \in Procs, Stop(p) PROVE TypeOK'
  BY <1>22, MineIsName DEF Stop, Goes, TypeOK, Running, Taking, FirstLook, SecondLook, Published
<1>23. ASSUME NEW p \in Procs, Crash(p) PROVE TypeOK'
  BY <1>23, MineIsName DEF Crash, Goes, TypeOK, Running, Taking, FirstLook, SecondLook,
       Published
<1>24. CASE UNCHANGED vars
  BY <1>24 DEF vars, TypeOK
<1> QED
  BY <1>1, <1>2, <1>3, <1>4, <1>5, <1>6, <1>7, <1>8, <1>9, <1>10, <1>11, <1>12, <1>13, <1>14,
       <1>15, <1>16, <1>17, <1>18, <1>19, <1>20, <1>21, <1>22, <1>23, <1>24
  DEF Next, Steps

(***************************************************************************)
(* What a step of a process may do to its own state, to the names and to   *)
(* the sockets. The invariants follow from this alone.                     *)
(***************************************************************************)
\* A step of p leaves what belongs to another process.
Others(p) == \A q \in Procs \ {p} :
    /\ pc'[q] = pc[q] /\ lock'[q] = lock[q] /\ serial'[q] = serial[q]
    /\ look'[q] = look[q] /\ doomed'[q] = doomed[q] /\ held'[q] = held[q]

\* What p comes to look at was there, what it dooms refused, what it holds it published.
OwnNames(p) ==
    /\ \A n \in look'[p] : n \in look[p] \/ n \in files
    /\ \A n \in doomed'[p] : n \in doomed[p] \/ (n \in look[p] /\ ~Answers(n))
    /\ \A n \in held'[p] : n \in held[p] \/ (n = Mine(p, "published") /\ pc[p] = "asking again"
                                            /\ pc'[p] \in {"abstract", "holding"} /\ look[p] = {})

\* Names and sockets that p makes are its own.
NamesMade(p) ==
    /\ \A n \in files' : \/ n \in files
                         \/ n = Mine(p, "starting") /\ pc[p] = "bind" /\ pc'[p] = "listen"
                         \/ n = Mine(p, "published") /\ pc[p] = "rename" /\ pc'[p] = "second"
    /\ \A i \in listening' : i \in listening \/ (i = Id(p) /\ pc[p] = "listen")
    /\ pc'[p] = "rename" => serial'[p] = serial[p] /\ Id(p) \in listening'
    /\ pc'[p] = "second" => Mine(p, "published") \in files' 

\* Names and sockets that p removes are its own or refused it.
NamesLost(p) ==
    /\ \A n \in files \ files' :
          \/ n \in doomed[p] \/ n = Mine(p, "starting") \/ n \in held[p] \ held'[p]
          \/ n = Mine(p, "published") /\ pc[p] \in Unpublished \cup Published
                /\ pc'[p] \in {"withdrawn", "unwinding"}
    /\ \A i \in listening \ listening' :
          \/ i = Id(p) /\ pc[p] \in Unpublished \cup Published /\ pc'[p] \in {"withdrawn", "unwinding"}
          \/ \E n \in held[p] \ held'[p] : i = n.id
          \/ i[1] = p /\ held'[p] = {} /\ pc'[p] = "killed"

\* Where p stands, and the identifier it works with.
Counters(p) ==
    /\ serial'[p] = serial[p] \/ (serial'[p] = serial[p] + 1 /\ pc'[p] = "first" /\ held'[p] = held[p])
    /\ pc'[p] \in Unpublished =>
          \/ pc[p] \in Unpublished /\ lock'[p] = lock[p] /\ serial'[p] = serial[p]
          \/ serial'[p] = serial[p] + 1
    /\ pc'[p] \in Published \cup {"withdrawn"} =>
          /\ lock'[p] = lock[p] /\ serial'[p] = serial[p]
          /\ held'[p] = held[p]
          /\ pc[p] \in Published \/ (pc[p] = "rename" /\ pc'[p] \in {"second", "withdrawn"})

\* A look at what others published ends only with having asked it.
Sight(p) ==
    /\ pc'[p] = "second" => pc[p] \in {"second", "rename"}
    /\ pc'[p] = "asking again" =>
          \/ pc[p] = "second" /\ \A n \in files :
                n.dir = Dir(p) => n \in look'[p] \/ n = Mine(p, "published")
          \/ pc[p] = "asking again" /\ \A n \in look[p] \ look'[p] :
                ~Answers(n) \/ n.kind # "published"

Effects(p) == Others(p) /\ OwnNames(p) /\ NamesMade(p) /\ NamesLost(p) /\ Counters(p) /\ Sight(p)

\* Every step has these effects.
LEMMA StepEffects == ASSUME TypeOK, NEW p \in Procs,
                            Start(p) \/ Steps(p) \/ CallFails(p) \/ Stop(p) \/ Crash(p)
                     PROVE  Effects(p)
<1>0. /\ pc \in [Procs -> Running \cup {"idle", "done", "killed"}] /\ lock \in [Procs -> Nat]
      /\ serial \in [Procs -> Nat] /\ look \in [Procs -> SUBSET Names]
      /\ doomed \in [Procs -> SUBSET Names] /\ held \in [Procs -> SUBSET Names]
  BY DEF TypeOK
<1> USE DEF Running, Taking, FirstLook, SecondLook, Published, Unpublished, Goes
<1>1. CASE Start(p)
  <2>1. Others(p)
    BY <1>0, <1>1 DEF Start, Others
  <2>2. OwnNames(p)
    BY <1>0, <1>1 DEF Start, OwnNames
  <2>3. NamesMade(p)
    BY <1>0, <1>1 DEF Start, NamesMade
  <2>4. NamesLost(p)
    BY <1>0, <1>1 DEF Start, NamesLost
  <2>5. Counters(p)
    BY <1>0, <1>1 DEF Start, Counters
  <2>6. Sight(p)
    BY <1>0, <1>1 DEF Start, Sight
  <2> QED
    BY <2>1, <2>2, <2>3, <2>4, <2>5, <2>6 DEF Effects
<1>2. CASE BindAbstract(p)
  <2>1. Others(p)
    BY <1>0, <1>2 DEF BindAbstract, Others
  <2>2. OwnNames(p)
    BY <1>0, <1>2 DEF BindAbstract, OwnNames
  <2>3. NamesMade(p)
    BY <1>0, <1>2 DEF BindAbstract, NamesMade
  <2>4. NamesLost(p)
    BY <1>0, <1>2 DEF BindAbstract, NamesLost
  <2>5. Counters(p)
    BY <1>0, <1>2 DEF BindAbstract, Counters
  <2>6. Sight(p)
    BY <1>0, <1>2 DEF BindAbstract, Sight
  <2> QED
    BY <2>1, <2>2, <2>3, <2>4, <2>5, <2>6 DEF Effects
<1>3. CASE AddressInUse(p)
  <2>1. Others(p)
    BY <1>0, <1>3 DEF AddressInUse, Fails, Others
  <2>2. OwnNames(p)
    BY <1>0, <1>3 DEF AddressInUse, Fails, OwnNames
  <2>3. NamesMade(p)
    BY <1>0, <1>3 DEF AddressInUse, Fails, NamesMade
  <2>4. NamesLost(p)
    BY <1>0, <1>3 DEF AddressInUse, Fails, NamesLost
  <2>5. Counters(p)
    BY <1>0, <1>3 DEF AddressInUse, Fails, Counters
  <2>6. Sight(p)
    BY <1>0, <1>3 DEF AddressInUse, Fails, Sight
  <2> QED
    BY <2>1, <2>2, <2>3, <2>4, <2>5, <2>6 DEF Effects
<1>4. CASE List(p)
  <2>1. Others(p)
    BY <1>0, <1>4 DEF List, Listed, Others
  <2>2. OwnNames(p)
    BY <1>0, <1>4 DEF List, Listed, OwnNames
  <2>3. NamesMade(p)
    BY <1>0, <1>4 DEF List, Listed, NamesMade
  <2>4. NamesLost(p)
    BY <1>0, <1>4 DEF List, Listed, NamesLost
  <2>5. Counters(p)
    BY <1>0, <1>4 DEF List, Listed, Counters
  <2>6. Sight(p)
    BY <1>0, <1>4 DEF List, Listed, Sight
  <2> QED
    BY <2>1, <2>2, <2>3, <2>4, <2>5, <2>6 DEF Effects
<1>5. CASE AskDead(p)
  <2>1. Others(p)
    BY <1>0, <1>5 DEF AskDead, Asks, Others
  <2>2. OwnNames(p)
    <3>1. PICK n \in look[p] : /\ look' = [look EXCEPT ![p] = look[p] \ {n}] /\ ~Answers(n)
                               /\ doomed' = [doomed EXCEPT ![p] = {n}] /\ UNCHANGED held
      BY <1>5 DEF AskDead, Asks
    <3>2. look'[p] = look[p] \ {n} /\ doomed'[p] = {n} /\ held' = held
      BY <1>0, <3>1
    <3> QED
      BY <3>1, <3>2 DEF OwnNames
  <2>3. NamesMade(p)
    BY <1>0, <1>5 DEF AskDead, Asks, NamesMade
  <2>4. NamesLost(p)
    BY <1>0, <1>5 DEF AskDead, Asks, NamesLost
  <2>5. Counters(p)
    BY <1>0, <1>5 DEF AskDead, Asks, Counters
  <2>6. Sight(p)
    <3>1. PICK n \in look[p] : /\ look' = [look EXCEPT ![p] = look[p] \ {n}] /\ ~Answers(n)
                               /\ pc' = pc /\ pc[p] \in {"asking", "asking again"}
      BY <1>5 DEF AskDead, Asks
    <3>2. look'[p] = look[p] \ {n}
      BY <1>0, <3>1
    <3> QED
      BY <3>1, <3>2 DEF Sight
  <2> QED
    BY <2>1, <2>2, <2>3, <2>4, <2>5, <2>6 DEF Effects
<1>6. CASE AskStarter(p)
  <2>1. Others(p)
    BY <1>0, <1>6 DEF AskStarter, Asks, Others
  <2>2. OwnNames(p)
    BY <1>0, <1>6 DEF AskStarter, Asks, OwnNames
  <2>3. NamesMade(p)
    BY <1>0, <1>6 DEF AskStarter, Asks, NamesMade
  <2>4. NamesLost(p)
    BY <1>0, <1>6 DEF AskStarter, Asks, NamesLost
  <2>5. Counters(p)
    BY <1>0, <1>6 DEF AskStarter, Asks, Counters
  <2>6. Sight(p)
    BY <1>0, <1>6 DEF AskStarter, Asks, Sight
  <2> QED
    BY <2>1, <2>2, <2>3, <2>4, <2>5, <2>6 DEF Effects
<1>7. CASE AskHolder(p)
  <2>0. PICK n \in look[p] :
          /\ look' = [look EXCEPT ![p] = look[p] \ {n}]
          /\ \/ pc[p] = "asking" /\ pc' = [pc EXCEPT ![p] = "unwinding"]
             \/ pc[p] = "asking again" /\ pc' = [pc EXCEPT ![p] = "withdraw"]
          /\ UNCHANGED <<lock, attempt, serial, doomed, held, abstract, files, listening, alone>>
    BY <1>7 DEF AskHolder, Asks, Fails, Goes
  <2>1. Others(p)
    BY <1>0, <2>0 DEF Others
  <2>2. OwnNames(p)
    BY <1>0, <2>0 DEF OwnNames
  <2>3. NamesMade(p)
    BY <1>0, <2>0 DEF NamesMade
  <2>4. NamesLost(p)
    BY <1>0, <2>0 DEF NamesLost
  <2>5. Counters(p)
    BY <1>0, <2>0 DEF Counters
  <2>6. Sight(p)
    BY <1>0, <2>0 DEF Sight
  <2> QED
    BY <2>1, <2>2, <2>3, <2>4, <2>5, <2>6 DEF Effects
<1>8. CASE Remove(p)
  <2>1. Others(p)
    BY <1>0, <1>8 DEF Remove, Others
  <2>2. OwnNames(p)
    BY <1>0, <1>8 DEF Remove, OwnNames
  <2>3. NamesMade(p)
    BY <1>0, <1>8 DEF Remove, NamesMade
  <2>4. NamesLost(p)
    BY <1>0, <1>8 DEF Remove, NamesLost
  <2>5. Counters(p)
    BY <1>0, <1>8 DEF Remove, Counters
  <2>6. Sight(p)
    BY <1>0, <1>8 DEF Remove, Sight
  <2> QED
    BY <2>1, <2>2, <2>3, <2>4, <2>5, <2>6 DEF Effects
<1>9. CASE NobodyThere(p)
  <2>1. Others(p)
    BY <1>0, <1>9 DEF NobodyThere, LookEnds, Others
  <2>2. OwnNames(p)
    BY <1>0, <1>9 DEF NobodyThere, LookEnds, OwnNames
  <2>3. NamesMade(p)
    BY <1>0, <1>9 DEF NobodyThere, LookEnds, NamesMade
  <2>4. NamesLost(p)
    BY <1>0, <1>9 DEF NobodyThere, LookEnds, NamesLost
  <2>5. Counters(p)
    BY <1>0, <1>9 DEF NobodyThere, LookEnds, Counters
  <2>6. Sight(p)
    BY <1>0, <1>9 DEF NobodyThere, LookEnds, Sight
  <2> QED
    BY <2>1, <2>2, <2>3, <2>4, <2>5, <2>6 DEF Effects
<1>10. CASE Bind(p)
  <2>1. Others(p)
    BY <1>0, <1>10 DEF Bind, Others
  <2>2. OwnNames(p)
    BY <1>0, <1>10 DEF Bind, OwnNames
  <2>3. NamesMade(p)
    BY <1>0, <1>10 DEF Bind, NamesMade
  <2>4. NamesLost(p)
    BY <1>0, <1>10 DEF Bind, NamesLost
  <2>5. Counters(p)
    BY <1>0, <1>10 DEF Bind, Counters
  <2>6. Sight(p)
    BY <1>0, <1>10 DEF Bind, Sight
  <2> QED
    BY <2>1, <2>2, <2>3, <2>4, <2>5, <2>6 DEF Effects
<1>11. CASE Listen(p)
  <2>1. Others(p)
    BY <1>0, <1>11 DEF Listen, Others
  <2>2. OwnNames(p)
    BY <1>0, <1>11 DEF Listen, OwnNames
  <2>3. NamesMade(p)
    BY <1>0, <1>11 DEF Listen, NamesMade
  <2>4. NamesLost(p)
    BY <1>0, <1>11 DEF Listen, NamesLost
  <2>5. Counters(p)
    BY <1>0, <1>11 DEF Listen, Counters
  <2>6. Sight(p)
    BY <1>0, <1>11 DEF Listen, Sight
  <2> QED
    BY <2>1, <2>2, <2>3, <2>4, <2>5, <2>6 DEF Effects
<1>12. CASE Publish(p)
  <2>1. Others(p)
    BY <1>0, <1>12 DEF Publish, Others
  <2>2. OwnNames(p)
    BY <1>0, <1>12 DEF Publish, OwnNames
  <2>3. NamesMade(p)
    BY <1>0, <1>12 DEF Publish, NamesMade
  <2>4. NamesLost(p)
    BY <1>0, <1>12 DEF Publish, NamesLost
  <2>5. Counters(p)
    BY <1>0, <1>12 DEF Publish, Counters
  <2>6. Sight(p)
    BY <1>0, <1>12 DEF Publish, Sight
  <2> QED
    BY <2>1, <2>2, <2>3, <2>4, <2>5, <2>6 DEF Effects
<1>13. CASE NameGone(p)
  <2>1. Others(p)
    BY <1>0, <1>13 DEF NameGone, Others
  <2>2. OwnNames(p)
    BY <1>0, <1>13 DEF NameGone, OwnNames
  <2>3. NamesMade(p)
    BY <1>0, <1>13 DEF NameGone, NamesMade
  <2>4. NamesLost(p)
    BY <1>0, <1>13 DEF NameGone, NamesLost
  <2>5. Counters(p)
    BY <1>0, <1>13 DEF NameGone, Counters
  <2>6. Sight(p)
    BY <1>0, <1>13 DEF NameGone, Sight
  <2> QED
    BY <2>1, <2>2, <2>3, <2>4, <2>5, <2>6 DEF Effects
<1>14. CASE Withdraw(p)
  <2>1. Others(p)
    BY <1>0, <1>14 DEF Withdraw, Others
  <2>2. OwnNames(p)
    BY <1>0, <1>14 DEF Withdraw, OwnNames
  <2>3. NamesMade(p)
    BY <1>0, <1>14 DEF Withdraw, NamesMade
  <2>4. NamesLost(p)
    BY <1>0, <1>14 DEF Withdraw, NamesLost
  <2>5. Counters(p)
    BY <1>0, <1>14 DEF Withdraw, Counters
  <2>6. Sight(p)
    BY <1>0, <1>14 DEF Withdraw, Sight
  <2> QED
    BY <2>1, <2>2, <2>3, <2>4, <2>5, <2>6 DEF Effects
<1>15. CASE Retry(p)
  <2>1. Others(p)
    BY <1>0, <1>15 DEF Retry, Others
  <2>2. OwnNames(p)
    BY <1>0, <1>15 DEF Retry, OwnNames
  <2>3. NamesMade(p)
    BY <1>0, <1>15 DEF Retry, NamesMade
  <2>4. NamesLost(p)
    BY <1>0, <1>15 DEF Retry, NamesLost
  <2>5. Counters(p)
    BY <1>0, <1>15 DEF Retry, Counters
  <2>6. Sight(p)
    BY <1>0, <1>15 DEF Retry, Sight
  <2> QED
    BY <2>1, <2>2, <2>3, <2>4, <2>5, <2>6 DEF Effects
<1>16. CASE GiveUp(p)
  <2>1. Others(p)
    BY <1>0, <1>16 DEF GiveUp, Fails, Others
  <2>2. OwnNames(p)
    BY <1>0, <1>16 DEF GiveUp, Fails, OwnNames
  <2>3. NamesMade(p)
    BY <1>0, <1>16 DEF GiveUp, Fails, NamesMade
  <2>4. NamesLost(p)
    BY <1>0, <1>16 DEF GiveUp, Fails, NamesLost
  <2>5. Counters(p)
    BY <1>0, <1>16 DEF GiveUp, Fails, Counters
  <2>6. Sight(p)
    BY <1>0, <1>16 DEF GiveUp, Fails, Sight
  <2> QED
    BY <2>1, <2>2, <2>3, <2>4, <2>5, <2>6 DEF Effects
<1>17. CASE Take(p)
  <2>1. Others(p)
    BY <1>0, <1>17 DEF Take, LookEnds, Others
  <2>2. OwnNames(p)
    BY <1>0, <1>17 DEF Take, LookEnds, OwnNames
  <2>3. NamesMade(p)
    BY <1>0, <1>17 DEF Take, LookEnds, NamesMade
  <2>4. NamesLost(p)
    BY <1>0, <1>17 DEF Take, LookEnds, NamesLost
  <2>5. Counters(p)
    BY <1>0, <1>17 DEF Take, LookEnds, Counters
  <2>6. Sight(p)
    BY <1>0, <1>17 DEF Take, LookEnds, Sight
  <2> QED
    BY <2>1, <2>2, <2>3, <2>4, <2>5, <2>6 DEF Effects
<1>18. CASE ReleaseFile(p)
  <2>1. Others(p)
    BY <1>0, <1>18 DEF ReleaseFile, Others
  <2>2. OwnNames(p)
    BY <1>0, <1>18 DEF ReleaseFile, OwnNames
  <2>3. NamesMade(p)
    BY <1>0, <1>18 DEF ReleaseFile, NamesMade
  <2>4. NamesLost(p)
    <3>1. PICK n \in held[p] : /\ files' = files \ {n} /\ listening' = listening \ {n.id}
                               /\ held' = [held EXCEPT ![p] = held[p] \ {n}]
      BY <1>18 DEF ReleaseFile
    <3>2. n \in held[p] \ held'[p]
      BY <1>0, <3>1
    <3> QED
      BY <3>1, <3>2 DEF NamesLost
  <2>5. Counters(p)
    BY <1>0, <1>18 DEF ReleaseFile, Counters
  <2>6. Sight(p)
    BY <1>0, <1>18 DEF ReleaseFile, Sight
  <2> QED
    BY <2>1, <2>2, <2>3, <2>4, <2>5, <2>6 DEF Effects
<1>19. CASE ReleaseAbstract(p)
  <2>1. Others(p)
    BY <1>0, <1>19 DEF ReleaseAbstract, Others
  <2>2. OwnNames(p)
    BY <1>0, <1>19 DEF ReleaseAbstract, OwnNames
  <2>3. NamesMade(p)
    BY <1>0, <1>19 DEF ReleaseAbstract, NamesMade
  <2>4. NamesLost(p)
    BY <1>0, <1>19 DEF ReleaseAbstract, NamesLost
  <2>5. Counters(p)
    BY <1>0, <1>19 DEF ReleaseAbstract, Counters
  <2>6. Sight(p)
    BY <1>0, <1>19 DEF ReleaseAbstract, Sight
  <2> QED
    BY <2>1, <2>2, <2>3, <2>4, <2>5, <2>6 DEF Effects
<1>20. CASE Ended(p)
  <2>1. Others(p)
    BY <1>0, <1>20 DEF Ended, Others
  <2>2. OwnNames(p)
    BY <1>0, <1>20 DEF Ended, OwnNames
  <2>3. NamesMade(p)
    BY <1>0, <1>20 DEF Ended, NamesMade
  <2>4. NamesLost(p)
    BY <1>0, <1>20 DEF Ended, NamesLost
  <2>5. Counters(p)
    BY <1>0, <1>20 DEF Ended, Counters
  <2>6. Sight(p)
    BY <1>0, <1>20 DEF Ended, Sight
  <2> QED
    BY <2>1, <2>2, <2>3, <2>4, <2>5, <2>6 DEF Effects
<1>21. CASE CallFails(p)
  <2>1. Others(p)
    BY <1>0, <1>21 DEF CallFails, Fails, Others
  <2>2. OwnNames(p)
    BY <1>0, <1>21 DEF CallFails, Fails, OwnNames
  <2>3. NamesMade(p)
    BY <1>0, <1>21 DEF CallFails, Fails, NamesMade
  <2>4. NamesLost(p)
    BY <1>0, <1>21 DEF CallFails, Fails, NamesLost
  <2>5. Counters(p)
    BY <1>0, <1>21 DEF CallFails, Fails, Counters
  <2>6. Sight(p)
    BY <1>0, <1>21 DEF CallFails, Fails, Sight
  <2> QED
    BY <2>1, <2>2, <2>3, <2>4, <2>5, <2>6 DEF Effects
<1>22. CASE Stop(p)
  <2>1. Others(p)
    BY <1>0, <1>22 DEF Stop, Others
  <2>2. OwnNames(p)
    BY <1>0, <1>22 DEF Stop, OwnNames
  <2>3. NamesMade(p)
    BY <1>0, <1>22 DEF Stop, NamesMade
  <2>4. NamesLost(p)
    BY <1>0, <1>22 DEF Stop, NamesLost
  <2>5. Counters(p)
    BY <1>0, <1>22 DEF Stop, Counters
  <2>6. Sight(p)
    BY <1>0, <1>22 DEF Stop, Sight
  <2> QED
    BY <2>1, <2>2, <2>3, <2>4, <2>5, <2>6 DEF Effects
<1>23. CASE Crash(p)
  <2>1. Others(p)
    BY <1>0, <1>23 DEF Crash, Others
  <2>2. OwnNames(p)
    BY <1>0, <1>23 DEF Crash, OwnNames
  <2>3. NamesMade(p)
    BY <1>0, <1>23 DEF Crash, NamesMade
  <2>4. NamesLost(p)
    BY <1>0, <1>23 DEF Crash, NamesLost
  <2>5. Counters(p)
    BY <1>0, <1>23 DEF Crash, Counters
  <2>6. Sight(p)
    BY <1>0, <1>23 DEF Crash, Sight
  <2> QED
    BY <2>1, <2>2, <2>3, <2>4, <2>5, <2>6 DEF Effects
<1> QED
  BY <1>1, <1>2, <1>3, <1>4, <1>5, <1>6, <1>7, <1>8, <1>9, <1>10, <1>11, <1>12, <1>13, <1>14,
       <1>15, <1>16, <1>17, <1>18, <1>19, <1>20, <1>21, <1>22, <1>23
  DEF Steps

\* Of whatever step is taken, either nothing changes or one process's effects are seen.
LEMMA StepsHaveEffects ==
    ASSUME TypeOK, [Next]_vars PROVE (\E p \in Procs : Effects(p)) \/ UNCHANGED vars
<1>1. CASE UNCHANGED vars
  BY <1>1
<1>2. ASSUME NEW p \in Procs, Start(p) \/ Steps(p) \/ CallFails(p) \/ Stop(p) \/ Crash(p)
      PROVE  Effects(p)
  BY <1>2, StepEffects
<1> QED
  BY <1>1, <1>2 DEF Next

\* The fields of the name of a process's current socket.
LEMMA MineFields ==
    \A p, k : /\ Mine(p, k).kind = k /\ Mine(p, k).dir = Dir(p) /\ Mine(p, k).id = Id(p)
              /\ Id(p)[1] = p /\ Id(p)[2] = serial[p]
  BY DEF Mine, Name, Id

\* Identifiers are drawn before they are used.
LEMMA IdsStep == TypeOK /\ TypeOK' /\ IdsDrawn /\ [Next]_vars => IdsDrawn'
<1> SUFFICES ASSUME TypeOK, TypeOK', IdsDrawn, [Next]_vars PROVE IdsDrawn'
  OBVIOUS
<1>1. CASE UNCHANGED vars
  BY <1>1 DEF vars, IdsDrawn
<1>2. ASSUME NEW p \in Procs, Effects(p) PROVE IdsDrawn'
  <2>1. \A q \in Procs : serial[q] \in Nat /\ serial'[q] \in Nat /\ serial[q] <= serial'[q]
    <3>1. serial \in [Procs -> Nat] /\ serial' \in [Procs -> Nat]
      BY DEF TypeOK
    <3> QED
      BY <3>1, <1>2 DEF Effects, Others, Counters
  <2>2. /\ \A n \in Names : n.id[1] \in Procs /\ n.id[2] \in Nat
        /\ \A i \in Ids : i[1] \in Procs /\ i[2] \in Nat
    BY NameTypes
  <2>3. ASSUME NEW n \in Names, n.id[2] <= serial[n.id[1]] PROVE n.id[2] <= serial'[n.id[1]]
    BY <2>1, <2>2, <2>3
  <2>4. \A k : Mine(p, k).id[2] <= serial'[Mine(p, k).id[1]]
    BY <2>1, MineFields
  <2>5. \A n \in files' : n.id[2] <= serial'[n.id[1]]
    BY <1>2, <2>3, <2>4 DEF Effects, NamesMade, IdsDrawn, TypeOK
  <2>6. \A i \in listening' : i[2] <= serial'[i[1]]
    <3> SUFFICES ASSUME NEW i \in listening' PROVE i[2] <= serial'[i[1]]
      OBVIOUS
    <3>1. CASE i \in listening
      <4>1. i[2] <= serial[i[1]] /\ i \in Ids
        BY <3>1 DEF IdsDrawn, TypeOK
      <4> QED
        BY <4>1, <2>1, <2>2
    <3>2. CASE i = Id(p)
      BY <3>2, <2>1, MineFields
    <3> QED
      BY <1>2, <3>1, <3>2 DEF Effects, NamesMade
  <2>7. ASSUME NEW q \in Procs, NEW n \in look'[q] \cup doomed'[q] \cup held'[q]
        PROVE  n.id[2] <= serial'[n.id[1]]
    <3>1. n \in look[q] \cup doomed[q] \cup held[q] \cup files \/ n = Mine(p, "published")
      BY <1>2, <2>7 DEF Effects, Others, OwnNames
    <3>2. CASE n \in look[q] \cup doomed[q] \cup held[q] \cup files
      <4>1. n \in Names /\ n.id[2] <= serial[n.id[1]]
        BY <3>2 DEF IdsDrawn, TypeOK
      <4> QED
        BY <4>1, <2>3
    <3>3. CASE n = Mine(p, "published")
      BY <3>3, <2>4
    <3> QED
      BY <3>1, <3>2, <3>3
  <2> QED
    BY <2>5, <2>6, <2>7 DEF IdsDrawn
<1> QED
  BY <1>1, <1>2, StepsHaveEffects

\* The last identifier of a process is published by its rename only.
LEMMA LastIdStep ==
    TypeOK /\ TypeOK' /\ IdsDrawn /\ LastIdUnpublished /\ [Next]_vars => LastIdUnpublished'
<1> SUFFICES ASSUME TypeOK, TypeOK', IdsDrawn, LastIdUnpublished, [Next]_vars
             PROVE  LastIdUnpublished'
  OBVIOUS
<1>1. CASE UNCHANGED vars
  BY <1>1 DEF vars, LastIdUnpublished, Id
<1>2. ASSUME NEW p \in Procs, Effects(p) PROVE LastIdUnpublished'
  <2> SUFFICES ASSUME NEW q \in Procs, pc'[q] \in Unpublished, NEW r \in Procs,
                      NEW n \in files' \cup look'[r] \cup doomed'[r] \cup held'[r],
                      n.id = Id(q)', n.kind = "published"
               PROVE  FALSE
    BY DEF LastIdUnpublished
  <2>1. Id(q)' = <<q, serial'[q]>> /\ serial[q] \in Nat
    BY DEF Id, TypeOK
  <2>2. n \in files \cup look[r] \cup doomed[r] \cup held[r]
    <3>1. CASE n \in files'
      <4>1. n # Mine(p, "starting")
        BY MineFields
      <4>2. n # Mine(p, "published") \/ pc'[p] # "second"
        <5> SUFFICES ASSUME n = Mine(p, "published"), pc'[p] = "second" PROVE FALSE
          OBVIOUS
        <5>1. q = p
          BY <2>1, MineFields
        <5> QED
          BY <5>1 DEF Unpublished, FirstLook
      <4> QED
        BY <1>2, <3>1, <4>1, <4>2 DEF Effects, NamesMade
    <3>2. CASE n \in look'[r] \cup doomed'[r]
      BY <1>2, <3>2 DEF Effects, Others, OwnNames
    <3>3. CASE n \in held'[r]
      <4> SUFFICES ASSUME n = Mine(p, "published"), pc'[p] \in {"abstract", "holding"} PROVE FALSE
        BY <1>2, <3>3 DEF Effects, Others, OwnNames
      <4>1. q = p
        BY <2>1, MineFields
      <4> QED
        BY <4>1 DEF Unpublished, FirstLook
    <3> QED
      BY <3>1, <3>2, <3>3
  <2>3. n.id[2] <= serial[n.id[1]]
    BY <2>2 DEF IdsDrawn
  <2>4. serial'[q] = serial[q]
    BY <1>2, <2>1, <2>3 DEF Effects, Others, Counters
  <2>5. n.id = Id(q) /\ pc[q] \in Unpublished
    BY <1>2, <2>1, <2>4 DEF Effects, Others, Counters, Id
  <2> QED
    BY <2>2, <2>5 DEF LastIdUnpublished
<1> QED
  BY <1>1, <1>2, StepsHaveEffects

\* A name that refused under its published form is dead for good.
LEMMA DoomedStep ==
    TypeOK /\ LastIdUnpublished /\ DoomedDead /\ [Next]_vars => DoomedDead'
<1> SUFFICES ASSUME TypeOK, LastIdUnpublished, DoomedDead, [Next]_vars PROVE DoomedDead'
  OBVIOUS
<1>1. CASE UNCHANGED vars
  BY <1>1 DEF vars, DoomedDead, Answers
<1>2. ASSUME NEW p \in Procs, Effects(p) PROVE DoomedDead'
  <2> SUFFICES ASSUME NEW q \in Procs, NEW n \in doomed'[q], n.kind = "published", Answers(n)'
               PROVE  FALSE
    BY DEF DoomedDead
  <2>1. n \in doomed[q] \/ n \in look[q]
    BY <1>2 DEF Effects, Others, OwnNames
  <2>2. ~Answers(n)
    BY <1>2 DEF Effects, Others, OwnNames, DoomedDead
  <2>3. n \in files
    <3>1. n # Mine(p, "starting")
      BY MineFields
    <3>2. ASSUME n = Mine(p, "published"), pc[p] = "rename" PROVE FALSE
      BY <2>1, <3>2, MineFields DEF LastIdUnpublished, Unpublished
    <3> QED
      BY <1>2, <3>1, <3>2 DEF Effects, NamesMade, Answers
  <2>4. n.id \in listening
    <3>1. ASSUME n.id = Id(p), pc[p] = "listen" PROVE FALSE
      BY <2>1, <3>1 DEF LastIdUnpublished, Unpublished
    <3> QED
      BY <1>2, <3>1 DEF Effects, NamesMade, Answers
  <2> QED
    BY <2>2, <2>3, <2>4 DEF Answers
<1> QED
  BY <1>1, <1>2, StepsHaveEffects

\* A lock is held under the name of its own socket.
LEMMA HeldStep ==
    TypeOK /\ LastIdUnpublished /\ HeldIsOwn /\ [Next]_vars => HeldIsOwn'
<1> SUFFICES ASSUME TypeOK, LastIdUnpublished, HeldIsOwn, [Next]_vars PROVE HeldIsOwn'
  OBVIOUS
<1>1. CASE UNCHANGED vars
  BY <1>1 DEF vars, HeldIsOwn, Id
<1>2. ASSUME NEW p \in Procs, Effects(p) PROVE HeldIsOwn'
  <2> SUFFICES ASSUME NEW q \in Procs
               PROVE  /\ \A n \in held'[q] : n.kind = "published" /\ n.id[1] = q
                      /\ \A m, n \in held'[q] : m.id = n.id => m = n
                      /\ pc'[q] \in Published \cup {"withdrawn"} => \A n \in held'[q] : n.id # Id(q)'
    BY DEF HeldIsOwn
  <2>1. CASE q # p
    <3>1. held'[q] = held[q] /\ pc'[q] = pc[q] /\ Id(q)' = Id(q)
      BY <1>2, <2>1 DEF Effects, Others, Id
    <3> QED
      BY <3>1 DEF HeldIsOwn
  <2>2. CASE q = p
    <3>1. ASSUME NEW n \in held'[p], n \notin held[p]
          PROVE  n = Mine(p, "published") /\ pc[p] = "asking again" /\ \A m \in held[p] : m.id # n.id
      <4>1. n = Mine(p, "published") /\ pc[p] = "asking again"
        BY <1>2, <3>1 DEF Effects, OwnNames
      <4>2. n.id = Id(p) /\ pc[p] \in Published
        BY <4>1, MineFields DEF Published, SecondLook
      <4>3. \A m \in held[p] : m.id # Id(p)
        BY <4>2 DEF HeldIsOwn
      <4> QED
        BY <4>1, <4>2, <4>3
    <3>2. ASSUME NEW n \in held'[p] PROVE n.kind = "published" /\ n.id[1] = p
      <4>1. CASE n \in held[p]
        BY <4>1 DEF HeldIsOwn
      <4>2. CASE n \notin held[p]
        <5>1. n = Mine(p, "published")
          BY <3>1, <3>2, <4>2
        <5> QED
          BY <5>1, MineFields
      <4> QED
        BY <4>1, <4>2
    <3>3. ASSUME NEW m \in held'[p], NEW n \in held'[p], m.id = n.id PROVE m = n
      <4>1. CASE m \in held[p] /\ n \in held[p]
        BY <3>3, <4>1 DEF HeldIsOwn
      <4>2. CASE m \notin held[p] \/ n \notin held[p]
        BY <3>1, <3>3, <4>2
      <4> QED
        BY <4>1, <4>2
    <3>4. ASSUME pc'[p] \in Published \cup {"withdrawn"}, NEW n \in held'[p] PROVE n.id # Id(p)'
      <4>1. n \in held[p] /\ Id(p)' = Id(p) /\ (pc[p] \in Published \/ pc[p] = "rename")
        BY <1>2, <3>4 DEF Effects, Counters, Id
      <4>2. CASE pc[p] \in Published
        BY <4>1, <4>2 DEF HeldIsOwn
      <4>3. CASE pc[p] = "rename"
        <5>1. n.kind = "published"
          BY <4>1 DEF HeldIsOwn
        <5> QED
          BY <4>1, <4>3, <5>1 DEF LastIdUnpublished, Unpublished
      <4> QED
        BY <4>1, <4>2, <4>3
    <3> QED
      BY <2>2, <3>2, <3>3, <3>4
  <2> QED
    BY <2>1, <2>2
<1> QED
  BY <1>1, <1>2, StepsHaveEffects

\* A claim is published, and its process's own.
LEMMA ClaimOwned ==
    ASSUME HeldIsOwn, NEW p \in Procs, NEW n \in Claims(p)
    PROVE  n.kind = "published" /\ n.id[1] = p
<1>1. CASE n \in held[p]
  BY <1>1 DEF HeldIsOwn
<1>2. CASE n = Mine(p, "published")
  BY <1>2, MineFields
<1> QED
  BY <1>1, <1>2 DEF Claims

\* A step leaves the claims of the others, and the sockets behind them.
LEMMA OtherClaims ==
    ASSUME NEW p \in Procs, Effects(p), NEW q \in Procs \ {p}
    PROVE  Claims(q)' = Claims(q) /\ Id(q)' = Id(q) /\ Mine(q, "published")' = Mine(q, "published")
<1>1. pc'[q] = pc[q] /\ lock'[q] = lock[q] /\ serial'[q] = serial[q] /\ held'[q] = held[q]
  BY DEF Effects, Others
<1>2. Id(q)' = Id(q) /\ Mine(q, "published")' = Mine(q, "published")
  BY <1>1 DEF Mine, Id, Dir
<1> QED
  BY <1>1, <1>2 DEF Claims

\* Nobody removes the name of a claim, or closes its socket, but its process.
LEMMA ClaimsStep ==
    TypeOK /\ LastIdUnpublished /\ DoomedDead /\ HeldIsOwn /\ ClaimsAnswer /\ [Next]_vars
        => ClaimsAnswer'
<1> SUFFICES ASSUME TypeOK, LastIdUnpublished, DoomedDead, HeldIsOwn, ClaimsAnswer, [Next]_vars
             PROVE  ClaimsAnswer'
  OBVIOUS
<1>1. CASE UNCHANGED vars
  BY <1>1 DEF vars, ClaimsAnswer, Answers, Claims, Mine, Id, Dir
<1>2. ASSUME NEW p \in Procs, Effects(p) PROVE ClaimsAnswer'
  <2>1. ASSUME NEW n, n.kind = "published", Answers(n), n.id \in listening', n \notin files'
        PROVE  \/ n \in held[p] \ held'[p]
               \/ n = Mine(p, "published") /\ pc[p] \in Unpublished \cup Published
                    /\ pc'[p] \in {"withdrawn", "unwinding"}
    <3>1. n \in files \ files' /\ n \notin doomed[p] /\ n # Mine(p, "starting")
      BY <2>1, MineFields DEF Answers, DoomedDead
    <3> QED
      BY <1>2, <3>1 DEF Effects, NamesLost
  <2>2. ASSUME NEW q \in Procs \ {p}, NEW i \in listening, i[1] = q PROVE i \in listening'
    <3>1. \A n \in held[p] : n.id[1] = p
      BY DEF HeldIsOwn
    <3> QED
      BY <1>2, <2>2, <3>1, MineFields DEF Effects, NamesLost
  <2>3. ASSUME NEW q \in Procs \ {p}, NEW n \in Claims(q)' PROVE Answers(n)'
    <3>1. n \in Claims(q) /\ Answers(n)
      BY <1>2, <2>3, OtherClaims DEF ClaimsAnswer
    <3>2. n.kind = "published" /\ n.id[1] = q
      BY <3>1, ClaimOwned
    <3>3. n.id \in listening'
      BY <2>2, <3>1, <3>2 DEF Answers
    <3>4. n \notin held[p] /\ n # Mine(p, "published")
      BY <3>2, MineFields DEF HeldIsOwn
    <3> QED
      BY <2>1, <3>1, <3>2, <3>3, <3>4 DEF Answers
  <2>4. ASSUME NEW n \in held[p], n \in held'[p] PROVE Answers(n)'
    <3>1. n.kind = "published" /\ Answers(n)
      BY DEF HeldIsOwn, ClaimsAnswer, Claims
    <3>2. pc[p] \in Unpublished \cup Published => n.id # Id(p)
      BY <3>1 DEF HeldIsOwn, LastIdUnpublished
    <3>3. n.id[1] = p /\ \A m \in held[p] \ held'[p] : m.id # n.id
      BY <2>4 DEF HeldIsOwn
    <3>4. n.id \in listening'
      BY <1>2, <2>4, <3>1, <3>2, <3>3 DEF Effects, NamesLost, Answers
    <3>5. n # Mine(p, "published") \/ pc[p] \notin Unpublished \cup Published
      BY <3>2, MineFields
    <3> QED
      BY <2>1, <2>4, <3>1, <3>4, <3>5 DEF Answers
  <2>5. ASSUME pc[p] \in Published, pc'[p] \notin {"withdrawn", "unwinding", "killed"},
               \A m \in held[p] : m \in held'[p], NEW n, n = Mine(p, "published")
        PROVE  Answers(n)'
    <3>1. n.kind = "published" /\ n.id = Id(p) /\ Answers(n)
      BY <2>5, MineFields DEF ClaimsAnswer, Claims
    <3>2. n.id \in listening'
      BY <1>2, <2>5, <3>1 DEF Effects, NamesLost, Answers
    <3>3. n \in files'
      BY <2>1, <2>5, <3>1, <3>2
    <3> QED
      BY <3>2, <3>3 DEF Answers
  <2>6. ASSUME NEW n \in held'[p], n \notin held[p] PROVE Answers(n)'
    <3>1. n = Mine(p, "published") /\ pc[p] = "asking again" /\ pc'[p] \in {"abstract", "holding"}
      BY <1>2, <2>6 DEF Effects, OwnNames
    <3>2. pc[p] \in Published /\ n.id = Id(p) /\ n.kind = "published" /\ Answers(n)
      BY <3>1, MineFields DEF Published, SecondLook, ClaimsAnswer, Claims
    <3>3. \A m \in held[p] : m.id # n.id
      BY <3>2 DEF HeldIsOwn
    <3>4. n.id \in listening'
      BY <1>2, <3>1, <3>2, <3>3 DEF Effects, NamesLost, Answers
    <3>5. n \notin held[p] \ held'[p]
      BY <2>6
    <3> QED
      BY <2>1, <3>1, <3>2, <3>4, <3>5 DEF Answers
  <2>7. ASSUME pc'[p] \in Published, NEW n, n = Mine(p, "published")' PROVE Answers(n)'
    <3>1. /\ n = Mine(p, "published") /\ held'[p] = held[p] /\ Id(p)' = Id(p)
          /\ pc[p] \in Published \/ (pc[p] = "rename" /\ pc'[p] = "second")
          /\ pc'[p] \notin {"withdrawn", "unwinding", "killed"}
      BY <1>2, <2>7 DEF Effects, Counters, Mine, Id, Dir, Published, SecondLook
    <3>2. CASE pc[p] \in Published
      BY <2>5, <3>1, <3>2
    <3>3. CASE pc[p] = "rename" /\ pc'[p] = "second"
      <4>1. n \in files' /\ n.id = Id(p) /\ Id(p) \in listening
        BY <1>2, <3>1, <3>3, MineFields DEF Effects, NamesMade, ClaimsAnswer
      <4>2. Id(p) \in listening'
        BY <1>2, <3>1, <3>3, <4>1 DEF Effects, NamesLost
      <4> QED
        BY <4>1, <4>2 DEF Answers
    <3> QED
      BY <3>1, <3>2, <3>3
  <2>8. ASSUME NEW n \in Claims(p)' PROVE Answers(n)'
    <3>1. n \in held'[p] \/ (pc'[p] \in Published /\ n = Mine(p, "published")')
      BY <2>8 DEF Claims
    <3> QED
      BY <3>1, <2>4, <2>6, <2>7
  <2>9. ASSUME NEW q \in Procs, pc'[q] = "rename" PROVE Id(q)' \in listening'
    <3>1. CASE q = p
      BY <1>2, <2>9, <3>1 DEF Effects, NamesMade, Id
    <3>2. CASE q # p
      <4>1. Id(q)' = Id(q) /\ Id(q) \in listening
        BY <1>2, <2>9, <3>2, OtherClaims DEF Effects, Others, ClaimsAnswer
      <4> QED
        BY <2>2, <3>2, <4>1, MineFields
    <3> QED
      BY <3>1, <3>2
  <2> QED
    BY <2>3, <2>8, <2>9 DEF ClaimsAnswer
<1> QED
  BY <1>1, <1>2, StepsHaveEffects

\* Whoever publishes looks at what was published before it.
LEMMA SeesStep ==
    TypeOK /\ HeldIsOwn /\ HeldIsOwn' /\ ClaimsAnswer /\ OneSees /\ [Next]_vars => OneSees'
<1> SUFFICES ASSUME TypeOK, HeldIsOwn, HeldIsOwn', ClaimsAnswer, OneSees, [Next]_vars
             PROVE  OneSees'
  OBVIOUS
<1>1. CASE UNCHANGED vars
  <2>1. \A q \in Procs : Mine(q, "published")' = Mine(q, "published")
    BY <1>1 DEF vars, Mine, Id, Dir
  <2>2. \A q \in Procs : Claims(q)' = Claims(q)
    BY <1>1, <2>1 DEF vars, Claims
  <2>3. \A q \in Procs : \A m, n : Sees(q, m, n)' = Sees(q, m, n)
    BY <1>1, <2>1 DEF vars, Sees
  <2> QED
    BY <2>2, <2>3 DEF OneSees
<1>2. ASSUME NEW p \in Procs, Effects(p) PROVE OneSees'
  <2>1. ASSUME NEW q \in Procs \ {p}, NEW m \in Claims(q), NEW n, Sees(q, m, n)
        PROVE  Sees(q, m, n)'
    <3>1. pc'[q] = pc[q] /\ look'[q] = look[q]
      BY <1>2 DEF Effects, Others
    <3> QED
      BY <1>2, <2>1, <3>1, OtherClaims DEF Sees
  <2>2. ASSUME NEW q \in Procs \ {p}, NEW m \in Claims(p)', NEW n \in Claims(q), m.dir = n.dir
        PROVE  Sees(p, m, n)' \/ Sees(q, n, m)
    <3>1. n.kind = "published" /\ n.id[1] = q /\ Answers(n)
      BY ClaimOwned DEF ClaimsAnswer
    <3>2. CASE m \in Claims(p) /\ Sees(p, m, n)
      <4>1. pc[p] \in Published /\ m = Mine(p, "published") /\ (pc[p] = "asking again" => n \in look[p])
        BY <3>2 DEF Sees
      <4>2. m \notin held'[p]
        <5>1. m.id = Id(p) /\ m \notin held[p]
          <6>1. m.id = Id(p)
            BY <4>1, MineFields
          <6> QED
            BY <4>1, <6>1 DEF HeldIsOwn
        <5>2. ~(pc[p] = "asking again" /\ look[p] = {})
          BY <4>1
        <5> QED
          BY <1>2, <5>1, <5>2 DEF Effects, OwnNames
      <4>3. pc'[p] \in Published /\ m = Mine(p, "published")'
        BY <2>2, <4>2 DEF Claims
      <4>4. ASSUME pc'[p] = "asking again" PROVE n \in look'[p]
        <5>1. n \in files /\ n.dir = Dir(p) /\ n # Mine(p, "published")
          <6>1. n.dir = Dir(p)
            BY <2>2, <4>1, MineFields
          <6>2. n # Mine(p, "published")
            BY <3>1, MineFields
          <6> QED
            BY <3>1, <6>1, <6>2 DEF Answers
        <5> QED
          BY <1>2, <3>1, <4>1, <4>4, <5>1 DEF Effects, Sight
      <4> QED
        BY <4>3, <4>4 DEF Sees
    <3>3. CASE m \in Claims(p) /\ ~Sees(p, m, n)
      BY <2>2, <3>3 DEF OneSees
    <3>4. CASE m \notin Claims(p)
      <4>1. m \notin held'[p]
        <5>1. m \notin held[p] /\ ~(m = Mine(p, "published") /\ pc[p] = "asking again")
          BY <3>4 DEF Claims, Published, SecondLook
        <5> QED
          BY <1>2, <5>1 DEF Effects, OwnNames
      <4>2. pc'[p] \in Published /\ m = Mine(p, "published")'
        BY <2>2, <4>1 DEF Claims
      <4>3. m = Mine(p, "published")
        BY <1>2, <4>2 DEF Effects, Counters, Mine, Id, Dir
      <4>4. pc'[p] = "second"
        BY <1>2, <3>4, <4>2, <4>3 DEF Effects, Counters, Claims, Published, SecondLook
      <4> QED
        BY <4>2, <4>4 DEF Sees
    <3> QED
      BY <3>2, <3>3, <3>4
  <2> SUFFICES ASSUME NEW q \in Procs, NEW r \in Procs, NEW m \in Claims(q)', NEW n \in Claims(r)',
                      q # r, m.dir = n.dir
               PROVE  Sees(q, m, n)' \/ Sees(r, n, m)'
    BY DEF OneSees
  <2>3. CASE q # p /\ r # p
    <3>1. m \in Claims(q) /\ n \in Claims(r)
      BY <1>2, <2>3, OtherClaims
    <3>2. Sees(q, m, n) \/ Sees(r, n, m)
      BY <3>1 DEF OneSees
    <3> QED
      BY <2>1, <2>3, <3>1, <3>2
  <2>4. CASE q = p /\ r # p
    <3>1. n \in Claims(r)
      BY <1>2, <2>4, OtherClaims
    <3> QED
      BY <2>1, <2>2, <2>4, <3>1
  <2>5. CASE r = p /\ q # p
    <3>1. m \in Claims(q)
      BY <1>2, <2>5, OtherClaims
    <3> QED
      BY <2>1, <2>2, <2>5, <3>1
  <2> QED
    BY <2>3, <2>4, <2>5
<1> QED
  BY <1>1, <1>2, StepsHaveEffects

\* The inductive invariant holds of every behaviour.
LEMMA InductiveHolds == Spec => []Inductive
<1>1. Init => Inductive
  <2> SUFFICES ASSUME Init PROVE Inductive
    OBVIOUS
  <2>1. /\ \A p \in Procs : pc[p] = "idle" /\ look[p] = {} /\ doomed[p] = {} /\ held[p] = {}
        /\ files = {} /\ listening = {}
    BY DEF Init
  <2>2. \A p \in Procs : Claims(p) = {}
    BY <2>1 DEF Claims, Published, SecondLook
  <2> QED
    BY <2>1, <2>2, TypeInit DEF Inductive, IdsDrawn, LastIdUnpublished, DoomedDead, HeldIsOwn,
       ClaimsAnswer, OneSees
<1>2. Inductive /\ [Next]_vars => Inductive'
  BY TypeStep, IdsStep, LastIdStep, DoomedStep, HeldStep, ClaimsStep, SeesStep DEF Inductive
<1> QED
  BY <1>1, <1>2, PTL DEF Spec

\* Every variable stays in its type.
THEOREM TypeCorrect == Spec => []TypeOK
<1>1. Inductive => TypeOK
  BY DEF Inductive
<1> QED
  BY <1>1, InductiveHolds, PTL

\* One process at a time has a directory's lock, whatever the namespaces, however many start,
\* fail and are killed.
THEOREM LocksAreExclusive == Spec => []OneHolder
<1>1. Inductive => OneHolder
  <2> SUFFICES ASSUME Inductive, NEW p \in Procs, NEW q \in Procs,
                      NEW m \in held[p], NEW n \in held[q], m.dir = n.dir, p # q
               PROVE  FALSE
    BY DEF OneHolder
  <2>1. Sees(p, m, n) \/ Sees(q, n, m)
    BY DEF Inductive, OneSees, Claims
  <2>2. ASSUME NEW r \in Procs, NEW k \in held[r], NEW j PROVE ~Sees(r, k, j)
    <3>1. pc[r] \in Published => k.id # Id(r)
      BY DEF Inductive, HeldIsOwn
    <3>2. k = Mine(r, "published") => k.id = Id(r)
      BY MineFields
    <3> QED
      BY <3>1, <3>2 DEF Sees
  <2> QED
    BY <2>1, <2>2
<1> QED
  BY <1>1, InductiveHolds, PTL

\* A holder's socket stays where those who look for it find it, and answers them.
THEOREM HoldersAreFound == Spec => []HolderIsFound
<1>1. Inductive => HolderIsFound
  BY DEF Inductive, ClaimsAnswer, Claims, HolderIsFound
<1> QED
  BY <1>1, InductiveHolds, PTL

-----------------------------------------------------------------------------
(* What a process leaves behind.                                           *)

\* The directories of the locks a process has begun to take and not yet released.
Places(p) == {needs[p][i] : i \in 1..lock[p]}

\* The name and the socket of the lock a process is taking, from when it has them to when it takes the
\* lock or withdraws.
Own(p) == IF pc[p] \in {"listen", "rename"} THEN {Mine(p, "starting")}
          ELSE IF pc[p] \in Published THEN {Mine(p, "published")}
          ELSE {}
Open(p) == IF pc[p] \in Published \cup {"rename"} THEN {Id(p)} ELSE {}

\* What it has locked is among the locks it will release, and its names and sockets are those of the
\* locks it holds and of the one it is taking. A killed process leaves its names, and nothing else.
PlacesKept(p) ==
    /\ {n.dir : n \in held[p]} \cup abstract[p] \subseteq Places(p)
    /\ pc[p] \in {"idle", "done"} => lock[p] = 0
NamesKept(p) ==
    pc[p] # "killed" => \A n \in files : n.id[1] = p => n \in held[p] \cup Own(p)
SocketsKept(p) ==
    \A i \in listening : i[1] = p => i \in Open(p) \cup {n.id : n \in held[p]}
Kept(p) == PlacesKept(p) /\ NamesKept(p) /\ SocketsKept(p)

\* No call of a process leaves a name, a socket or a lock that its release does not come to.
LEMMA OwnKept ==
    ASSUME TypeOK, HeldIsOwn, NEW p \in Procs, Kept(p),
           Start(p) \/ Steps(p) \/ CallFails(p) \/ Stop(p) \/ Crash(p)
    PROVE  Kept(p)'
<1>0. /\ PlacesKept(p) /\ NamesKept(p) /\ SocketsKept(p)
      /\ pc \in [Procs -> Running \cup {"idle", "done", "killed"}] /\ lock \in [Procs -> Nat]
      /\ serial \in [Procs -> Nat] /\ held \in [Procs -> SUBSET Names]
      /\ abstract \in [Procs -> SUBSET Dirs] /\ files \subseteq Names /\ listening \subseteq Ids
      /\ (pc[p] \in Taking => lock[p] \in 1..Len(needs[p]))
  BY DEF TypeOK, Kept
<1>same. UNCHANGED <<lock, serial>> => (\A k : Mine(p, k)' = Mine(p, k)) /\ Id(p)' = Id(p)
  BY DEF Mine, Id, Dir
<1>more. lock'[p] \in Nat /\ lock'[p] >= lock[p] => Places(p) \subseteq Places(p)'
  BY <1>0 DEF Places
<1>here. lock[p] > 0 => Dir(p) \in Places(p)
  BY <1>0 DEF Places, Dir
<1> USE DEF Running, Taking, FirstLook, SecondLook, Published, Unpublished, Goes
<1>1. CASE Start(p)
  <2>1. PlacesKept(p)'
    <3>1. lock'[p] = 1 /\ lock[p] = 0 /\ pc'[p] = "abstract" /\ UNCHANGED <<held, abstract>>
      BY <1>0, <1>1 DEF Start, PlacesKept
    <3>2. Places(p) \subseteq Places(p)'
      BY <1>more, <3>1
    <3> QED
      BY <1>0, <3>1, <3>2 DEF PlacesKept
  <2>2. NamesKept(p)'
    BY <1>0, <1>1, <1>same DEF Start, Rivals, NamesKept, Own
  <2>3. SocketsKept(p)'
    BY <1>0, <1>1 DEF Start, Rivals, SocketsKept, Open, Id
  <2> QED
    BY <2>1, <2>2, <2>3 DEF Kept
<1>2. CASE BindAbstract(p)
  <2>1. PlacesKept(p)'
    <3>1. UNCHANGED <<held, lock>> /\ pc'[p] = "first" /\ abstract'[p] = abstract[p] \cup {Dir(p)}
      BY <1>0, <1>2 DEF BindAbstract
    <3>2. Dir(p) \in Places(p) /\ Places(p)' = Places(p)
      <4>1. lock[p] \in 1..Len(needs[p])
        BY <1>0, <1>2 DEF BindAbstract
      <4>2. lock[p] > 0
        BY <4>1
      <4> QED
        BY <1>here, <3>1, <4>2 DEF Places
    <3> QED
      BY <1>0, <3>1, <3>2 DEF PlacesKept
  <2>2. NamesKept(p)'
    BY <1>0, <1>2, <1>same DEF BindAbstract, NamesKept, Own
  <2>3. SocketsKept(p)'
    BY <1>0, <1>2 DEF BindAbstract, SocketsKept, Open, Id
  <2> QED
    BY <2>1, <2>2, <2>3 DEF Kept
<1>3. CASE AddressInUse(p)
  <2>1. PlacesKept(p)'
    BY <1>0, <1>3 DEF AddressInUse, Fails, PlacesKept, Places, Dir
  <2>2. NamesKept(p)'
    BY <1>0, <1>3, <1>same DEF AddressInUse, Fails, NamesKept, Own
  <2>3. SocketsKept(p)'
    BY <1>0, <1>3 DEF AddressInUse, Fails, SocketsKept, Open, Id
  <2> QED
    BY <2>1, <2>2, <2>3 DEF Kept
<1>4. CASE List(p)
  <2>1. PlacesKept(p)'
    BY <1>0, <1>4 DEF List, PlacesKept, Places, Dir
  <2>2. NamesKept(p)'
    BY <1>0, <1>4, <1>same DEF List, NamesKept, Own
  <2>3. SocketsKept(p)'
    BY <1>0, <1>4 DEF List, SocketsKept, Open, Id
  <2> QED
    BY <2>1, <2>2, <2>3 DEF Kept
<1>5. CASE AskDead(p)
  <2>1. PlacesKept(p)'
    BY <1>0, <1>5 DEF AskDead, Asks, PlacesKept, Places, Dir
  <2>2. NamesKept(p)'
    BY <1>0, <1>5, <1>same DEF AskDead, Asks, NamesKept, Own
  <2>3. SocketsKept(p)'
    BY <1>0, <1>5 DEF AskDead, Asks, SocketsKept, Open, Id
  <2> QED
    BY <2>1, <2>2, <2>3 DEF Kept
<1>6. CASE AskStarter(p)
  <2>1. PlacesKept(p)'
    BY <1>0, <1>6 DEF AskStarter, Asks, PlacesKept, Places, Dir
  <2>2. NamesKept(p)'
    BY <1>0, <1>6, <1>same DEF AskStarter, Asks, NamesKept, Own
  <2>3. SocketsKept(p)'
    BY <1>0, <1>6 DEF AskStarter, Asks, SocketsKept, Open, Id
  <2> QED
    BY <2>1, <2>2, <2>3 DEF Kept
<1>7. CASE AskHolder(p)
  <2>1. PlacesKept(p)'
    BY <1>0, <1>7 DEF AskHolder, Asks, Fails, PlacesKept, Places, Dir
  <2>2. NamesKept(p)'
    BY <1>0, <1>7, <1>same DEF AskHolder, Asks, Fails, NamesKept, Own
  <2>3. SocketsKept(p)'
    BY <1>0, <1>7 DEF AskHolder, Asks, Fails, SocketsKept, Open, Id
  <2> QED
    BY <2>1, <2>2, <2>3 DEF Kept
<1>8. CASE Remove(p)
  <2>1. PlacesKept(p)'
    BY <1>0, <1>8 DEF Remove, PlacesKept, Places, Dir
  <2>2. NamesKept(p)'
    BY <1>0, <1>8, <1>same DEF Remove, NamesKept, Own
  <2>3. SocketsKept(p)'
    BY <1>0, <1>8 DEF Remove, SocketsKept, Open, Id
  <2> QED
    BY <2>1, <2>2, <2>3 DEF Kept
<1>9. CASE NobodyThere(p)
  <2>1. PlacesKept(p)'
    BY <1>0, <1>9 DEF NobodyThere, PlacesKept, Places, Dir
  <2>2. NamesKept(p)'
    BY <1>0, <1>9, <1>same DEF NobodyThere, NamesKept, Own
  <2>3. SocketsKept(p)'
    BY <1>0, <1>9 DEF NobodyThere, SocketsKept, Open, Id
  <2> QED
    BY <2>1, <2>2, <2>3 DEF Kept
<1>10. CASE Bind(p)
  <2>1. PlacesKept(p)'
    BY <1>0, <1>10 DEF Bind, PlacesKept, Places, Dir
  <2>2. NamesKept(p)'
    BY <1>0, <1>10, <1>same DEF Bind, NamesKept, Own
  <2>3. SocketsKept(p)'
    BY <1>0, <1>10 DEF Bind, SocketsKept, Open, Id
  <2> QED
    BY <2>1, <2>2, <2>3 DEF Kept
<1>11. CASE Listen(p)
  <2>1. PlacesKept(p)'
    BY <1>0, <1>11 DEF Listen, PlacesKept, Places, Dir
  <2>2. NamesKept(p)'
    BY <1>0, <1>11, <1>same DEF Listen, NamesKept, Own
  <2>3. SocketsKept(p)'
    BY <1>0, <1>11 DEF Listen, SocketsKept, Open, Id
  <2> QED
    BY <2>1, <2>2, <2>3 DEF Kept
<1>12. CASE Publish(p)
  <2>1. PlacesKept(p)'
    BY <1>0, <1>12 DEF Publish, PlacesKept, Places, Dir
  <2>2. NamesKept(p)'
    BY <1>0, <1>12, <1>same DEF Publish, NamesKept, Own
  <2>3. SocketsKept(p)'
    BY <1>0, <1>12 DEF Publish, SocketsKept, Open, Id
  <2> QED
    BY <2>1, <2>2, <2>3 DEF Kept
<1>13. CASE NameGone(p)
  <2>1. PlacesKept(p)'
    BY <1>0, <1>13 DEF NameGone, PlacesKept, Places, Dir
  <2>2. NamesKept(p)'
    BY <1>0, <1>13, <1>same DEF NameGone, NamesKept, Own
  <2>3. SocketsKept(p)'
    BY <1>0, <1>13 DEF NameGone, SocketsKept, Open, Id
  <2> QED
    BY <2>1, <2>2, <2>3 DEF Kept
<1>14. CASE Withdraw(p)
  <2>1. PlacesKept(p)'
    BY <1>0, <1>14 DEF Withdraw, PlacesKept, Places, Dir
  <2>2. NamesKept(p)'
    BY <1>0, <1>14, <1>same DEF Withdraw, NamesKept, Own
  <2>3. SocketsKept(p)'
    BY <1>0, <1>14 DEF Withdraw, SocketsKept, Open, Id
  <2> QED
    BY <2>1, <2>2, <2>3 DEF Kept
<1>15. CASE Retry(p)
  <2>1. PlacesKept(p)'
    BY <1>0, <1>15 DEF Retry, PlacesKept, Places, Dir
  <2>2. NamesKept(p)'
    BY <1>0, <1>15, <1>same DEF Retry, NamesKept, Own
  <2>3. SocketsKept(p)'
    BY <1>0, <1>15 DEF Retry, SocketsKept, Open, Id
  <2> QED
    BY <2>1, <2>2, <2>3 DEF Kept
<1>16. CASE GiveUp(p)
  <2>1. PlacesKept(p)'
    BY <1>0, <1>16 DEF GiveUp, Fails, PlacesKept, Places, Dir
  <2>2. NamesKept(p)'
    BY <1>0, <1>16, <1>same DEF GiveUp, Fails, NamesKept, Own
  <2>3. SocketsKept(p)'
    BY <1>0, <1>16 DEF GiveUp, Fails, SocketsKept, Open, Id
  <2> QED
    BY <2>1, <2>2, <2>3 DEF Kept
<1>17. CASE Take(p)
  <2>1. PlacesKept(p)'
    <3>1. /\ UNCHANGED abstract /\ held'[p] = held[p] \cup {Mine(p, "published")}
          /\ pc'[p] \in {"abstract", "holding"} /\ lock'[p] \in {lock[p], lock[p] + 1}
      BY <1>0, <1>17 DEF Take
    <3>2. Places(p) \subseteq Places(p)'
      <4>1. lock[p] \in Nat
        BY <1>0
      <4> QED
        BY <1>more, <3>1, <4>1
    <3>3. Mine(p, "published").dir \in Places(p)
      <4>1. lock[p] \in 1..Len(needs[p])
        BY <1>0, <1>17 DEF Take
      <4>2. lock[p] > 0
        BY <4>1
      <4> QED
        BY <1>here, <4>2, MineFields
    <3> QED
      BY <1>0, <3>1, <3>2, <3>3 DEF PlacesKept
  <2>2. NamesKept(p)'
    BY <1>0, <1>17, <1>same DEF Take, NamesKept, Own
  <2>3. SocketsKept(p)'
    <3>1. /\ UNCHANGED listening /\ held'[p] = held[p] \cup {Mine(p, "published")}
          /\ pc[p] = "asking again"
      BY <1>0, <1>17 DEF Take
    <3>2. \A i \in Open(p) : i = Mine(p, "published").id
      BY MineFields DEF Open
    <3> QED
      BY <1>0, <3>1, <3>2 DEF SocketsKept
  <2> QED
    BY <2>1, <2>2, <2>3 DEF Kept
<1>18. CASE ReleaseFile(p)
  <2>1. PlacesKept(p)'
    <3>1. UNCHANGED <<pc, lock, abstract>> /\ held'[p] \subseteq held[p]
      BY <1>0, <1>18 DEF ReleaseFile
    <3> QED
      BY <1>0, <3>1 DEF PlacesKept, Places
  <2>2. NamesKept(p)'
    <3>1. PICK n \in held[p] : /\ pc[p] = "unwinding" /\ files' = files \ {n}
                              /\ held' = [held EXCEPT ![p] = @ \ {n}] /\ UNCHANGED pc
      BY <1>18 DEF ReleaseFile
    <3> QED
      BY <1>0, <3>1 DEF NamesKept, Own
  <2>3. SocketsKept(p)'
    <3>1. PICK n \in held[p] : /\ pc[p] = "unwinding" /\ listening' = listening \ {n.id}
                              /\ held' = [held EXCEPT ![p] = @ \ {n}] /\ UNCHANGED pc
      BY <1>18 DEF ReleaseFile
    <3> QED
      BY <1>0, <3>1 DEF SocketsKept, Open
  <2> QED
    BY <2>1, <2>2, <2>3 DEF Kept
<1>19. CASE ReleaseAbstract(p)
  <2>1. PlacesKept(p)'
    <3>1. /\ UNCHANGED <<pc, held>> /\ pc[p] = "unwinding" /\ lock[p] > 0 /\ HeldHere(p) = {}
          /\ abstract'[p] = abstract[p] \ {Dir(p)} /\ lock'[p] = lock[p] - 1
      BY <1>0, <1>19 DEF ReleaseAbstract
    <3>2. Places(p) \subseteq Places(p)' \cup {Dir(p)}
      <4>1. lock[p] \in Nat
        BY <1>0
      <4> QED
        BY <3>1, <4>1 DEF Places, Dir
    <3>3. \A n \in held[p] : n.dir # Dir(p)
      BY <3>1 DEF HeldHere
    <3> QED
      BY <1>0, <3>1, <3>2, <3>3 DEF PlacesKept
  <2>2. NamesKept(p)'
    BY <1>0, <1>19, <1>same DEF ReleaseAbstract, HeldHere, NamesKept, Own
  <2>3. SocketsKept(p)'
    BY <1>0, <1>19 DEF ReleaseAbstract, HeldHere, SocketsKept, Open, Id
  <2> QED
    BY <2>1, <2>2, <2>3 DEF Kept
<1>20. CASE Ended(p)
  <2>1. PlacesKept(p)'
    BY <1>0, <1>20 DEF Ended, PlacesKept, Places, Dir
  <2>2. NamesKept(p)'
    BY <1>0, <1>20, <1>same DEF Ended, NamesKept, Own
  <2>3. SocketsKept(p)'
    BY <1>0, <1>20 DEF Ended, SocketsKept, Open, Id
  <2> QED
    BY <2>1, <2>2, <2>3 DEF Kept
<1>21. CASE CallFails(p)
  <2>1. PlacesKept(p)'
    BY <1>0, <1>21 DEF CallFails, Fails, PlacesKept, Places, Dir
  <2>2. NamesKept(p)'
    BY <1>0, <1>21, <1>same DEF CallFails, Fails, NamesKept, Own
  <2>3. SocketsKept(p)'
    BY <1>0, <1>21 DEF CallFails, Fails, SocketsKept, Open, Id
  <2> QED
    BY <2>1, <2>2, <2>3 DEF Kept
<1>22. CASE Stop(p)
  <2>1. PlacesKept(p)'
    BY <1>0, <1>22 DEF Stop, PlacesKept, Places, Dir
  <2>2. NamesKept(p)'
    BY <1>0, <1>22, <1>same DEF Stop, NamesKept, Own
  <2>3. SocketsKept(p)'
    BY <1>0, <1>22 DEF Stop, SocketsKept, Open, Id
  <2> QED
    BY <2>1, <2>2, <2>3 DEF Kept
<1>23. CASE Crash(p)
  <2>1. PlacesKept(p)'
    BY <1>0, <1>23 DEF Crash, PlacesKept, Places, Dir
  <2>2. NamesKept(p)'
    BY <1>0, <1>23, <1>same DEF Crash, NamesKept, Own
  <2>3. SocketsKept(p)'
    BY <1>0, <1>23 DEF Crash, SocketsKept, Open, Id
  <2> QED
    BY <2>1, <2>2, <2>3 DEF Kept
<1> QED
  BY <1>1, <1>2, <1>3, <1>4, <1>5, <1>6, <1>7, <1>8, <1>9, <1>10, <1>11, <1>12, <1>13, <1>14, <1>15, <1>16, <1>17, <1>18, <1>19, <1>20, <1>21, <1>22, <1>23 DEF Steps

\* A process binds and closes abstract sockets of its own only.
LEMMA AbstractOfOthers ==
    ASSUME TypeOK, NEW p \in Procs, NEW q \in Procs \ {p},
           Start(p) \/ Steps(p) \/ CallFails(p) \/ Stop(p) \/ Crash(p)
    PROVE  abstract'[q] = abstract[q]
<1>0. abstract \in [Procs -> SUBSET Dirs]
  BY DEF TypeOK
<1>1. CASE BindAbstract(p) \/ ReleaseAbstract(p) \/ Crash(p)
  BY <1>0, <1>1 DEF BindAbstract, ReleaseAbstract, Crash
<1>2. CASE Start(p) \/ CallFails(p) \/ Stop(p)
  BY <1>2 DEF Start, CallFails, Stop
<1>3. CASE \/ AddressInUse(p) \/ List(p) \/ AskDead(p) \/ AskStarter(p) \/ AskHolder(p) \/ Remove(p)
           \/ NobodyThere(p) \/ Bind(p) \/ Listen(p)
  BY <1>3 DEF AddressInUse, List, AskDead, AskStarter, AskHolder, Remove, NobodyThere, Bind, Listen
<1>4. CASE \/ Publish(p) \/ NameGone(p) \/ Withdraw(p) \/ Retry(p) \/ GiveUp(p) \/ Take(p)
           \/ ReleaseFile(p) \/ Ended(p)
  BY <1>4 DEF Publish, NameGone, Withdraw, Retry, GiveUp, Take, ReleaseFile, Ended
<1> QED
  BY <1>1, <1>2, <1>3, <1>4 DEF Steps

\* Nor does it make names and sockets that are another's.
LEMMA OthersKept ==
    ASSUME NEW p \in Procs, NEW q \in Procs \ {p}, Effects(p), abstract'[q] = abstract[q], Kept(q)
    PROVE  Kept(q)'
<1>1. /\ pc'[q] = pc[q] /\ lock'[q] = lock[q] /\ serial'[q] = serial[q] /\ held'[q] = held[q]
  BY DEF Effects, Others
<1>2. PlacesKept(q)'
  BY <1>1 DEF Kept, PlacesKept, Places
<1>3. Own(q)' = Own(q) /\ Open(q)' = Open(q)
  BY <1>1 DEF Own, Open, Mine, Id, Dir
<1>4. \A n \in files' : n.id[1] = q => n \in files
  BY MineFields DEF Effects, NamesMade
<1>5. \A i \in listening' : i[1] = q => i \in listening
  BY MineFields DEF Effects, NamesMade
<1>6. NamesKept(q)'
  BY <1>1, <1>3, <1>4 DEF Kept, NamesKept
<1>7. SocketsKept(q)'
  BY <1>1, <1>3, <1>5 DEF Kept, SocketsKept
<1> QED
  BY <1>2, <1>6, <1>7 DEF Kept

AllKept == \A p \in Procs : Kept(p)

\* So every process can account for what it has, at any time.
LEMMA AllKeptHolds == Spec => []AllKept
<1>1. Init => AllKept
  <2> SUFFICES ASSUME Init, NEW p \in Procs PROVE Kept(p)
    BY DEF AllKept
  <2>1. /\ pc[p] = "idle" /\ lock[p] = 0 /\ held[p] = {} /\ abstract[p] = {}
        /\ files = {} /\ listening = {}
    BY DEF Init
  <2> QED
    BY <2>1 DEF Kept, PlacesKept, NamesKept, SocketsKept
<1>2. Inductive /\ AllKept /\ [Next]_vars => AllKept'
  <2> SUFFICES ASSUME Inductive, AllKept, [Next]_vars, NEW q \in Procs PROVE Kept(q)'
    BY DEF AllKept
  <2>1. TypeOK /\ HeldIsOwn /\ Kept(q)
    BY DEF Inductive, AllKept
  <2>2. CASE UNCHANGED vars
    BY <2>1, <2>2 DEF vars, Kept, PlacesKept, Places, NamesKept, SocketsKept, Own, Open, Mine, Id, Dir
  <2>3. ASSUME NEW p \in Procs, Start(p) \/ Steps(p) \/ CallFails(p) \/ Stop(p) \/ Crash(p)
        PROVE  Kept(q)'
    <3>1. CASE q = p
      BY <2>1, <2>3, <3>1, OwnKept
    <3>2. CASE q # p
      <4>1. Effects(p)
        BY <2>1, <2>3, StepEffects
      <4>2. abstract'[q] = abstract[q]
        BY <2>1, <2>3, <3>2, AbstractOfOthers
      <4> QED
        BY <2>1, <3>2, <4>1, <4>2, OthersKept
    <3> QED
      BY <3>1, <3>2
  <2> QED
    BY <2>2, <2>3 DEF Next
<1> QED
  BY <1>1, <1>2, InductiveHolds, PTL DEF Spec

\* A start that failed, or a process that stopped, has left no lock, no name and no socket: wherever its
\* calls failed, whatever others removed meanwhile, and however many locks it had.
THEOREM NothingIsLeft == Spec => []NothingLeft
<1>1. AllKept => NothingLeft
  <2> SUFFICES ASSUME AllKept, NEW p \in Procs, pc[p] = "done"
               PROVE  /\ held[p] = {} /\ abstract[p] = {}
                      /\ \A n \in files : n.id[1] # p
                      /\ \A i \in listening : i[1] # p
    BY DEF NothingLeft
  <2>1. Kept(p)
    BY DEF AllKept
  <2>2. Places(p) = {}
    BY <2>1 DEF Kept, PlacesKept, Places
  <2>3. held[p] = {} /\ abstract[p] = {}
    BY <2>1, <2>2 DEF Kept, PlacesKept
  <2>4. Own(p) = {} /\ Open(p) = {}
    BY DEF Own, Open, Published, SecondLook
  <2> QED
    BY <2>1, <2>3, <2>4 DEF Kept, NamesKept, SocketsKept
<1> QED
  BY <1>1, AllKeptHolds, PTL
==============================================================================
