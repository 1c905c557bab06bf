---------------------------- MODULE InstanceLock ----------------------------
(* One daemon per data directory, and per temporary root of its agents         *)
(* (apps/server/src/instance-lock.ts). A directory's lock is first an abstract *)
(* socket, which holds only within a network namespace, and then a socket file *)
(* in the directory: bound under a starting name, renamed to its published     *)
(* one, and kept if a second look at the directory finds no other holder.      *)
(* Nobody writes to a lock and nobody is in charge: every step here is one     *)
(* system call of one process, and the others come between any two of them.    *)
(* A daemon takes its data directory's lock and then its root's; a command     *)
(* that works on the database takes the first alone.                           *)
EXTENDS Integers, Sequences, FiniteSets

CONSTANTS
    Procs,      \* the processes that start, each of them once
    Dirs,       \* the directories that are locked
    needs,      \* needs[p]: the directories whose locks p takes, in their order
    namespace,  \* namespace[p]: where p's abstract sockets are seen
    Retries,    \* WITHDRAWN_RETRIES: how often a lock is tried after withdrawals
    Failing,    \* the processes whose system calls may fail for another reason
    Crashing    \* the processes that may be killed

ASSUME NeedsAssumption ==
    /\ needs \in [Procs -> Seq(Dirs)]
    /\ \A p \in Procs : needs[p] # <<>>
ASSUME RetriesAssumption == Retries \in Nat \ {0}

VARIABLES
    pc,         \* where a process stands
    lock,       \* how many locks it has begun to take (or has left to release)
    attempt,    \* which try of the lock it is at
    serial,     \* how many socket identifiers it has drawn
    look,       \* the listed names it has still to ask
    doomed,     \* the names that refused it and that it is about to remove
    held,       \* the published names of the locks it has
    abstract,   \* the directories whose abstract socket it has bound
    outcome,    \* how its start ended, when it failed
    files,      \* the names in the directories
    listening,  \* the sockets a live process listens on
    alone       \* history: no other process needed its directories while it started

vars == <<pc, lock, attempt, serial, look, doomed, held, abstract, outcome,
          files, listening, alone>>

(* A socket is its process and a serial number: the code draws 48 random bits, *)
(* and no two sockets have the same.                                           *)
Ids == Procs \X Nat
Names == [kind : {"starting", "published"}, dir : Dirs, id : Ids]
Name(k, d, i) == [kind |-> k, dir |-> d, id |-> i]

Dir(p) == needs[p][lock[p]]
Id(p) == <<p, serial[p]>>
Mine(p, k) == Name(k, Dir(p), Id(p))

FirstLook == {"first", "asking"}
SecondLook == {"second", "asking again"}
Published == SecondLook \cup {"withdraw"}
Taking == {"abstract", "bind", "listen", "rename", "withdrawn"} \cup FirstLook \cup Published
Running == Taking \cup {"holding", "unwinding"}

TypeOK ==
    /\ pc \in [Procs -> Running \cup {"idle", "done", "killed"}]
    /\ lock \in [Procs -> Nat]
    /\ attempt \in [Procs -> 1..Retries]
    /\ serial \in [Procs -> Nat]
    /\ look \in [Procs -> SUBSET Names]
    /\ doomed \in [Procs -> SUBSET Names]
    /\ held \in [Procs -> SUBSET Names]
    /\ abstract \in [Procs -> SUBSET Dirs]
    /\ outcome \in [Procs -> {"none", "refused", "gave up", "failed"}]
    /\ files \subseteq Names
    /\ listening \subseteq Ids
    /\ alone \in [Procs -> BOOLEAN]
    /\ \A p \in Procs : pc[p] \in Taking => lock[p] \in 1..Len(needs[p])

Init ==
    /\ pc = [p \in Procs |-> "idle"]
    /\ lock = [p \in Procs |-> 0]
    /\ attempt = [p \in Procs |-> 1]
    /\ serial = [p \in Procs |-> 0]
    /\ look = [p \in Procs |-> {}]
    /\ doomed = [p \in Procs |-> {}]
    /\ held = [p \in Procs |-> {}]
    /\ abstract = [p \in Procs |-> {}]
    /\ outcome = [p \in Procs |-> "none"]
    /\ files = {}
    /\ listening = {}
    /\ alone = [p \in Procs |-> TRUE]

Goes(p, label) == pc' = [pc EXCEPT ![p] = label]
Fails(p, how) == /\ Goes(p, "unwinding")
                 /\ outcome' = [outcome EXCEPT ![p] = how]

-----------------------------------------------------------------------------
(* Taking a directory's lock.                                                  *)

Shared(p, q) == \E i \in DOMAIN needs[p], j \in DOMAIN needs[q] : needs[p][i] = needs[q][j]

Rivals(p) == {q \in Procs \ {p} : pc[q] \in Running /\ Shared(p, q)}

(* A process begins with the lock of its data directory.                       *)
Start(p) ==
    /\ pc[p] = "idle"
    /\ Goes(p, "abstract")
    /\ lock' = [lock EXCEPT ![p] = 1]
    /\ alone' = [q \in Procs |->
                    IF q = p THEN Rivals(p) = {}
                    ELSE alone[q] /\ q \notin Rivals(p)]
    /\ UNCHANGED <<attempt, serial, look, doomed, held, abstract, outcome, files, listening>>

(* The abstract socket's address is in use in this namespace: refused.         *)
InUse(p) == \E q \in Procs : namespace[q] = namespace[p] /\ Dir(p) \in abstract[q]

BindAbstract(p) ==
    /\ pc[p] = "abstract"
    /\ ~InUse(p)
    /\ abstract' = [abstract EXCEPT ![p] = @ \cup {Dir(p)}]
    /\ attempt' = [attempt EXCEPT ![p] = 1]
    /\ serial' = [serial EXCEPT ![p] = @ + 1]
    /\ Goes(p, "first")
    /\ UNCHANGED <<lock, look, doomed, held, outcome, files, listening, alone>>

AddressInUse(p) ==
    /\ pc[p] = "abstract"
    /\ InUse(p)
    /\ Fails(p, "refused")
    /\ UNCHANGED <<lock, attempt, serial, look, doomed, held, abstract, files, listening, alone>>

(* A look lists the names in the directory, all but its own.                   *)
Listed(p) == {n \in files : n.dir = Dir(p)} \ {Mine(p, "published")}

List(p) ==
    /\ pc[p] \in {"first", "second"}
    /\ look' = [look EXCEPT ![p] = Listed(p)]
    /\ Goes(p, IF pc[p] = "first" THEN "asking" ELSE "asking again")
    /\ UNCHANGED <<lock, attempt, serial, doomed, held, abstract, outcome, files, listening, alone>>

(* Mutant: a name that is there is taken for a holder.                         *)
AnswersByName(n) == n \in files

(* It connects to each of them in turn.                                        *)
Asks(p, n) ==
    /\ pc[p] \in {"asking", "asking again"}
    /\ doomed[p] = {}
    /\ n \in look[p]
    /\ look' = [look EXCEPT ![p] = @ \ {n}]

Answers(n) == n \in files /\ n.id \in listening

(* Nobody listens there, or the name has gone.                                 *)
AskDead(p) == \E n \in look[p] :
    /\ Asks(p, n)
    /\ ~Answers(n)
    /\ doomed' = [doomed EXCEPT ![p] = {n}]
    /\ UNCHANGED <<pc, lock, attempt, serial, held, abstract, outcome, files, listening, alone>>

(* A starter that listens is not a holder yet.                                 *)
AskStarter(p) == \E n \in look[p] :
    /\ Asks(p, n)
    /\ Answers(n) /\ n.kind = "starting"
    /\ UNCHANGED <<pc, lock, attempt, serial, doomed, held, abstract, outcome, files,
                   listening, alone>>

(* A published socket that answers, or keeps silent, refuses a first look and  *)
(* has a second one withdraw. The names after it are not asked.                *)
AskHolder(p) == \E n \in look[p] :
    /\ Asks(p, n)
    /\ Answers(n) /\ n.kind = "published"
    /\ IF pc[p] = "asking"
       THEN Fails(p, "refused")
       ELSE Goes(p, "withdraw") /\ UNCHANGED outcome
    /\ UNCHANGED <<lock, attempt, serial, doomed, held, abstract, files, listening, alone>>

(* Mutant: what refused is removed under either name.                          *)
RemoveById(p) ==
    /\ pc[p] \in {"asking", "asking again"}
    /\ doomed[p] # {}
    /\ files' = {n \in files : \A m \in doomed[p] : m.id # n.id}
    /\ doomed' = [doomed EXCEPT ![p] = {}]
    /\ UNCHANGED <<pc, lock, attempt, serial, look, held, abstract, outcome, listening, alone>>

(* What refused is removed, by the name that was asked.                        *)
Remove(p) ==
    /\ pc[p] \in {"asking", "asking again"}
    /\ doomed[p] # {}
    /\ files' = files \ doomed[p]
    /\ doomed' = [doomed EXCEPT ![p] = {}]
    /\ UNCHANGED <<pc, lock, attempt, serial, look, held, abstract, outcome, listening, alone>>

LookEnds(p) == look[p] = {} /\ doomed[p] = {}

NobodyThere(p) ==
    /\ pc[p] = "asking" /\ LookEnds(p)
    /\ Goes(p, "bind")
    /\ UNCHANGED <<lock, attempt, serial, look, doomed, held, abstract, outcome, files,
                   listening, alone>>

(* Mutant: no second look after publishing.                                    *)
PublishOnce(p) ==
    /\ pc[p] = "rename"
    /\ Mine(p, "starting") \in files
    /\ files' = (files \ {Mine(p, "starting")}) \cup {Mine(p, "published")}
    /\ Goes(p, "asking again")
    /\ UNCHANGED <<lock, attempt, serial, look, doomed, held, abstract, outcome, listening, alone>>

(* The socket's file is there before anybody listens on it.                    *)
Bind(p) ==
    /\ pc[p] = "bind"
    /\ files' = files \cup {Mine(p, "starting")}
    /\ Goes(p, "listen")
    /\ UNCHANGED <<lock, attempt, serial, look, doomed, held, abstract, outcome, listening, alone>>

Listen(p) ==
    /\ pc[p] = "listen"
    /\ listening' = listening \cup {Id(p)}
    /\ Goes(p, "rename")
    /\ UNCHANGED <<lock, attempt, serial, look, doomed, held, abstract, outcome, files, alone>>

Publish(p) ==
    /\ pc[p] = "rename"
    /\ Mine(p, "starting") \in files
    /\ files' = (files \ {Mine(p, "starting")}) \cup {Mine(p, "published")}
    /\ Goes(p, "second")
    /\ UNCHANGED <<lock, attempt, serial, look, doomed, held, abstract, outcome, listening, alone>>

(* Mutant: the socket whose name has gone stays open.                          *)
NameGoneOpen(p) ==
    /\ pc[p] = "rename"
    /\ Mine(p, "starting") \notin files
    /\ Goes(p, "withdrawn")
    /\ UNCHANGED <<lock, attempt, serial, look, doomed, held, abstract, outcome, files,
                   listening, alone>>

(* Another start asked between the bind and the listen, and removed the name.  *)
NameGone(p) ==
    /\ pc[p] = "rename"
    /\ Mine(p, "starting") \notin files
    /\ listening' = listening \ {Id(p)}
    /\ Goes(p, "withdrawn")
    /\ UNCHANGED <<lock, attempt, serial, look, doomed, held, abstract, outcome, files, alone>>

(* Mutant: one try too many.                                                   *)
RetryOnceMore(p) ==
    /\ pc[p] = "withdrawn"
    /\ attempt[p] <= Retries
    /\ attempt' = [attempt EXCEPT ![p] = @ + 1]
    /\ serial' = [serial EXCEPT ![p] = @ + 1]
    /\ Goes(p, "first")
    /\ UNCHANGED <<lock, look, doomed, held, abstract, outcome, files, listening, alone>>

(* Once its name has gone nobody can reach the socket, so removing the one and *)
(* closing the other is one step.                                              *)
Withdraw(p) ==
    /\ pc[p] = "withdraw"
    /\ files' = files \ {Mine(p, "published")}
    /\ listening' = listening \ {Id(p)}
    /\ look' = [look EXCEPT ![p] = {}]
    /\ Goes(p, "withdrawn")
    /\ UNCHANGED <<lock, attempt, serial, doomed, held, abstract, outcome, alone>>

Retry(p) ==
    /\ pc[p] = "withdrawn"
    /\ attempt[p] < Retries
    /\ attempt' = [attempt EXCEPT ![p] = @ + 1]
    /\ serial' = [serial EXCEPT ![p] = @ + 1]
    /\ Goes(p, "first")
    /\ UNCHANGED <<lock, look, doomed, held, abstract, outcome, files, listening, alone>>

GiveUp(p) ==
    /\ pc[p] = "withdrawn"
    /\ attempt[p] >= Retries
    /\ Fails(p, "gave up")
    /\ UNCHANGED <<lock, attempt, serial, look, doomed, held, abstract, files, listening, alone>>

(* The second look found nobody: the lock is taken, and the next one's turn    *)
(* comes, or the process has what it needs.                                    *)
Take(p) ==
    /\ pc[p] = "asking again" /\ LookEnds(p)
    /\ held' = [held EXCEPT ![p] = @ \cup {Mine(p, "published")}]
    /\ IF lock[p] < Len(needs[p])
       THEN lock' = [lock EXCEPT ![p] = @ + 1] /\ Goes(p, "abstract")
       ELSE UNCHANGED lock /\ Goes(p, "holding")
    /\ UNCHANGED <<attempt, serial, look, doomed, abstract, outcome, files, listening, alone>>

(* A call fails for another reason: what was published is removed, what was    *)
(* bound is closed, which removes the name it was bound to.                    *)
CallFails(p) ==
    /\ p \in Failing
    /\ pc[p] \in FirstLook \cup SecondLook \cup {"bind", "rename"}
    /\ files' = files \ {Mine(p, "starting"), Mine(p, "published")}
    /\ listening' = listening \ {Id(p)}
    /\ look' = [look EXCEPT ![p] = {}]
    /\ doomed' = [doomed EXCEPT ![p] = {}]
    /\ Fails(p, "failed")
    /\ UNCHANGED <<lock, attempt, serial, held, abstract, alone>>

-----------------------------------------------------------------------------
(* Releasing, in the reverse order, after a stop or a start that failed.       *)

Stop(p) ==
    /\ pc[p] = "holding"
    /\ Goes(p, "unwinding")
    /\ UNCHANGED <<lock, attempt, serial, look, doomed, held, abstract, outcome, files,
                   listening, alone>>

HeldHere(p) == {n \in held[p] : n.dir = Dir(p)}

(* The socket file of the last lock goes first,                                *)
ReleaseFile(p) == \E n \in held[p] :
    /\ pc[p] = "unwinding" /\ lock[p] > 0
    /\ n.dir = Dir(p)
    /\ files' = files \ {n}
    /\ listening' = listening \ {n.id}
    /\ held' = [held EXCEPT ![p] = @ \ {n}]
    /\ UNCHANGED <<pc, lock, attempt, serial, look, doomed, abstract, outcome, alone>>

(* Mutant: only the last lock is released.                                     *)
ReleaseLastLock(p) ==
    /\ pc[p] = "unwinding" /\ lock[p] > 0
    /\ HeldHere(p) = {}
    /\ abstract' = [abstract EXCEPT ![p] = @ \ {Dir(p)}]
    /\ lock' = [lock EXCEPT ![p] = 0]
    /\ UNCHANGED <<pc, attempt, serial, look, doomed, held, outcome, files, listening, alone>>

(* then its abstract socket, if it got that far, and then the lock before it.  *)
ReleaseAbstract(p) ==
    /\ pc[p] = "unwinding" /\ lock[p] > 0
    /\ HeldHere(p) = {}
    /\ abstract' = [abstract EXCEPT ![p] = @ \ {Dir(p)}]
    /\ lock' = [lock EXCEPT ![p] = @ - 1]
    /\ UNCHANGED <<pc, attempt, serial, look, doomed, held, outcome, files, listening, alone>>

Ended(p) ==
    /\ pc[p] = "unwinding" /\ lock[p] = 0
    /\ Goes(p, "done")
    /\ UNCHANGED <<lock, attempt, serial, look, doomed, held, abstract, outcome, files,
                   listening, alone>>

(* A killed process leaves its names; the kernel closes its sockets.           *)
Crash(p) ==
    /\ p \in Crashing
    /\ pc[p] \in Running
    /\ Goes(p, "killed")
    /\ listening' = {i \in listening : i[1] # p}
    /\ abstract' = [abstract EXCEPT ![p] = {}]
    /\ held' = [held EXCEPT ![p] = {}]
    /\ look' = [look EXCEPT ![p] = {}]
    /\ doomed' = [doomed EXCEPT ![p] = {}]
    /\ UNCHANGED <<lock, attempt, serial, outcome, files, alone>>

-----------------------------------------------------------------------------
Steps(p) ==
    \/ BindAbstract(p) \/ AddressInUse(p)
    \/ List(p) \/ AskDead(p) \/ AskStarter(p) \/ AskHolder(p) \/ Remove(p) \/ NobodyThere(p)
    \/ Bind(p) \/ Listen(p) \/ Publish(p) \/ NameGone(p)
    \/ Withdraw(p) \/ Retry(p) \/ GiveUp(p) \/ Take(p)
    \/ ReleaseFile(p) \/ ReleaseAbstract(p) \/ Ended(p)

Next == \E p \in Procs : Start(p) \/ Steps(p) \/ CallFails(p) \/ Stop(p) \/ Crash(p)

Spec == Init /\ [][Next]_vars

(* A process that is not killed goes on: its calls return, and a holder that   *)
(* does not answer is taken for one that does after ANSWER_TIMEOUT_MS.         *)
Fairness == \A p \in Procs : WF_vars(Steps(p))
FairSpec == Spec /\ Fairness

-----------------------------------------------------------------------------
(* One process at a time has a directory's lock, whatever their namespaces and *)
(* whatever was killed or left behind: "Two starters racing can at worst both  *)
(* withdraw, never both hold".                                                 *)
OneHolder == \A p, q \in Procs : \A m \in held[p], n \in held[q] :
    m.dir = n.dir => p = q

(* Whoever looks finds the holder: its name stays in the directory and answers *)
(* until it releases it, though every other start removes names that refuse.   *)
HolderIsFound == \A p \in Procs : \A n \in held[p] : Answers(n)

(* A start that failed, or a process that stopped, has left no lock, no name   *)
(* and no socket.                                                              *)
NothingLeft == \A p \in Procs : pc[p] = "done" =>
    /\ held[p] = {} /\ abstract[p] = {}
    /\ \A n \in files : n.id[1] # p
    /\ \A i \in listening : i[1] # p

(* A process that starts with no other about gets its locks, whatever those    *)
(* killed before it left in the directories: a stale lock stops nobody (unless *)
(* a system call of its own fails).                                            *)
LoneStarterHolds == \A p \in Procs :
    (pc[p] \in Taking /\ alone[p])
        ~> (pc[p] \in {"holding", "killed"} \/ outcome[p] = "failed" \/ ~alone[p])
-----------------------------------------------------------------------------
(* Why there is one holder: the parts of the inductive invariant.              *)

Unpublished == FirstLook \cup {"bind", "listen", "rename"}

(* No name or socket carries an identifier that is still to be drawn, and a    *)
(* process's last one is published only by its rename.                         *)
IdsDrawn ==
    /\ \A p \in Procs : \A n \in look[p] \cup doomed[p] \cup held[p] :
          n.id[2] <= serial[n.id[1]]
    /\ \A n \in files : n.id[2] <= serial[n.id[1]]
    /\ \A i \in listening : i[2] <= serial[i[1]]

LastIdUnpublished == \A p \in Procs : pc[p] \in Unpublished =>
    /\ \A n \in files : n.id = Id(p) => n.kind # "published"
    /\ \A q \in Procs : \A n \in look[q] \cup doomed[q] \cup held[q] :
          n.id = Id(p) => n.kind # "published"

(* What is about to be removed under a published name will not answer again.   *)
DoomedDead == \A p \in Procs : \A n \in doomed[p] : n.kind = "published" => ~Answers(n)

(* A held name is its holder's own, from an earlier identifier than the one it *)
(* is working with.                                                            *)
HeldIsOwn == \A p \in Procs :
    /\ \A n \in held[p] : n.kind = "published" /\ n.id[1] = p
    /\ \A m, n \in held[p] : m.id = n.id => m = n
    /\ pc[p] \in Published \cup {"withdrawn"} => \A n \in held[p] : n.id # Id(p)

(* What a process holds, or has published and may come to hold, answers, and   *)
(* whoever is about to publish listens.                                        *)
Claims(p) == held[p] \cup (IF pc[p] \in Published THEN {Mine(p, "published")} ELSE {})
ClaimsAnswer == \A p \in Procs :
    /\ \A n \in Claims(p) : Answers(n)
    /\ pc[p] = "rename" => Id(p) \in listening

(* Of two claims on a directory, one is still to find the other.               *)
Sees(p, m, n) ==
    /\ pc[p] \in Published /\ m = Mine(p, "published")
    /\ pc[p] = "asking again" => n \in look[p]
OneSees == \A p, q \in Procs : \A m \in Claims(p), n \in Claims(q) :
    (p # q /\ m.dir = n.dir) => Sees(p, m, n) \/ Sees(q, n, m)

Inductive ==
    /\ TypeOK /\ IdsDrawn /\ LastIdUnpublished /\ DoomedDead
    /\ HeldIsOwn /\ ClaimsAnswer /\ OneSees
=============================================================================
