------------------------- MODULE CoreGatewayProofs -------------------------
(***************************************************************************)
(* Proofs about CoreGateway: for any number of threads, calls and faults,  *)
(* a caller is told what Core decided on its call, or on the handshake     *)
(* before it, and the process that serves requests is the only one,        *)
(* greeted and isolated as reported.                                       *)
(***************************************************************************)
EXTENDS CoreGateway, TLAPS

-----------------------------------------------------------------------------
(* The inductive invariant.                                                 *)

\* Where a thread is while it holds the lock.
Held == {"start", "greet", "greeting", "send", "read", "stop", "stopping"}

HolderWorks == lock # Nobody => pc[lock] \in Held

\* Calls have numbers of their own, and no outcome before they end.
CallsApart ==
    /\ \A c \in Clients : call[c] <= calls
    /\ \A c \in Clients : pc[c] # "idle" => call[c] # 0 /\ outcome[c] = "none"
    /\ \A c, d \in Clients : c # d /\ call[c] = call[d] => call[c] = 0

\* The thread that waits for an answer, and the call it has asked for.
Waiting == lock # Nobody /\ pc[lock] \in {"greeting", "read", "stopping"} /\ proc # 0
Asked == IF pc[lock] = "read" THEN call[lock] ELSE 0

\* The pipes hold nothing but the one request or the one answer of the thread
\* that waits: nobody gives the lock back without emptying or ending them.
InRequest == outbox = <<>> /\ \E f \in Frames : inbox = <<f>> /\ f.call = Asked
InAnswer ==
    /\ inbox = <<>>
    /\ \E f \in Frames :
        /\ outbox = <<f>> /\ f.call = Asked
        /\ f.call # 0 /\ f.body # "garbage" => verdict[f.call] = f.body
PipesMatch ==
    \/ inbox = <<>> /\ outbox = <<>>
    \/ Waiting /\ (InRequest \/ InAnswer)

\* The process is past its handshake, unless a thread is just at it.
GreetedFirst ==
    proc # 0 => \/ lock # Nobody /\ pc[lock] \in {"greet", "greeting"}
                \/ greeted = proc /\ trait # "other_protocol"

OneUp == up \subseteq {proc} /\ 0 \notin up

\* Only close, and require_capabilities that refuses, end Core on purpose.
OpsFit ==
    \A c \in Clients :
        /\ pc[c] \in {"judge", "refuse"} => op[c] = "require"
        /\ pc[c] \in {"stop", "stopping"} => op[c] \in {"close", "require"}

GatewayInv ==
    /\ TypeOK
    /\ HolderWorks
    /\ CallsApart
    /\ PipesMatch
    /\ GreetedFirst
    /\ OneUp
    /\ Isolated
    /\ VerdictIsCores
    /\ OpsFit

-----------------------------------------------------------------------------
(* Sequences of one element                                                 *)

LEMMA Single ==
    ASSUME NEW f
    PROVE  /\ Append(<<>>, f) = <<f>> /\ <<f>> # <<>>
           /\ Head(<<f>>) = f /\ Tail(<<f>>) = <<>>
           /\ Len(<<f>>) = 1 /\ <<f>>[1] = f /\ Len(<<>>) = 0
OBVIOUS

LEMMA OneFrame ==
    ASSUME NEW f \in Frames
    PROVE  <<f>> \in Seq(Frames) /\ <<>> \in Seq(Frames)
OBVIOUS

\* What a launch establishes is a set of guarantees.
LEMMA MeasuredType ==
    ASSUME NEW host \in Hosts
    PROVE  Measured(host) \in SUBSET Guarantees
BY GatewayAssumption DEF Measured, Established, Guarantees

LEMMA InitGateway == Init => GatewayInv
<1> SUFFICES ASSUME Init
             PROVE  GatewayInv
  OBVIOUS
<1> USE GatewayAssumption DEF Init
<1>1. TypeOK
  BY DEF TypeOK, Methods, Clients, Verdicts
<1>2. HolderWorks /\ CallsApart /\ PipesMatch /\ GreetedFirst /\ OneUp /\ OpsFit
  BY DEF HolderWorks, CallsApart, PipesMatch, GreetedFirst, OneUp, OpsFit
<1>3. Isolated /\ VerdictIsCores
  BY DEF Isolated, Running, VerdictIsCores
<1> QED
  BY <1>1, <1>2, <1>3 DEF GatewayInv

-----------------------------------------------------------------------------
(* Steps of threads that do not hold the lock                               *)

LEMMA AskStep ==
    ASSUME GatewayInv, NEW c \in Clients, NEW m \in Methods, Ask(c, m)
    PROVE  GatewayInv'
<1> USE GatewayAssumption DEF GatewayInv, Ask, Goto, threads, process, pipes, hello, decided
<1>1. TypeOK'
  BY DEF TypeOK
<1>2. HolderWorks'
  BY DEF TypeOK, HolderWorks, Held
<1>3. CallsApart'
  BY DEF TypeOK, CallsApart
<1>4. PipesMatch'
  BY DEF TypeOK, HolderWorks, Held, PipesMatch, Waiting, InRequest, InAnswer, Asked
<1>5. GreetedFirst'
  BY DEF TypeOK, HolderWorks, Held, GreetedFirst
<1>6. OneUp'
  BY DEF TypeOK, OneUp
<1>7. Isolated'
  BY DEF TypeOK, Isolated, Running, OneUp
<1>8. VerdictIsCores'
  BY DEF TypeOK, VerdictIsCores, CallsApart
<1>9. OpsFit'
  BY DEF TypeOK, OpsFit
<1> QED
  BY <1>1, <1>2, <1>3, <1>4, <1>5, <1>6, <1>7, <1>8, <1>9

LEMMA InvalidStep ==
    ASSUME GatewayInv, NEW c \in Clients, Invalid(c)
    PROVE  GatewayInv'
<1> USE GatewayAssumption DEF GatewayInv, Invalid, Goto, Fault, threads, process,
                              pipes, hello, decided
<1>1. TypeOK'
  BY DEF TypeOK
<1>2. HolderWorks'
  BY DEF TypeOK, HolderWorks, Held
<1>3. CallsApart'
  BY DEF TypeOK, CallsApart
<1>4. PipesMatch'
  BY DEF TypeOK, HolderWorks, Held, PipesMatch, Waiting, InRequest, InAnswer, Asked
<1>5. GreetedFirst'
  BY DEF TypeOK, HolderWorks, Held, GreetedFirst
<1>6. OneUp'
  BY DEF TypeOK, OneUp
<1>7. Isolated'
  BY DEF TypeOK, Isolated, Running, OneUp
<1>8. VerdictIsCores'
  BY DEF TypeOK, VerdictIsCores, CallsApart
<1>9. OpsFit'
  BY DEF TypeOK, OpsFit
<1> QED
  BY <1>1, <1>2, <1>3, <1>4, <1>5, <1>6, <1>7, <1>8, <1>9

LEMMA BusyStep ==
    ASSUME GatewayInv, NEW c \in Clients, Busy(c)
    PROVE  GatewayInv'
<1> USE GatewayAssumption DEF GatewayInv, Busy, Goto, threads, process, pipes, hello, decided
<1>1. TypeOK'
  BY DEF TypeOK
<1>2. HolderWorks'
  BY DEF TypeOK, HolderWorks, Held
<1>3. CallsApart'
  BY DEF TypeOK, CallsApart
<1>4. PipesMatch'
  BY DEF TypeOK, HolderWorks, Held, PipesMatch, Waiting, InRequest, InAnswer, Asked
<1>5. GreetedFirst'
  BY DEF TypeOK, HolderWorks, Held, GreetedFirst
<1>6. OneUp'
  BY DEF TypeOK, OneUp
<1>7. Isolated'
  BY DEF TypeOK, Isolated, Running, OneUp
<1>8. VerdictIsCores'
  BY DEF TypeOK, VerdictIsCores, CallsApart
<1>9. OpsFit'
  BY DEF TypeOK, OpsFit
<1> QED
  BY <1>1, <1>2, <1>3, <1>4, <1>5, <1>6, <1>7, <1>8, <1>9

LEMMA JudgeStep ==
    ASSUME GatewayInv, NEW c \in Clients, Judge(c)
    PROVE  GatewayInv'
<1> USE GatewayAssumption DEF GatewayInv, Judge, Goto, threads, process, pipes, hello, decided
<1>1. TypeOK'
  BY DEF TypeOK
<1>2. HolderWorks'
  BY DEF TypeOK, HolderWorks, Held
<1>3. CallsApart'
  BY DEF TypeOK, CallsApart
<1>4. PipesMatch'
  BY DEF TypeOK, HolderWorks, Held, PipesMatch, Waiting, InRequest, InAnswer, Asked
<1>5. GreetedFirst'
  BY DEF TypeOK, HolderWorks, Held, GreetedFirst
<1>6. OneUp'
  BY DEF TypeOK, OneUp
<1>7. Isolated'
  BY DEF TypeOK, Isolated, Running, OneUp
<1>8. VerdictIsCores'
  BY DEF TypeOK, VerdictIsCores, CallsApart, OpsFit, AllOperations
<1>9. OpsFit'
  BY DEF TypeOK, OpsFit
<1> QED
  BY <1>1, <1>2, <1>3, <1>4, <1>5, <1>6, <1>7, <1>8, <1>9

LEMMA LockStep ==
    ASSUME GatewayInv, NEW c \in Clients, Lock(c)
    PROVE  GatewayInv'
<1> USE GatewayAssumption DEF GatewayInv, Lock, Goto, threads, process, pipes, hello, decided
<1>1. TypeOK'
  BY DEF TypeOK
<1>2. HolderWorks'
  BY DEF TypeOK, HolderWorks, Held
<1>3. CallsApart'
  BY DEF TypeOK, CallsApart
<1>4. PipesMatch'
  BY DEF TypeOK, HolderWorks, Held, PipesMatch, Waiting, InRequest, InAnswer, Asked
<1>5. GreetedFirst'
  BY DEF TypeOK, HolderWorks, Held, GreetedFirst
<1>6. OneUp'
  BY DEF TypeOK, OneUp
<1>7. Isolated'
  BY DEF TypeOK, Isolated, Running, OneUp
<1>8. VerdictIsCores'
  BY DEF TypeOK, VerdictIsCores, CallsApart
<1>9. OpsFit'
  BY DEF TypeOK, OpsFit
<1> QED
  BY <1>1, <1>2, <1>3, <1>4, <1>5, <1>6, <1>7, <1>8, <1>9

LEMMA FailClosedStep ==
    ASSUME GatewayInv, NEW c \in Clients, FailClosed(c)
    PROVE  GatewayInv'
<1> USE GatewayAssumption DEF GatewayInv, FailClosed, Goto, threads, process, pipes,
                              hello, decided
<1>1. TypeOK'
  BY DEF TypeOK
<1>2. HolderWorks'
  BY DEF TypeOK, HolderWorks, Held
<1>3. CallsApart'
  BY DEF TypeOK, CallsApart
<1>4. PipesMatch'
  BY DEF TypeOK, HolderWorks, Held, PipesMatch, Waiting, InRequest, InAnswer, Asked
<1>5. GreetedFirst'
  BY DEF TypeOK, HolderWorks, Held, GreetedFirst
<1>6. OneUp'
  BY DEF TypeOK, OneUp
<1>7. Isolated'
  BY DEF TypeOK, Isolated, Running, OneUp
<1>8. VerdictIsCores'
  BY DEF TypeOK, VerdictIsCores, CallsApart
<1>9. OpsFit'
  BY DEF TypeOK, OpsFit
<1> QED
  BY <1>1, <1>2, <1>3, <1>4, <1>5, <1>6, <1>7, <1>8, <1>9

-----------------------------------------------------------------------------
(* Steps that start Core                                                    *)

LEMMA StartRunningStep ==
    ASSUME GatewayInv, NEW c \in Clients, StartRunning(c)
    PROVE  GatewayInv'
<1> USE GatewayAssumption DEF GatewayInv, StartRunning, Started, At, Goto, threads,
                              process, pipes, hello, decided
<1>1. TypeOK'
  BY DEF TypeOK
<1>2. HolderWorks'
  BY DEF TypeOK, HolderWorks, Held
<1>3. CallsApart'
  BY DEF TypeOK, CallsApart
<1>4. PipesMatch'
  BY DEF TypeOK, HolderWorks, Held, PipesMatch, Waiting, InRequest, InAnswer, Asked
<1>5. GreetedFirst'
  BY DEF TypeOK, HolderWorks, Held, GreetedFirst
<1>6. OneUp'
  BY DEF TypeOK, OneUp
<1>7. Isolated'
  BY DEF TypeOK, Isolated, Running, OneUp
<1>8. VerdictIsCores'
  BY DEF TypeOK, VerdictIsCores, CallsApart
<1>9. OpsFit'
  BY DEF TypeOK, OpsFit
<1> QED
  BY <1>1, <1>2, <1>3, <1>4, <1>5, <1>6, <1>7, <1>8, <1>9

LEMMA SpawnRefusedStep ==
    ASSUME GatewayInv, NEW c \in Clients, SpawnRefused(c)
    PROVE  GatewayInv'
<1> USE GatewayAssumption DEF GatewayInv, SpawnRefused, Return, At, Goto, threads,
                              process, pipes, hello, decided
<1>1. TypeOK'
  BY DEF TypeOK
<1>2. HolderWorks'
  BY DEF TypeOK, HolderWorks, Held
<1>3. CallsApart'
  BY DEF TypeOK, CallsApart
<1>4. PipesMatch'
  BY DEF TypeOK, HolderWorks, Held, PipesMatch, Waiting, InRequest, InAnswer, Asked
<1>5. GreetedFirst'
  BY DEF TypeOK, HolderWorks, Held, GreetedFirst
<1>6. OneUp'
  BY DEF TypeOK, OneUp
<1>7. Isolated'
  BY DEF TypeOK, Isolated, Running, OneUp
<1>8. VerdictIsCores'
  BY DEF TypeOK, VerdictIsCores, CallsApart
<1>9. OpsFit'
  BY DEF TypeOK, OpsFit
<1> QED
  BY <1>1, <1>2, <1>3, <1>4, <1>5, <1>6, <1>7, <1>8, <1>9

LEMMA SpawnFailsStep ==
    ASSUME GatewayInv, NEW c \in Clients, SpawnFails(c)
    PROVE  GatewayInv'
<1> USE GatewayAssumption DEF GatewayInv, SpawnFails, Return, Fault, At, Goto,
                              threads, process, pipes, hello, decided
<1>1. TypeOK'
  BY MeasuredType DEF TypeOK
<1>2. HolderWorks'
  BY DEF TypeOK, HolderWorks, Held
<1>3. CallsApart'
  BY DEF TypeOK, CallsApart
<1>4. PipesMatch'
  BY DEF TypeOK, HolderWorks, Held, PipesMatch, Waiting, InRequest, InAnswer, Asked
<1>5. GreetedFirst'
  BY DEF TypeOK, HolderWorks, Held, GreetedFirst
<1>6. OneUp'
  BY DEF TypeOK, OneUp
<1>7. Isolated'
  BY DEF TypeOK, Isolated, Running, OneUp
<1>8. VerdictIsCores'
  BY DEF TypeOK, VerdictIsCores, CallsApart
<1>9. OpsFit'
  BY DEF TypeOK, OpsFit
<1> QED
  BY <1>1, <1>2, <1>3, <1>4, <1>5, <1>6, <1>7, <1>8, <1>9

LEMMA SpawnStep ==
    ASSUME GatewayInv, NEW c \in Clients, Spawn(c)
    PROVE  GatewayInv'
<1> USE GatewayAssumption DEF GatewayInv, Spawn, Launch, At, Goto, Running, threads,
                              process, pipes, hello, decided
<1>1. TypeOK'
  BY MeasuredType DEF TypeOK
<1>2. HolderWorks'
  BY DEF TypeOK, HolderWorks, Held
<1>3. CallsApart'
  BY DEF TypeOK, CallsApart
<1>4. PipesMatch'
  BY DEF TypeOK, HolderWorks, Held, PipesMatch, Waiting, InRequest, InAnswer, Asked
<1>5. GreetedFirst'
  BY DEF TypeOK, HolderWorks, Held, GreetedFirst
<1>6. OneUp'
  BY DEF TypeOK, OneUp
<1>7. Isolated'
  BY DEF TypeOK, Isolated, Running, OneUp
<1>8. VerdictIsCores'
  BY DEF TypeOK, VerdictIsCores, CallsApart
<1>9. OpsFit'
  BY DEF TypeOK, OpsFit
<1> QED
  BY <1>1, <1>2, <1>3, <1>4, <1>5, <1>6, <1>7, <1>8, <1>9

-----------------------------------------------------------------------------
(* Steps that write and read                                                *)

LEMMA SendHandshakeStep ==
    ASSUME GatewayInv, NEW c \in Clients, SendHandshake(c)
    PROVE  GatewayInv'
<1> USE GatewayAssumption DEF GatewayInv, SendHandshake, Write, Running, At, Goto,
                              threads, process, pipes, hello, decided
<1>1. TypeOK'
  BY OneFrame DEF TypeOK, Frames, Verdicts, Clients
<1>2. HolderWorks'
  BY DEF TypeOK, HolderWorks, Held
<1>3. CallsApart'
  BY DEF TypeOK, CallsApart
<1>4. PipesMatch'
  BY Single DEF TypeOK, HolderWorks, Held, PipesMatch, Waiting, InRequest, InAnswer,
                Asked, Frames, Verdicts, Clients, OneUp, CallsApart
<1>5. GreetedFirst'
  BY DEF TypeOK, HolderWorks, Held, GreetedFirst
<1>6. OneUp'
  BY DEF TypeOK, OneUp
<1>7. Isolated'
  BY DEF TypeOK, Isolated, Running, OneUp
<1>8. VerdictIsCores'
  BY DEF TypeOK, VerdictIsCores, CallsApart
<1>9. OpsFit'
  BY DEF TypeOK, OpsFit
<1> QED
  BY <1>1, <1>2, <1>3, <1>4, <1>5, <1>6, <1>7, <1>8, <1>9

LEMMA SendRequestStep ==
    ASSUME GatewayInv, NEW c \in Clients, SendRequest(c)
    PROVE  GatewayInv'
<1> USE GatewayAssumption DEF GatewayInv, SendRequest, Write, Running, At, Goto,
                              threads, process, pipes, hello, decided
<1>1. TypeOK'
  BY OneFrame DEF TypeOK, Frames, Verdicts, Clients
<1>2. HolderWorks'
  BY DEF TypeOK, HolderWorks, Held
<1>3. CallsApart'
  BY DEF TypeOK, CallsApart
<1>4. PipesMatch'
  BY Single DEF TypeOK, HolderWorks, Held, PipesMatch, Waiting, InRequest, InAnswer,
                Asked, Frames, Verdicts, Clients, OneUp, CallsApart
<1>5. GreetedFirst'
  BY DEF TypeOK, HolderWorks, Held, GreetedFirst
<1>6. OneUp'
  BY DEF TypeOK, OneUp
<1>7. Isolated'
  BY DEF TypeOK, Isolated, Running, OneUp
<1>8. VerdictIsCores'
  BY DEF TypeOK, VerdictIsCores, CallsApart
<1>9. OpsFit'
  BY DEF TypeOK, OpsFit
<1> QED
  BY <1>1, <1>2, <1>3, <1>4, <1>5, <1>6, <1>7, <1>8, <1>9

LEMMA SendShutdownStep ==
    ASSUME GatewayInv, NEW c \in Clients, SendShutdown(c)
    PROVE  GatewayInv'
<1> USE GatewayAssumption DEF GatewayInv, SendShutdown, Write, Running, At, Goto,
                              threads, process, pipes, hello, decided
<1>1. TypeOK'
  BY OneFrame DEF TypeOK, Frames, Verdicts, Clients
<1>2. HolderWorks'
  BY DEF TypeOK, HolderWorks, Held
<1>3. CallsApart'
  BY DEF TypeOK, CallsApart
<1>4. PipesMatch'
  BY Single DEF TypeOK, HolderWorks, Held, PipesMatch, Waiting, InRequest, InAnswer,
                Asked, Frames, Verdicts, Clients, OneUp, CallsApart
<1>5. GreetedFirst'
  BY DEF TypeOK, HolderWorks, Held, GreetedFirst
<1>6. OneUp'
  BY DEF TypeOK, OneUp
<1>7. Isolated'
  BY DEF TypeOK, Isolated, Running, OneUp
<1>8. VerdictIsCores'
  BY DEF TypeOK, VerdictIsCores, CallsApart
<1>9. OpsFit'
  BY DEF TypeOK, OpsFit
<1> QED
  BY <1>1, <1>2, <1>3, <1>4, <1>5, <1>6, <1>7, <1>8, <1>9

LEMMA GiveUpStep ==
    ASSUME GatewayInv, NEW c \in Clients, lock = c, GiveUp(c), faults' \in 0..MaxFaults
    PROVE  GatewayInv'
<1> USE GatewayAssumption DEF GatewayInv, GiveUp, Terminate, Return, At, Goto,
                              threads, process, pipes, hello, decided
<1>1. TypeOK'
  BY DEF TypeOK
<1>2. HolderWorks'
  BY DEF TypeOK, HolderWorks, Held
<1>3. CallsApart'
  BY DEF TypeOK, CallsApart
<1>4. PipesMatch'
  BY DEF TypeOK, HolderWorks, Held, PipesMatch, Waiting, InRequest, InAnswer, Asked
<1>5. GreetedFirst'
  BY DEF TypeOK, HolderWorks, Held, GreetedFirst
<1>6. OneUp'
  BY DEF TypeOK, OneUp
<1>7. Isolated'
  BY DEF TypeOK, Isolated, Running, OneUp
<1>8. VerdictIsCores'
  BY DEF TypeOK, VerdictIsCores, CallsApart
<1>9. OpsFit'
  BY DEF TypeOK, OpsFit
<1> QED
  BY <1>1, <1>2, <1>3, <1>4, <1>5, <1>6, <1>7, <1>8, <1>9

LEMMA StoppedStep ==
    ASSUME GatewayInv, NEW c \in Clients, Stopped(c)
    PROVE  GatewayInv'
<1> USE GatewayAssumption DEF GatewayInv, Stopped, Terminate, Return, At, Goto,
                              Fault, threads, process, pipes, hello, decided
<1>1. TypeOK'
  BY DEF TypeOK
<1>2. HolderWorks'
  BY DEF TypeOK, HolderWorks, Held
<1>3. CallsApart'
  BY DEF TypeOK, CallsApart
<1>4. PipesMatch'
  BY DEF TypeOK, HolderWorks, Held, PipesMatch, Waiting, InRequest, InAnswer, Asked
<1>5. GreetedFirst'
  BY DEF TypeOK, HolderWorks, Held, GreetedFirst
<1>6. OneUp'
  BY DEF TypeOK, OneUp
<1>7. Isolated'
  BY DEF TypeOK, Isolated, Running, OneUp
<1>8. VerdictIsCores'
  BY DEF TypeOK, VerdictIsCores, CallsApart, OpsFit, AllOperations
<1>9. OpsFit'
  BY DEF TypeOK, OpsFit
<1> QED
  BY <1>1, <1>2, <1>3, <1>4, <1>5, <1>6, <1>7, <1>8, <1>9

LEMMA ReadHandshakeStep ==
    ASSUME GatewayInv, NEW c \in Clients, ReadHandshake(c)
    PROVE  GatewayInv'
<1> USE GatewayAssumption DEF GatewayInv, ReadHandshake, Started, At, Goto, threads,
                              process, pipes, hello, decided
<1>0. inbox = <<>> /\ outbox' = <<>>
  BY Single DEF PipesMatch, InRequest, InAnswer
<1>1. TypeOK'
  BY <1>0 DEF TypeOK
<1>2. HolderWorks'
  BY DEF TypeOK, HolderWorks, Held
<1>3. CallsApart'
  BY DEF TypeOK, CallsApart
<1>4. PipesMatch'
  BY <1>0 DEF TypeOK, HolderWorks, Held, PipesMatch, Waiting, InRequest, InAnswer, Asked
<1>5. GreetedFirst'
  BY DEF TypeOK, HolderWorks, Held, GreetedFirst
<1>6. OneUp'
  BY DEF TypeOK, OneUp
<1>7. Isolated'
  BY DEF TypeOK, Isolated, Running, OneUp
<1>8. VerdictIsCores'
  BY DEF TypeOK, VerdictIsCores, CallsApart
<1>9. OpsFit'
  BY DEF TypeOK, OpsFit
<1> QED
  BY <1>1, <1>2, <1>3, <1>4, <1>5, <1>6, <1>7, <1>8, <1>9

LEMMA HandshakeRefusedStep ==
    ASSUME GatewayInv, NEW c \in Clients, HandshakeRefused(c)
    PROVE  GatewayInv'
<1> USE GatewayAssumption DEF GatewayInv, HandshakeRefused, Terminate, Return, At, Goto,
                              threads, process, pipes, hello, decided
<1>0. call[c] # 0 /\ call[c] \in 0..MaxCalls
  BY DEF TypeOK, CallsApart
<1>a. \E how \in {"rejected", "transient"} : Return(c, how)
  OBVIOUS
<1>b. refused' = refused \/ refused' = refused \cup {call[c]}
  OBVIOUS
<1>c. call[c] \in 1..MaxCalls /\ refused \in SUBSET (1..MaxCalls)
  BY <1>0 DEF TypeOK
<1>d. refused' \in SUBSET (1..MaxCalls)
  BY ONLY <1>b, <1>c
<1>1. TypeOK'
  BY <1>a, <1>d, OneFrame DEF TypeOK
<1>2. HolderWorks'
  BY DEF TypeOK, HolderWorks, Held
<1>3. CallsApart'
  BY DEF TypeOK, CallsApart
<1>4. PipesMatch'
  BY DEF TypeOK, HolderWorks, Held, PipesMatch, Waiting, InRequest, InAnswer, Asked
<1>5. GreetedFirst'
  BY DEF TypeOK, HolderWorks, Held, GreetedFirst
<1>6. OneUp'
  BY DEF TypeOK, OneUp
<1>7. Isolated'
  BY DEF TypeOK, Isolated, Running, OneUp
<1>8. VerdictIsCores'
  BY DEF TypeOK, VerdictIsCores, CallsApart
<1>9. OpsFit'
  BY DEF TypeOK, OpsFit
<1> QED
  BY <1>1, <1>2, <1>3, <1>4, <1>5, <1>6, <1>7, <1>8, <1>9

LEMMA ReadAnswerStep ==
    ASSUME GatewayInv, NEW c \in Clients, ReadAnswer(c)
    PROVE  GatewayInv'
<1> USE GatewayAssumption DEF GatewayInv, ReadAnswer, Return, At, Goto, threads,
                              process, pipes, hello, decided
<1>0. inbox = <<>> /\ outbox' = <<>>
  BY Single DEF PipesMatch, InRequest, InAnswer
<1>1. TypeOK'
  BY <1>0 DEF TypeOK, Outcome
<1>2. HolderWorks'
  BY DEF TypeOK, HolderWorks, Held
<1>3. CallsApart'
  BY DEF TypeOK, CallsApart
<1>4. PipesMatch'
  BY <1>0 DEF TypeOK, HolderWorks, Held, PipesMatch, Waiting, InRequest, InAnswer, Asked
<1>5. GreetedFirst'
  BY DEF TypeOK, HolderWorks, Held, GreetedFirst
<1>6. OneUp'
  BY DEF TypeOK, OneUp
<1>7. Isolated'
  BY DEF TypeOK, Isolated, Running, OneUp
<1>8. VerdictIsCores'
  BY Single DEF TypeOK, VerdictIsCores, CallsApart, PipesMatch, Waiting, InRequest,
                InAnswer, Asked, Outcome, AllOperations
<1>9. OpsFit'
  BY DEF TypeOK, OpsFit
<1> QED
  BY <1>1, <1>2, <1>3, <1>4, <1>5, <1>6, <1>7, <1>8, <1>9

-----------------------------------------------------------------------------
(* Steps of Core                                                            *)

\* The request of the thread that waits becomes the answer; the verdict of no
\* other call changes.
LEMMA ServeStep ==
    ASSUME GatewayInv, NEW body \in Verdicts \cup {"garbage"}, NEW fault,
           Serve(body, fault)
    PROVE  GatewayInv'
<1> USE GatewayAssumption DEF GatewayInv, Serve, Either, Fault, Running, threads,
                              process, pipes, hello, decided
<1>0. PICK f \in Frames : /\ inbox = <<f>> /\ Head(inbox) = f /\ Tail(inbox) = <<>>
                          /\ outbox = <<>> /\ f.call = Asked /\ Waiting
  BY Single DEF PipesMatch, InRequest, InAnswer
<1> DEFINE g == [f EXCEPT !.body = body,
                          !.id = IF fault = "foreign" THEN "foreign" ELSE @]
<1>a. g \in Frames /\ g.call = f.call /\ g.body = body
  BY DEF Frames
<1>b. outbox' = <<g>> /\ inbox' = <<>>
  BY <1>0, Single
<1>c. f.call # 0 => lock \in Clients /\ pc[lock] = "read" /\ f.call = call[lock]
  BY <1>0 DEF Asked, Waiting, TypeOK
<1> HIDE DEF g
<1>1. TypeOK'
  BY <1>0, <1>a, <1>b, OneFrame DEF TypeOK, Frames, Verdicts
<1>2. HolderWorks'
  BY DEF TypeOK, HolderWorks, Held
<1>3. CallsApart'
  BY DEF TypeOK, CallsApart
<1>4. PipesMatch'
  BY <1>0, <1>a, <1>b, <1>c DEF TypeOK, HolderWorks, Held, PipesMatch, Waiting,
                                InRequest, InAnswer, Asked, CallsApart, Frames
<1>5. GreetedFirst'
  BY DEF TypeOK, HolderWorks, Held, GreetedFirst
<1>6. OneUp'
  BY DEF TypeOK, OneUp
<1>7. Isolated'
  BY DEF TypeOK, Isolated, Running, OneUp
<1>8. VerdictIsCores'
  <2> SUFFICES ASSUME NEW d \in Clients, outcome[d] # "none"
               PROVE  verdict'[call[d]] = verdict[call[d]]
    BY DEF VerdictIsCores, AllOperations
  <2>1. call[d] = f.call => f.call = 0
    <3> SUFFICES ASSUME f.call # 0, call[d] = f.call
                 PROVE  FALSE
      OBVIOUS
    <3>1. lock \in Clients /\ pc[lock] = "read" /\ call[lock] = f.call
      BY <1>c
    <3>2. d = lock
      BY <3>1 DEF CallsApart
    <3> QED
      BY <3>1, <3>2 DEF CallsApart
  <2>2. f.call \in 0..MaxCalls /\ call[d] \in 0..MaxCalls
    BY DEF Frames, TypeOK
  <2> QED
    BY <1>0, <2>1, <2>2 DEF TypeOK
<1>9. OpsFit'
  BY DEF TypeOK, OpsFit
<1> QED
  BY <1>1, <1>2, <1>3, <1>4, <1>5, <1>6, <1>7, <1>8, <1>9

LEMMA HangStep ==
    ASSUME GatewayInv, Hang
    PROVE  GatewayInv'
<1> USE GatewayAssumption DEF GatewayInv, Hang, Fault, threads, process, pipes, hello, decided
<1>1. TypeOK'
  BY DEF TypeOK
<1>2. HolderWorks'
  BY DEF TypeOK, HolderWorks, Held
<1>3. CallsApart'
  BY DEF TypeOK, CallsApart
<1>4. PipesMatch'
  BY DEF TypeOK, HolderWorks, Held, PipesMatch, Waiting, InRequest, InAnswer, Asked
<1>5. GreetedFirst'
  BY DEF TypeOK, HolderWorks, Held, GreetedFirst
<1>6. OneUp'
  BY DEF TypeOK, OneUp
<1>7. Isolated'
  BY DEF TypeOK, Isolated, Running, OneUp
<1>8. VerdictIsCores'
  BY DEF TypeOK, VerdictIsCores, CallsApart
<1>9. OpsFit'
  BY DEF TypeOK, OpsFit
<1> QED
  BY <1>1, <1>2, <1>3, <1>4, <1>5, <1>6, <1>7, <1>8, <1>9

LEMMA CrashStep ==
    ASSUME GatewayInv, Crash
    PROVE  GatewayInv'
<1> USE GatewayAssumption DEF GatewayInv, Crash, Fault, threads, process, pipes, hello, decided
<1>1. TypeOK'
  BY DEF TypeOK
<1>2. HolderWorks'
  BY DEF TypeOK, HolderWorks, Held
<1>3. CallsApart'
  BY DEF TypeOK, CallsApart
<1>4. PipesMatch'
  BY DEF TypeOK, HolderWorks, Held, PipesMatch, Waiting, InRequest, InAnswer, Asked
<1>5. GreetedFirst'
  BY DEF TypeOK, HolderWorks, Held, GreetedFirst
<1>6. OneUp'
  BY DEF TypeOK, OneUp
<1>7. Isolated'
  BY DEF TypeOK, Isolated, Running, OneUp
<1>8. VerdictIsCores'
  BY DEF TypeOK, VerdictIsCores, CallsApart
<1>9. OpsFit'
  BY DEF TypeOK, OpsFit
<1> QED
  BY <1>1, <1>2, <1>3, <1>4, <1>5, <1>6, <1>7, <1>8, <1>9

LEMMA StutterStep ==
    ASSUME GatewayInv, UNCHANGED vars
    PROVE  GatewayInv'
<1> USE GatewayAssumption DEF GatewayInv, vars, threads, process, pipes, hello, decided
<1>1. TypeOK'
  BY DEF TypeOK
<1>2. HolderWorks'
  BY DEF TypeOK, HolderWorks, Held
<1>3. CallsApart'
  BY DEF TypeOK, CallsApart
<1>4. PipesMatch'
  BY DEF TypeOK, HolderWorks, Held, PipesMatch, Waiting, InRequest, InAnswer, Asked
<1>5. GreetedFirst'
  BY DEF TypeOK, HolderWorks, Held, GreetedFirst
<1>6. OneUp'
  BY DEF TypeOK, OneUp
<1>7. Isolated'
  BY DEF TypeOK, Isolated, Running, OneUp
<1>8. VerdictIsCores'
  BY DEF TypeOK, VerdictIsCores, CallsApart
<1>9. OpsFit'
  BY DEF TypeOK, OpsFit
<1> QED
  BY <1>1, <1>2, <1>3, <1>4, <1>5, <1>6, <1>7, <1>8, <1>9

-----------------------------------------------------------------------------
(* The theorems                                                             *)

LEMMA NextStep ==
    ASSUME GatewayInv, [Next]_vars
    PROVE  GatewayInv'
<1>1. ASSUME NEW c \in Clients, SendFails(c) \/ ReadRefused(c) \/ Timeout(c) \/ EndOfFile(c)
      PROVE  GatewayInv'
  <2>1. lock = c /\ GiveUp(c)
    BY <1>1 DEF SendFails, ReadRefused, Timeout, EndOfFile, Reading, At
  <2>2. faults' \in 0..MaxFaults
    BY <1>1, GatewayAssumption DEF SendFails, ReadRefused, Timeout, EndOfFile, Fault,
                                   GatewayInv, TypeOK
  <2> QED
    BY <2>1, <2>2, GiveUpStep
<1>2. ASSUME NEW c \in Clients, Step(c)
      PROVE  GatewayInv'
  BY <1>1, <1>2, LockStep, BusyStep, StartRunningStep, SpawnRefusedStep, SpawnFailsStep,
     SpawnStep, SendHandshakeStep, SendRequestStep, ReadHandshakeStep, HandshakeRefusedStep,
     ReadAnswerStep,
     SendShutdownStep, StoppedStep, JudgeStep, FailClosedStep DEF Step
<1>3. CASE Answer \/ GarbledAnswer \/ ForeignAnswer \/ MalformedAnswer
  BY <1>3, ServeStep DEF Answer, GarbledAnswer, ForeignAnswer, MalformedAnswer, Verdicts
<1>4. ASSUME NEW c \in Clients, Invalid(c) \/ \E m \in Methods : Ask(c, m)
      PROVE  GatewayInv'
  BY <1>4, AskStep, InvalidStep
<1> QED
  BY <1>2, <1>3, <1>4, HangStep, CrashStep, StutterStep DEF Next

\* The conjunction above is kept by every step of every thread and of Core.
THEOREM GatewayInductive == Spec => []GatewayInv
BY InitGateway, NextStep, PTL DEF Spec

\* Whatever times out, crashes or answers late, and however many threads share
\* the supervisor, a caller is told what Core decided on its own call, or that
\* Core has refused the handshake of the process the call started
\* (CoreSupervisor.start, request, ProcessCoreGateway._request).
THEOREM ToldWhatCoreDecided == Spec => []VerdictIsCores
<1>1. GatewayInv => VerdictIsCores
  BY DEF GatewayInv
<1> QED
  BY <1>1, GatewayInductive, PTL

\* At most one Core process runs; a request is only ever in the pipe of one
\* that was greeted; and it runs in the isolation that is reported
\* (_spawn_locked, start, _terminate_locked).
THEOREM CoreStaysKnown == Spec => []CoreIsKnown
<1>1. GatewayInv => CoreIsKnown
  <2> SUFFICES ASSUME GatewayInv
               PROVE  TypeOK /\ OneCore /\ ServedByGreeted /\ Isolated
    BY DEF CoreIsKnown
  <2>1. ServedByGreeted
    <3> SUFFICES ASSUME NEW i \in 1..Len(inbox), inbox[i].call # 0
                 PROVE  greeted = proc /\ trait # "other_protocol"
      BY DEF ServedByGreeted
    <3>1. PICK f \in Frames : inbox = <<f>> /\ f.call = Asked /\ Waiting
      BY Single DEF GatewayInv, PipesMatch, InRequest, InAnswer
    <3>2. inbox[i] = f
      BY <3>1
    <3>3. proc # 0 /\ pc[lock] = "read"
      BY <3>1, <3>2 DEF Asked, Waiting
    <3> QED
      BY <3>3 DEF GatewayInv, GreetedFirst
  <2> QED
    BY <2>1 DEF GatewayInv, OneUp, OneCore
<1> QED
  BY <1>1, GatewayInductive, PTL
=============================================================================
