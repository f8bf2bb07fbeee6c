---------------------------- MODULE CodecService ----------------------------
(***************************************************************************)
(* The codec service of Floss (mmc/daemon/service.cc): a client asks for   *)
(* an encoder with CodecInit and connects to a socket of its own, behind   *)
(* which a worker thread encodes.  The thread of the bus makes the socket  *)
(* and the worker, each call of which may fail; the workers run beside it. *)
(* A token is the random name of a socket; encoding itself is external.    *)
(***************************************************************************)
EXTENDS Integers, FiniteSets

CONSTANTS
    Tokens,           \* names of sockets; a name is used again when nothing has it
    NoToken,
    kClientMaximum    \* size of the pool of workers

ASSUME CodecServiceAssumption == NoToken \notin Tokens /\ kClientMaximum \in Nat \ {0}

VARIABLES
    pc,           \* the next call of CodecInit
    token,        \* the socket that CodecInit is making
    thread_pool_, \* tokens of the threads in the pool
    task,         \* what the thread of each token is at
    fds,          \* tokens with an open listening socket
    paths,        \* tokens whose socket has its name in the file system
    servers,      \* tokens with an encoder
    client        \* of each token, the client that asked for it

sockets == <<fds, paths, servers>>
serviceVars == <<pc, token, thread_pool_, task, sockets, client>>

ServiceInit ==
    /\ pc = "idle" /\ token = NoToken /\ thread_pool_ = {}
    /\ task = [t \in Tokens |-> "none"]
    /\ fds = {} /\ paths = {} /\ servers = {}
    /\ client = [t \in Tokens |-> "none"]

-----------------------------------------------------------------------------
(* CodecInit *)

\* RemoveIdleThread: threads whose task has ended leave the pool.
RemoveIdleThread ==
    /\ pc = "idle"
    /\ pc' = "check"
    /\ thread_pool_' = {t \in thread_pool_ : task[t] # "done"}
    /\ UNCHANGED <<token, task, sockets, client>>

PoolFull == Cardinality(thread_pool_) >= kClientMaximum

AllBusy ==
    /\ pc = "check" /\ PoolFull
    /\ pc' = "idle"
    /\ UNCHANGED <<token, thread_pool_, task, sockets, client>>

Unused(t) ==
    /\ t \notin thread_pool_ \cup fds \cup paths \cup servers
    /\ client[t] \in {"none", "left"}

\* The encoder of the request; one that is not known or does not start is refused.
MakeEncoder(t) ==
    /\ pc = "check" /\ ~PoolFull /\ Unused(t)
    /\ \/ /\ pc' = "socket" /\ token' = t /\ servers' = servers \cup {t}
          /\ task' = [task EXCEPT ![t] = "none"] /\ client' = [client EXCEPT ![t] = "none"]
       \/ pc' = "idle" /\ UNCHANGED <<token, servers, task, client>>
    /\ UNCHANGED <<thread_pool_, fds, paths>>

\* The calls that succeed.
Socket ==
    /\ pc = "socket"
    /\ pc' = "bind" /\ fds' = fds \cup {token}
    /\ UNCHANGED <<token, thread_pool_, task, paths, servers, client>>

Bind ==
    /\ pc = "bind"
    /\ pc' = "chmod" /\ paths' = paths \cup {token}
    /\ UNCHANGED <<token, thread_pool_, task, fds, servers, client>>

Chmod ==
    /\ pc = "chmod"
    /\ pc' = "listen"
    /\ UNCHANGED <<token, thread_pool_, task, sockets, client>>

\* StartWorkerThread puts a thread into the pool before it starts it.
Listen ==
    /\ pc = "listen"
    /\ pc' = "start" /\ thread_pool_' = thread_pool_ \cup {token}
    /\ UNCHANGED <<token, task, sockets, client>>

StartUp ==
    /\ pc = "start"
    /\ pc' = "post"
    /\ UNCHANGED <<token, thread_pool_, task, sockets, client>>

PostTask ==
    /\ pc = "post"
    /\ pc' = "reply" /\ task' = [task EXCEPT ![token] = "listen"]
    /\ UNCHANGED <<token, thread_pool_, sockets, client>>

\* An error reply; the encoder goes with the local variable that holds it.
ReplyError ==
    /\ pc' = "idle" /\ token' = NoToken
    /\ servers' = servers \ {token}
    /\ UNCHANGED <<task, client>>

SocketFails ==
    /\ pc = "socket"
    /\ ReplyError
    /\ UNCHANGED <<thread_pool_, fds, paths>>

FaultyCallFails ==
    /\ pc \in {"bind", "chmod", "listen"}
    /\ ReplyError
    /\ fds' = fds \ {token}
    /\ paths' = IF pc = "listen" THEN paths ELSE paths \ {token}
    /\ UNCHANGED thread_pool_

\* bind, chmod or listen fails.
CallFails ==
    /\ pc \in {"bind", "chmod", "listen"}
    /\ ReplyError
    /\ fds' = fds \ {token} /\ paths' = paths \ {token}
    /\ UNCHANGED thread_pool_

\* The thread does not start, or does not take the task.
StartWorkerFails ==
    /\ pc \in {"start", "post"}
    /\ ReplyError
    /\ fds' = fds \ {token} /\ paths' = paths \ {token}
    /\ thread_pool_' = thread_pool_ \ {token}

Reply ==
    /\ pc = "reply"
    /\ pc' = "idle" /\ token' = NoToken
    /\ client' = [client EXCEPT ![token] = "told"]
    /\ UNCHANGED <<thread_pool_, task, sockets>>

-----------------------------------------------------------------------------
(* StartSocketListener, on the thread of the worker *)

\* poll() and accept4() succeed, and the listening socket is closed.
Accept(t) ==
    /\ task[t] = "listen" /\ client[t] \in {"connected", "closed"}
    /\ task' = [task EXCEPT ![t] = "serve"]
    /\ fds' = fds \ {t}
    /\ UNCHANGED <<pc, token, thread_pool_, paths, servers, client>>

FaultyAcceptFails(t) ==
    /\ task[t] = "listen" /\ client[t] \in {"connected", "closed"}
    /\ task' = [task EXCEPT ![t] = "unlink"]
    /\ fds' = fds \ {t}
    /\ client' = [client EXCEPT ![t] = "left"]
    /\ UNCHANGED <<pc, token, thread_pool_, paths, servers>>

\* Ten seconds without a client, or accept4() fails; a client that had just connected is
\* reset with the listening socket.
AcceptFails(t) ==
    /\ task[t] = "listen"
    /\ task' = [task EXCEPT ![t] = "unlink"]
    /\ fds' = fds \ {t}
    /\ client' = IF client[t] \in {"connected", "closed"}
                 THEN [client EXCEPT ![t] = "left"] ELSE client
    /\ UNCHANGED <<pc, token, thread_pool_, paths, servers>>

\* The client has closed its end, or encoding or a write fails.
ServeEnds(t) ==
    /\ task[t] = "serve"
    /\ task' = [task EXCEPT ![t] = "unlink"]
    /\ client' = [client EXCEPT ![t] = "left"]
    /\ UNCHANGED <<pc, token, thread_pool_, sockets>>

Unlink(t) ==
    /\ task[t] = "unlink"
    /\ task' = [task EXCEPT ![t] = "reset"]
    /\ paths' = paths \ {t}
    /\ UNCHANGED <<pc, token, thread_pool_, fds, servers, client>>

\* The encoder is destroyed, and then task_ended is set.
Reset(t) ==
    /\ task[t] = "reset"
    /\ task' = [task EXCEPT ![t] = "done"]
    /\ servers' = servers \ {t}
    /\ UNCHANGED <<pc, token, thread_pool_, fds, paths, client>>

-----------------------------------------------------------------------------
(* The clients *)

Connect(t) ==
    /\ client[t] = "told"
    /\ client' = [client EXCEPT ![t] = IF t \in fds /\ t \in paths THEN "connected" ELSE "left"]
    /\ UNCHANGED <<pc, token, thread_pool_, task, sockets>>

\* A client never connects, or closes its end.
Leave(t) ==
    /\ client[t] \in {"told", "connected"}
    /\ client' = [client EXCEPT ![t] = IF @ = "told" THEN "left" ELSE "closed"]
    /\ UNCHANGED <<pc, token, thread_pool_, task, sockets>>

CodecInit ==
    \/ AllBusy
    \/ \E t \in Tokens : MakeEncoder(t)
    \/ Socket \/ Bind \/ Chmod \/ Listen \/ StartUp \/ PostTask \/ Reply
    \/ SocketFails \/ CallFails \/ StartWorkerFails

Worker(t) == Accept(t) \/ AcceptFails(t) \/ Unlink(t) \/ Reset(t)

ServiceNext ==
    \/ RemoveIdleThread \/ CodecInit
    \/ \E t \in Tokens : Worker(t) \/ ServeEnds(t) \/ Connect(t) \/ Leave(t)

\* The thread of the bus and the workers run; poll() has a deadline; the end of a client
\* is read.  Nothing is assumed of clients that stay connected.
ServiceFairness ==
    /\ WF_serviceVars(CodecInit)
    /\ \A t \in Tokens : /\ WF_serviceVars(Worker(t))
                         /\ WF_serviceVars(client[t] = "closed" /\ ServeEnds(t))

ServiceSpec == ServiceInit /\ [][ServiceNext]_serviceVars /\ ServiceFairness

-----------------------------------------------------------------------------
(* What the service promises *)

Places == {"idle", "check", "socket", "bind", "chmod", "listen", "start", "post", "reply"}

ServiceTypeOK ==
    /\ pc \in Places /\ token \in Tokens \cup {NoToken}
    /\ thread_pool_ \subseteq Tokens
    /\ task \in [Tokens -> {"none", "listen", "serve", "unlink", "reset", "done"}]
    /\ fds \subseteq Tokens /\ paths \subseteq Tokens /\ servers \subseteq Tokens
    /\ client \in [Tokens -> {"none", "told", "connected", "closed", "left"}]

\* A thread of the pool that has a task which has not ended.
AtWork(t) == t \in thread_pool_ /\ task[t] \in {"listen", "serve", "unlink", "reset"}

\* The pool does not outgrow its limit, whatever fails and whenever threads end: it is
\* counted before the thread is added, several calls later.
PoolBounded == Cardinality(thread_pool_) <= kClientMaximum

\* A listening socket, a name in the file system and an encoder belong to the call that is
\* being served or to a worker at work: no failure and no end of a worker leaves any behind.
NothingLeaks == \A t \in fds \cup paths \cup servers : t = token \/ AtWork(t)

\* A place in the pool is held by a call in hand, by a task, or until the next call
\* removes it: a failed start does not cost a place for ever.
NoDeadPlaces ==
    \A t \in thread_pool_ : t = token \/ task[t] # "none"

\* Only a client that stays connected keeps a worker: one that never connects, or has
\* closed its end, does not.
NoPinning ==
    \A t \in Tokens :
      t \in thread_pool_ /\ client[t] # "connected"
        ~> task[t] = "done" \/ client[t] = "connected" \/ t \notin thread_pool_
=============================================================================
