-------------------------- MODULE CallbackRegistry --------------------------
(***************************************************************************)
(* The callback registry of the Floss services (callbacks.rs) under the    *)
(* socket manager: clients of the bus register callbacks, use them for     *)
(* sockets and leave, and the service, which reads its messages in their   *)
(* order, learns of it later.  A disconnect is passed on by a spawned      *)
(* task, so the messages of the service's own channel have no order.       *)
(* The bus vouches for the sender of a message, but a client may send what *)
(* it likes: the ID of another, or a signal that another has left.         *)
(* A handler holds the lock of the socket manager and is one step.         *)
(***************************************************************************)
EXTENDS Integers, Sequences

CONSTANTS
    Clients,    \* unique names of the bus, none of which is used twice
    Bus,        \* the name of the bus itself
    Local,      \* the empty name: of proxies inside the service, and of no sender
    Paths,      \* object paths of callbacks
    MaxId,      \* bound: callbacks registered
    MaxCalls    \* bound: calls that wait for the service

NoCallback == <<>>
Ids == 1 .. MaxId
Identities == (Clients \cup {Local}) \X Paths

Calls == [kind : {"register"}, from : Clients, path : Paths]
         \cup [kind : {"unregister", "open", "close"}, from : Clients \cup {Local}, id : Ids]
Departures == [kind : {"gone"}, from : Clients \cup {Bus}, name : Clients]
Messages == Calls \cup Departures

ASSUME CallbackRegistryAssumption ==
    /\ Local \notin Clients /\ Bus \notin Clients
    /\ MaxId \in Nat /\ MaxCalls \in Nat

VARIABLES
    client,             \* of each name: "new", "up" or "gone"
    inbox,              \* messages of the bus for the service
    callbacks,          \* by ID: the identity of the proxy, or none
    object_id_to_cbid,  \* by identity: its ID, or 0
    next,               \* the next ID
    watched,            \* IDs the disconnect watcher watches the owner of
    tx,                 \* IDs in disconnect messages of the channel
    sockets             \* IDs with tasks of sockets

registry == <<callbacks, object_id_to_cbid, next, watched, sockets>>
vars == <<client, inbox, registry, tx>>

Init ==
    /\ client = [c \in Clients |-> "new"] /\ inbox = <<>>
    /\ callbacks = [id \in Ids |-> NoCallback]
    /\ object_id_to_cbid = [i \in Identities |-> 0]
    /\ next = 1 /\ watched = {} /\ tx = {} /\ sockets = {}

-----------------------------------------------------------------------------
(* The bus *)

Connect(c) ==
    /\ client[c] = "new"
    /\ client' = [client EXCEPT ![c] = "up"]
    /\ UNCHANGED <<inbox, registry, tx>>

\* IDs are left for every call that waits.
IdsLeft == next + Len(inbox) <= MaxId

Send(m) ==
    /\ m.from \in Clients => client[m.from] = "up"
    /\ Len(inbox) < MaxCalls
    /\ inbox' = Append(inbox, m)
    /\ UNCHANGED <<client, registry, tx>>

\* A client may name any ID that was issued, also one it had under an earlier name.
Call(m) ==
    /\ IF m.kind = "register" THEN IdsLeft ELSE m.id < next
    /\ Send(m)

\* A client sends the signal of the bus, about any client.
Forge(m) == m.from # Bus /\ Send(m)

Leave(c) ==
    /\ client[c] = "up"
    /\ client' = [client EXCEPT ![c] = "gone"]
    /\ inbox' = Append(inbox, [kind |-> "gone", from |-> Bus, name |-> c])
    /\ UNCHANGED <<registry, tx>>

-----------------------------------------------------------------------------
(* The registry *)

\* Paths are scoped to their owner.
Identity(owner, path) == <<owner, path>>

\* add_callback: an identity that is known keeps its ID.
AddCallback(i) ==
    \/ /\ object_id_to_cbid[i] # 0
       /\ UNCHANGED registry
    \/ /\ object_id_to_cbid[i] = 0 /\ next \in Ids
       /\ callbacks' = [callbacks EXCEPT ![next] = i]
       /\ object_id_to_cbid' = [object_id_to_cbid EXCEPT ![i] = next]
       /\ watched' = IF i[1] = Local THEN watched ELSE watched \cup {next}
       /\ next' = next + 1
       /\ sockets' = sockets

\* remove_callback of the registry
RemoveCallback(id) ==
    /\ watched' = watched \ {id}
    /\ object_id_to_cbid' = [object_id_to_cbid EXCEPT ![callbacks[id]] = 0]
    /\ callbacks' = [callbacks EXCEPT ![id] = NoCallback]
    /\ next' = next

Registered(id) == callbacks[id] # NoCallback

\* is_callback_owner: nobody owns the proxies of the service.
IsCallbackOwner(id, owner) == owner # Local /\ Registered(id) /\ callbacks[id][1] = owner

-----------------------------------------------------------------------------
(* The service *)

Received(kind) == inbox # <<>> /\ Head(inbox).kind = kind /\ inbox' = Tail(inbox)

RegisterCallback ==
    /\ Received("register")
    /\ AddCallback(Identity(Head(inbox).from, Head(inbox).path))
    /\ UNCHANGED <<client, tx>>

\* A proxy of the service itself.
RegisterLocal(path) ==
    /\ IdsLeft
    /\ AddCallback(Identity(Local, path))
    /\ UNCHANGED <<client, inbox, tx>>

\* authorize_socket_callback; a call without a sender is refused like one of a stranger.
Authorized == IsCallbackOwner(Head(inbox).id, Head(inbox).from)

Denied ==
    /\ \E kind \in {"unregister", "open", "close"} : Received(kind)
    /\ ~Authorized
    /\ UNCHANGED <<client, registry, tx>>

\* The tasks of the callback go with it.
UnregisterCallback ==
    /\ Received("unregister") /\ Authorized
    /\ RemoveCallback(Head(inbox).id)
    /\ sockets' = sockets \ {Head(inbox).id}
    /\ UNCHANGED <<client, tx>>

\* listen_using_..., create_..., accept
OpenSocket ==
    /\ Received("open") /\ Authorized
    /\ sockets' = sockets \cup {Head(inbox).id}
    /\ UNCHANGED <<client, callbacks, object_id_to_cbid, next, watched, tx>>

CloseSocket ==
    /\ Received("close") /\ Authorized
    /\ sockets' = sockets \ {Head(inbox).id}
    /\ UNCHANGED <<client, callbacks, object_id_to_cbid, next, watched, tx>>

FaultyWatchedOf(c) == {id \in watched : callbacks[id][1] = c /\ tx = {}}

WatchedOf(c) == {id \in watched : callbacks[id][1] = c}

FaultyDeparted == WatchedOf(Head(inbox).name)

\* The signal counts only if it comes from the bus.
Departed == IF Head(inbox).from = Bus THEN WatchedOf(Head(inbox).name) ELSE {}

\* DisconnectWatcher: it forgets the name and has a message sent for each of its IDs.
NameOwnerChanged ==
    /\ Received("gone")
    /\ tx' = tx \cup Departed
    /\ watched' = watched \ Departed
    /\ UNCHANGED <<client, callbacks, object_id_to_cbid, next, sockets>>

\* The message of the channel.
Disconnected(id) ==
    /\ id \in tx
    /\ tx' = tx \ {id}
    /\ IF Registered(id)
       THEN RemoveCallback(id) /\ sockets' = sockets \ {id}
       ELSE UNCHANGED registry
    /\ UNCHANGED <<client, inbox>>

Handle == \/ RegisterCallback \/ Denied \/ UnregisterCallback \/ OpenSocket \/ CloseSocket
          \/ NameOwnerChanged

Next ==
    \/ \E c \in Clients : Connect(c) \/ Leave(c)
    \/ \E m \in Calls : Call(m)
    \/ \E m \in Departures : Forge(m)
    \/ \E path \in Paths : RegisterLocal(path)
    \/ Handle
    \/ \E id \in Ids : Disconnected(id)

Spec == /\ Init /\ [][Next]_vars
        /\ WF_vars(Handle) /\ \A id \in Ids : WF_vars(Disconnected(id))

-----------------------------------------------------------------------------
(* What the registry promises *)

TypeOK ==
    /\ client \in [Clients -> {"new", "up", "gone"}]
    /\ inbox \in Seq(Messages)
    /\ callbacks \in [Ids -> Identities \cup {NoCallback}]
    /\ object_id_to_cbid \in [Identities -> Ids \cup {0}]
    /\ next \in 1 .. MaxId + 1
    /\ watched \subseteq Ids /\ tx \subseteq Ids /\ sockets \subseteq Ids

\* The two maps of the registry are inverse: the same path of two owners has two IDs, and
\* an owner that registers a path again gets the ID under which it is called.
MapsAgree ==
    /\ \A id \in Ids : Registered(id) => object_id_to_cbid[callbacks[id]] = id
    /\ \A i \in Identities : object_id_to_cbid[i] # 0 => callbacks[object_id_to_cbid[i]] = i

\* Tasks of sockets run only for a callback that is registered: unregistering ends them at
\* once instead of leaving them to a disconnect message.
SocketsHaveCallback == \A id \in sockets : Registered(id)

HasLeft(owner) == owner \in Clients /\ client[owner] = "gone"

\* The message the service handles is a call by the owner of callback id, about it.
Asked(id, kinds) ==
    /\ inbox # <<>> /\ Registered(id)
    /\ Head(inbox).kind \in kinds
    /\ Head(inbox).id = id /\ Head(inbox).from = callbacks[id][1]
    /\ Head(inbox).from \in Clients

\* A callback and its sockets are touched only at the request of their owner, or when it
\* has really left: an ID from an earlier connection of the caller, or of another client,
\* gives it nothing, nor does a signal that the other has left, and what the service has
\* registered itself stays, also for a call without a sender.
OnlyTheirOwner ==
    [][\A id \in Ids :
         /\ Registered(id) /\ callbacks[id]' # callbacks[id] =>
              HasLeft(callbacks[id][1]) \/ Asked(id, {"unregister"})
         /\ (id \in sockets) # (id \in sockets)' =>
              HasLeft(callbacks[id][1]) \/ Asked(id, {"unregister", "open", "close"})]_vars

\* What a client leaves behind is forgotten, also what it asked for just before it left.
GoneForgotten ==
    \A c \in Clients :
      client[c] = "gone" ~>
        [](\A id \in Ids : Registered(id) => callbacks[id][1] # c)
=============================================================================
