----------------------- MODULE CallbackRegistryProofs -----------------------
(***************************************************************************)
(* The invariants of CallbackRegistry for any clients, paths and bounds.   *)
(***************************************************************************)
EXTENDS CallbackRegistry, TLAPS

\* IDs that have not been issued are nowhere.
UnissuedUnused ==
    \A id \in Ids :
       id >= next => ~Registered(id) /\ id \notin watched /\ id \notin tx /\ id \notin sockets

Announced(m) == m.kind = "gone" /\ m.from = Bus

\* The bus announces only those who have left; nothing is known of the signals of clients.
GoneIsTrue ==
    \A k \in 1 .. Len(inbox) : Announced(inbox[k]) => client[inbox[k].name] = "gone"

\* Disconnect messages are of clients that have left.
TxHaveLeft == \A id \in tx : Registered(id) => HasLeft(callbacks[id][1])

Inv == /\ TypeOK /\ MapsAgree /\ SocketsHaveCallback
       /\ UnissuedUnused /\ GoneIsTrue /\ TxHaveLeft

\* An identity is not the mark of a free ID.
LEMMA IdentityIsCallback ==
    ASSUME NEW i \in Identities
    PROVE  i # NoCallback /\ i[1] \in Clients \cup {Local}
  BY DEF Identities, NoCallback

\* What the service takes from its inbox is a message, and the rest keeps its order.
LEMMA ReceivedIsMessage ==
    ASSUME Inv, NEW kind, Received(kind)
    PROVE  /\ Head(inbox) \in Messages /\ Head(inbox).kind = kind
           /\ inbox' \in Seq(Messages)
           /\ client' = client => GoneIsTrue'
           /\ Announced(Head(inbox)) => client[Head(inbox).name] = "gone"
  <1>1. inbox \in Seq(Messages) /\ inbox # <<>> /\ inbox' = Tail(inbox)
    BY DEF Inv, TypeOK, Received
  <1>2. Head(inbox) \in Messages /\ Head(inbox) = inbox[1] /\ Len(inbox) >= 1
        /\ Tail(inbox) \in Seq(Messages) /\ Len(Tail(inbox)) = Len(inbox) - 1
        /\ Len(inbox) \in Nat
        /\ \A k \in 1 .. Len(inbox) - 1 : Tail(inbox)[k] = inbox[k + 1]
    BY <1>1
  <1>3. ASSUME client' = client PROVE GoneIsTrue'
    <2> SUFFICES ASSUME NEW k \in 1 .. Len(inbox) - 1, Announced(inbox[k + 1])
                 PROVE  client[inbox[k + 1].name] = "gone"
      BY <1>1, <1>2, <1>3 DEF GoneIsTrue, Announced
    <2>1. k + 1 \in 1 .. Len(inbox)
      BY <1>2
    <2> QED
      BY <2>1 DEF Inv, GoneIsTrue
  <1> QED
    BY <1>1, <1>2, <1>3 DEF Received, Inv, GoneIsTrue

\* A message about a callback carries the ID of one and the name of a client.
LEMMA MessageFields ==
    ASSUME NEW m \in Messages
    PROVE  /\ m.kind = "gone" => m.name \in Clients
           /\ m.kind \in {"unregister", "open", "close"} => m.id \in Ids
           /\ m.kind = "register" => m.from \in Clients /\ m.path \in Paths
  <1>1. CASE m \in [kind : {"register"}, from : Clients, path : Paths]
    BY <1>1
  <1>2. CASE m \in [kind : {"unregister", "open", "close"}, from : Clients \cup {Local}, id : Ids]
    BY <1>2
  <1>3. CASE m \in [kind : {"gone"}, from : Clients \cup {Bus}, name : Clients]
    BY <1>3
  <1> QED
    BY <1>1, <1>2, <1>3 DEF Messages, Calls, Departures

\* add_callback keeps the maps inverse: the new ID is free and the identity unknown.
LEMMA AddKeepsMaps ==
    ASSUME Inv, NEW i \in Identities, AddCallback(i), UNCHANGED <<client, tx>>
    PROVE  /\ callbacks' \in [Ids -> Identities \cup {NoCallback}]
           /\ object_id_to_cbid' \in [Identities -> Ids \cup {0}]
           /\ next' \in 1 .. MaxId + 1 /\ watched' \subseteq Ids /\ sockets' = sockets
           /\ MapsAgree' /\ SocketsHaveCallback' /\ UnissuedUnused' /\ TxHaveLeft'
           /\ \A id \in Ids : Registered(id) => callbacks'[id] = callbacks[id]
  <1>1. CASE UNCHANGED registry
    BY <1>1 DEF registry, Inv, TypeOK, MapsAgree, SocketsHaveCallback, UnissuedUnused, TxHaveLeft,
                Registered, HasLeft
  <1>2. CASE /\ object_id_to_cbid[i] = 0 /\ next \in Ids
             /\ callbacks' = [callbacks EXCEPT ![next] = i]
             /\ object_id_to_cbid' = [object_id_to_cbid EXCEPT ![i] = next]
             /\ watched' = IF i[1] = Local THEN watched ELSE watched \cup {next}
             /\ next' = next + 1
             /\ sockets' = sockets
    <2>1. ~Registered(next) /\ next \notin tx /\ next \notin sockets
      BY <1>2 DEF Inv, UnissuedUnused, Ids
    <2>2. /\ callbacks' \in [Ids -> Identities \cup {NoCallback}]
          /\ object_id_to_cbid' \in [Identities -> Ids \cup {0}]
          /\ next' \in 1 .. MaxId + 1 /\ watched' \subseteq Ids
      BY <1>2, CallbackRegistryAssumption DEF Inv, TypeOK, Ids
    <2>3. \A id \in Ids : callbacks'[id] = IF id = next THEN i ELSE callbacks[id]
      BY <1>2 DEF Inv, TypeOK
    <2>4. \A j \in Identities :
             object_id_to_cbid'[j] = IF j = i THEN next ELSE object_id_to_cbid[j]
      BY <1>2 DEF Inv, TypeOK
    <2>5. \A id \in Ids : Registered(id)' <=> (id = next \/ Registered(id))
      BY <2>3, IdentityIsCallback DEF Registered
    <2>6. ASSUME NEW id \in Ids, Registered(id)'
          PROVE  object_id_to_cbid'[callbacks'[id]] = id
      <3>1. CASE id = next
        BY <2>3, <2>4, <3>1
      <3>2. CASE id # next
        <4>1. Registered(id) /\ callbacks'[id] = callbacks[id]
          BY <2>3, <2>5, <2>6, <3>2
        <4>2. callbacks[id] \in Identities /\ object_id_to_cbid[callbacks[id]] = id
          BY <4>1 DEF Inv, TypeOK, MapsAgree, Registered
        <4>3. callbacks[id] # i
          BY <1>2, <4>2, CallbackRegistryAssumption DEF Ids
        <4> QED
          BY <2>4, <4>1, <4>2, <4>3
      <3> QED
        BY <3>1, <3>2
    <2>7. ASSUME NEW j \in Identities, object_id_to_cbid'[j] # 0
          PROVE  callbacks'[object_id_to_cbid'[j]] = j
      <3>1. CASE j = i
        BY <1>2, <2>3, <2>4, <3>1
      <3>2. CASE j # i
        <4>1. object_id_to_cbid'[j] = object_id_to_cbid[j] /\ object_id_to_cbid[j] \in Ids
          BY <2>4, <2>7, <3>2 DEF Inv, TypeOK
        <4>2. callbacks[object_id_to_cbid[j]] = j
          BY <2>7, <4>1 DEF Inv, MapsAgree
        <4>3. object_id_to_cbid[j] # next
          BY <2>1, <4>2, IdentityIsCallback DEF Registered
        <4> QED
          BY <2>3, <4>1, <4>2, <4>3
      <3> QED
        BY <3>1, <3>2
    <2>8. MapsAgree'
      BY <2>6, <2>7 DEF MapsAgree
    <2>9. SocketsHaveCallback'
      BY <1>2, <2>5 DEF Inv, TypeOK, SocketsHaveCallback
    <2>10. UnissuedUnused'
      BY <1>2, <2>5 DEF Inv, TypeOK, UnissuedUnused, Ids
    <2>11. \A id \in tx : id # next /\ id \in Ids
      BY <2>1 DEF Inv, TypeOK
    <2>12. \A id \in tx : callbacks'[id] = callbacks[id]
      BY <2>3, <2>11
    <2>13. TxHaveLeft'
      BY <2>12 DEF Inv, TxHaveLeft, Registered, HasLeft
    <2> QED
      BY <1>2, <2>1, <2>2, <2>3, <2>8, <2>9, <2>10, <2>13
  <1> QED
    BY <1>1, <1>2 DEF AddCallback

\* remove_callback keeps the maps inverse: both entries go.
LEMMA RemoveKeepsMaps ==
    ASSUME Inv, NEW id \in Ids, Registered(id), RemoveCallback(id), sockets' = sockets \ {id},
           client' = client, tx' \subseteq tx
    PROVE  /\ callbacks' \in [Ids -> Identities \cup {NoCallback}]
           /\ object_id_to_cbid' \in [Identities -> Ids \cup {0}]
           /\ next' \in 1 .. MaxId + 1 /\ watched' \subseteq Ids /\ sockets' \subseteq Ids
           /\ tx' \subseteq Ids
           /\ MapsAgree' /\ SocketsHaveCallback' /\ UnissuedUnused' /\ TxHaveLeft'
           /\ \A n \in Ids : n # id => callbacks'[n] = callbacks[n]
  <1>1. callbacks[id] \in Identities /\ object_id_to_cbid[callbacks[id]] = id
    BY DEF Inv, TypeOK, MapsAgree, Registered
  <1>2. /\ callbacks' \in [Ids -> Identities \cup {NoCallback}]
        /\ object_id_to_cbid' \in [Identities -> Ids \cup {0}]
        /\ next' = next /\ next' \in 1 .. MaxId + 1 /\ watched' \subseteq Ids
        /\ sockets' \subseteq Ids /\ tx' \subseteq Ids
    BY <1>1 DEF RemoveCallback, Inv, TypeOK
  <1>3. \A n \in Ids : callbacks'[n] = IF n = id THEN NoCallback ELSE callbacks[n]
    BY DEF RemoveCallback, Inv, TypeOK
  <1>4. \A j \in Identities :
           object_id_to_cbid'[j] = IF j = callbacks[id] THEN 0 ELSE object_id_to_cbid[j]
    BY DEF RemoveCallback, Inv, TypeOK
  <1>5. \A n \in Ids : Registered(n)' <=> (n # id /\ Registered(n))
    BY <1>3 DEF Registered
  <1>6. ASSUME NEW n \in Ids, Registered(n)'
        PROVE  object_id_to_cbid'[callbacks'[n]] = n
    <2>1. n # id /\ Registered(n) /\ callbacks'[n] = callbacks[n]
      BY <1>3, <1>5, <1>6
    <2>2. callbacks[n] \in Identities /\ object_id_to_cbid[callbacks[n]] = n
      BY <2>1 DEF Inv, TypeOK, MapsAgree, Registered
    <2>3. callbacks[n] # callbacks[id]
      BY <1>1, <2>1, <2>2
    <2> QED
      BY <1>4, <2>1, <2>2, <2>3
  <1>7. ASSUME NEW j \in Identities, object_id_to_cbid'[j] # 0
        PROVE  callbacks'[object_id_to_cbid'[j]] = j
    <2>1. j # callbacks[id] /\ object_id_to_cbid'[j] = object_id_to_cbid[j]
          /\ object_id_to_cbid[j] \in Ids
      BY <1>4, <1>7 DEF Inv, TypeOK
    <2>2. callbacks[object_id_to_cbid[j]] = j
      BY <1>7, <2>1 DEF Inv, MapsAgree
    <2>3. object_id_to_cbid[j] # id
      BY <2>1, <2>2
    <2> QED
      BY <1>3, <2>1, <2>2, <2>3
  <1>8. MapsAgree'
    BY <1>6, <1>7 DEF MapsAgree
  <1>9. SocketsHaveCallback'
    BY <1>5 DEF Inv, TypeOK, SocketsHaveCallback
  <1>10. UnissuedUnused'
    BY <1>2, <1>5 DEF Inv, UnissuedUnused, RemoveCallback
  <1>11. TxHaveLeft'
    <2>1. \A n \in tx' : Registered(n)' => n \in tx /\ Registered(n) /\ callbacks'[n] = callbacks[n]
      BY <1>2, <1>3, <1>5
    <2> QED
      BY <2>1 DEF Inv, TxHaveLeft, HasLeft
  <1> QED
    BY <1>2, <1>3, <1>8, <1>9, <1>10, <1>11

\* A call or a departure, true or forged, preserves the invariant: the service has not
\* moved.
LEMMA BusStep ==
    ASSUME Inv,
           \/ \E c \in Clients : Connect(c) \/ Leave(c)
           \/ \E m \in Calls : Call(m)
           \/ \E m \in Departures : Forge(m)
    PROVE  Inv'
  <1>1. ASSUME UNCHANGED <<registry, tx>>, client' \in [Clients -> {"new", "up", "gone"}],
               inbox' \in Seq(Messages), GoneIsTrue',
               \A c \in Clients : client[c] = "gone" => client'[c] = "gone"
        PROVE  Inv'
    <2>1. TypeOK' /\ MapsAgree' /\ SocketsHaveCallback' /\ UnissuedUnused'
      BY <1>1 DEF Inv, TypeOK, MapsAgree, SocketsHaveCallback, UnissuedUnused, Registered, registry
    <2>2. TxHaveLeft'
      BY <1>1 DEF Inv, TxHaveLeft, HasLeft, Registered, registry
    <2> QED
      BY <1>1, <2>1, <2>2 DEF Inv
  <1>2. ASSUME NEW c \in Clients, Connect(c) PROVE Inv'
    <2>1. /\ UNCHANGED <<registry, tx>> /\ inbox' = inbox
          /\ client' = [client EXCEPT ![c] = "up"] /\ client[c] = "new"
      BY <1>2 DEF Connect
    <2>2. /\ client' \in [Clients -> {"new", "up", "gone"}]
          /\ \A d \in Clients : client[d] = "gone" => client'[d] = "gone"
      BY <2>1 DEF Inv, TypeOK
    <2>3. GoneIsTrue'
      <3>1. \A k \in 1 .. Len(inbox) : Announced(inbox[k]) => inbox[k].name \in Clients
        BY MessageFields DEF Inv, TypeOK, Announced
      <3> QED
        BY <2>1, <2>2, <3>1 DEF Inv, GoneIsTrue, Announced
    <2> QED
      BY <1>1, <2>1, <2>2, <2>3 DEF Inv, TypeOK
  <1>3. ASSUME NEW m \in Messages, inbox' = Append(inbox, m), UNCHANGED <<registry, tx>>,
               client' \in [Clients -> {"new", "up", "gone"}],
               \A c \in Clients : client[c] = "gone" => client'[c] = "gone",
               Announced(m) => client'[m.name] = "gone"
        PROVE  Inv'
    <2>1. /\ inbox' \in Seq(Messages) /\ Len(inbox') = Len(inbox) + 1 /\ Len(inbox) \in Nat
          /\ inbox'[Len(inbox) + 1] = m
          /\ \A k \in 1 .. Len(inbox) : inbox'[k] = inbox[k]
      BY <1>3 DEF Inv, TypeOK
    <2>2. \A k \in 1 .. Len(inbox) : Announced(inbox[k]) => inbox[k].name \in Clients
      BY MessageFields DEF Inv, TypeOK, Announced
    <2>3. ASSUME NEW k \in 1 .. Len(inbox) + 1, Announced(inbox'[k])
          PROVE  client'[inbox'[k].name] = "gone"
      <3>1. CASE k = Len(inbox) + 1
        BY <1>3, <2>1, <2>3, <3>1
      <3>2. CASE k \in 1 .. Len(inbox)
        BY <1>3, <2>1, <2>2, <2>3, <3>2 DEF Inv, GoneIsTrue
      <3> QED
        BY <2>1, <3>1, <3>2
    <2>4. GoneIsTrue'
      BY <2>1, <2>3 DEF GoneIsTrue, Announced
    <2> QED
      BY <1>1, <1>3, <2>1, <2>4
  <1>4. ASSUME NEW c \in Clients, Leave(c) PROVE Inv'
    <2> DEFINE m == [kind |-> "gone", from |-> Bus, name |-> c]
    <2>1. m \in Messages /\ m.name = c
      BY DEF Messages, Departures
    <2>2. /\ UNCHANGED <<registry, tx>> /\ inbox' = Append(inbox, m)
          /\ client' = [client EXCEPT ![c] = "gone"]
      BY <1>4 DEF Leave
    <2>3. /\ client' \in [Clients -> {"new", "up", "gone"}] /\ client'[c] = "gone"
          /\ \A d \in Clients : client[d] = "gone" => client'[d] = "gone"
      BY <2>2 DEF Inv, TypeOK
    <2> HIDE DEF m
    <2> QED
      BY <1>3, <2>1, <2>2, <2>3
  <1>5. ASSUME NEW m \in Calls, Call(m) PROVE Inv'
    <2>1. m \in Messages /\ ~Announced(m)
      BY DEF Messages, Calls, Announced
    <2>2. UNCHANGED <<registry, tx, client>> /\ inbox' = Append(inbox, m)
      BY <1>5 DEF Call, Send
    <2> QED
      BY <1>3, <2>1, <2>2 DEF Inv, TypeOK
  <1>6. ASSUME NEW m \in Departures, Forge(m) PROVE Inv'
    <2>1. m \in Messages /\ ~Announced(m)
      BY <1>6 DEF Messages, Forge, Announced
    <2>2. UNCHANGED <<registry, tx, client>> /\ inbox' = Append(inbox, m)
      BY <1>6 DEF Forge, Send
    <2> QED
      BY <1>3, <2>1, <2>2 DEF Inv, TypeOK
  <1> QED
    BY <1>2, <1>4, <1>5, <1>6

\* Registration preserves the invariant, and leaves every callback as it is.
LEMMA RegisterStep ==
    ASSUME Inv, RegisterCallback \/ \E path \in Paths : RegisterLocal(path)
    PROVE  /\ Inv' /\ sockets' = sockets
           /\ \A id \in Ids : Registered(id) => callbacks'[id] = callbacks[id]
  <1>1. ASSUME NEW i \in Identities, AddCallback(i), UNCHANGED <<client, tx>>,
               inbox' \in Seq(Messages), GoneIsTrue'
        PROVE  /\ Inv' /\ sockets' = sockets
               /\ \A id \in Ids : Registered(id) => callbacks'[id] = callbacks[id]
    <2>1. TypeOK'
      BY <1>1, AddKeepsMaps DEF Inv, TypeOK
    <2> QED
      BY <1>1, <2>1, AddKeepsMaps DEF Inv
  <1>2. CASE RegisterCallback
    <2>1. /\ Received("register") /\ UNCHANGED <<client, tx>>
          /\ AddCallback(<<Head(inbox).from, Head(inbox).path>>)
      BY <1>2 DEF RegisterCallback, Identity
    <2>2. Head(inbox) \in Messages /\ Head(inbox).kind = "register" /\ inbox' \in Seq(Messages)
          /\ GoneIsTrue'
      BY <2>1, ReceivedIsMessage
    <2>3. <<Head(inbox).from, Head(inbox).path>> \in Identities
      BY <2>2, MessageFields DEF Identities
    <2> QED
      BY <1>1, <2>1, <2>2, <2>3
  <1>3. ASSUME NEW path \in Paths, RegisterLocal(path)
        PROVE  /\ Inv' /\ sockets' = sockets
               /\ \A id \in Ids : Registered(id) => callbacks'[id] = callbacks[id]
    <2>1. AddCallback(<<Local, path>>) /\ UNCHANGED <<client, tx>> /\ inbox' = inbox
      BY <1>3 DEF RegisterLocal, Identity
    <2>2. <<Local, path>> \in Identities
      BY DEF Identities
    <2>3. inbox' \in Seq(Messages) /\ GoneIsTrue'
      BY <2>1 DEF Inv, TypeOK, GoneIsTrue
    <2> QED
      BY <1>1, <2>1, <2>2, <2>3
  <1> QED
    BY <1>2, <1>3

\* What an authorized call is: one of the owner of the callback, which is registered.
LEMMA AuthorizedCall ==
    ASSUME Inv, NEW kind \in {"unregister", "open", "close"}, Received(kind), Authorized
    PROVE  /\ Head(inbox).id \in Ids /\ Registered(Head(inbox).id)
           /\ Asked(Head(inbox).id, {kind})
           /\ inbox' \in Seq(Messages) /\ (client' = client => GoneIsTrue')
  <1>1. Head(inbox) \in Messages /\ Head(inbox).kind = kind /\ inbox' \in Seq(Messages)
        /\ (client' = client => GoneIsTrue') /\ inbox # <<>>
    BY ReceivedIsMessage DEF Received
  <1>2. Head(inbox).id \in Ids
    BY <1>1, MessageFields
  <1>3. Registered(Head(inbox).id) /\ callbacks[Head(inbox).id][1] = Head(inbox).from
        /\ Head(inbox).from # Local
    BY DEF Authorized, IsCallbackOwner
  <1>4. callbacks[Head(inbox).id][1] \in Clients \cup {Local}
    BY <1>2, <1>3, IdentityIsCallback DEF Inv, TypeOK, Registered
  <1> QED
    BY <1>1, <1>2, <1>3, <1>4 DEF Asked

\* Unregistering preserves the invariant, and touches the callback of the call only.
LEMMA UnregisterStep ==
    ASSUME Inv, UnregisterCallback
    PROVE  /\ Inv'
           /\ Asked(Head(inbox).id, {"unregister"})
           /\ \A id \in Ids : id # Head(inbox).id =>
                 callbacks'[id] = callbacks[id] /\ (id \in sockets' <=> id \in sockets)
  <1> DEFINE d == Head(inbox).id
  <1>1. /\ Received("unregister") /\ Authorized /\ RemoveCallback(d) /\ sockets' = sockets \ {d}
        /\ client' = client /\ tx' = tx
    BY DEF UnregisterCallback
  <1>2. /\ d \in Ids /\ Registered(d) /\ Asked(d, {"unregister"}) /\ inbox' \in Seq(Messages)
        /\ GoneIsTrue'
    BY <1>1, AuthorizedCall
  <1> HIDE DEF d
  <1>3. /\ callbacks' \in [Ids -> Identities \cup {NoCallback}]
        /\ object_id_to_cbid' \in [Identities -> Ids \cup {0}]
        /\ next' \in 1 .. MaxId + 1 /\ watched' \subseteq Ids /\ sockets' \subseteq Ids
        /\ tx' \subseteq Ids
        /\ MapsAgree' /\ SocketsHaveCallback' /\ UnissuedUnused' /\ TxHaveLeft'
        /\ \A n \in Ids : n # d => callbacks'[n] = callbacks[n]
    BY <1>1, <1>2, RemoveKeepsMaps
  <1>4. TypeOK'
    BY <1>1, <1>2, <1>3 DEF Inv, TypeOK
  <1> QED
    BY <1>1, <1>2, <1>3, <1>4 DEF Inv, d

\* Opening and closing sockets preserves the invariant, and touches those of the call only.
LEMMA SocketStep ==
    ASSUME Inv, OpenSocket \/ CloseSocket
    PROVE  /\ Inv' /\ callbacks' = callbacks
           /\ Asked(Head(inbox).id, {"open", "close"})
           /\ \A id \in Ids : id # Head(inbox).id => (id \in sockets' <=> id \in sockets)
  <1>1. PICK kind \in {"open", "close"} : Received(kind) /\ Authorized
    BY DEF OpenSocket, CloseSocket
  <1>2. /\ Head(inbox).id \in Ids /\ Registered(Head(inbox).id) /\ Asked(Head(inbox).id, {kind})
        /\ inbox' \in Seq(Messages) /\ (client' = client => GoneIsTrue')
    BY <1>1, AuthorizedCall
  <1>3. /\ UNCHANGED <<client, callbacks, object_id_to_cbid, next, watched, tx>>
        /\ sockets' = sockets \cup {Head(inbox).id} \/ sockets' = sockets \ {Head(inbox).id}
    BY DEF OpenSocket, CloseSocket
  <1>4. TypeOK' /\ MapsAgree' /\ TxHaveLeft' /\ GoneIsTrue'
    BY <1>2, <1>3 DEF Inv, TypeOK, MapsAgree, TxHaveLeft, Registered, HasLeft
  <1>5. SocketsHaveCallback' /\ UnissuedUnused'
    BY <1>2, <1>3 DEF Inv, SocketsHaveCallback, UnissuedUnused, Registered
  <1>6. Asked(Head(inbox).id, {"open", "close"})
    BY <1>1, <1>2 DEF Asked
  <1> QED
    BY <1>3, <1>4, <1>5, <1>6 DEF Inv

\* A departure preserves the invariant: messages are queued for its callbacks only.
LEMMA DepartureStep ==
    ASSUME Inv, NameOwnerChanged
    PROVE  Inv' /\ callbacks' = callbacks /\ sockets' = sockets
  <1>1. /\ Received("gone") /\ UNCHANGED <<client, callbacks, object_id_to_cbid, next, sockets>>
        /\ tx' = tx \cup Departed /\ watched' = watched \ Departed
    BY DEF NameOwnerChanged
  <1>2. /\ Head(inbox) \in Messages /\ Head(inbox).kind = "gone"
        /\ inbox' \in Seq(Messages) /\ GoneIsTrue'
        /\ Head(inbox).from = Bus => client[Head(inbox).name] = "gone"
    BY <1>1, ReceivedIsMessage DEF Announced
  <1>3. Departed \subseteq watched /\ \A id \in Departed : HasLeft(callbacks[id][1])
    BY <1>2, MessageFields DEF HasLeft, Departed, WatchedOf
  <1>4. TypeOK' /\ MapsAgree' /\ SocketsHaveCallback'
    BY <1>1, <1>2, <1>3 DEF Inv, TypeOK, MapsAgree, SocketsHaveCallback, Registered
  <1>5. TxHaveLeft'
    BY <1>1, <1>3 DEF Inv, TxHaveLeft, HasLeft, Registered
  <1>6. UnissuedUnused'
    BY <1>1, <1>3 DEF Inv, UnissuedUnused, Registered
  <1> QED
    BY <1>1, <1>2, <1>4, <1>5, <1>6 DEF Inv

\* The message of the channel preserves the invariant, and touches what its client left.
LEMMA DisconnectedStep ==
    ASSUME Inv, NEW d \in Ids, Disconnected(d)
    PROVE  /\ Inv'
           /\ Registered(d) => HasLeft(callbacks[d][1])
           /\ ~Registered(d) => callbacks' = callbacks /\ sockets' = sockets
           /\ \A id \in Ids : id # d =>
                 callbacks'[id] = callbacks[id] /\ (id \in sockets' <=> id \in sockets)
  <1>1. d \in tx /\ tx' = tx \ {d} /\ client' = client /\ inbox' = inbox
    BY DEF Disconnected
  <1>2. inbox' \in Seq(Messages) /\ GoneIsTrue'
    BY <1>1 DEF Inv, TypeOK, GoneIsTrue
  <1>3. CASE Registered(d)
    <2>1. RemoveCallback(d) /\ sockets' = sockets \ {d}
      BY <1>3 DEF Disconnected
    <2>2. /\ callbacks' \in [Ids -> Identities \cup {NoCallback}]
          /\ object_id_to_cbid' \in [Identities -> Ids \cup {0}]
          /\ next' \in 1 .. MaxId + 1 /\ watched' \subseteq Ids /\ sockets' \subseteq Ids
          /\ tx' \subseteq Ids
          /\ MapsAgree' /\ SocketsHaveCallback' /\ UnissuedUnused' /\ TxHaveLeft'
          /\ \A n \in Ids : n # d => callbacks'[n] = callbacks[n]
      BY <1>1, <1>3, <2>1, RemoveKeepsMaps
    <2>3. TypeOK'
      BY <1>1, <1>2, <2>2 DEF Inv, TypeOK
    <2>4. HasLeft(callbacks[d][1])
      BY <1>1, <1>3 DEF Inv, TxHaveLeft
    <2> QED
      BY <1>2, <1>3, <2>1, <2>2, <2>3, <2>4 DEF Inv
  <1>4. CASE ~Registered(d)
    <2>1. UNCHANGED registry
      BY <1>4 DEF Disconnected
    <2>2. TypeOK' /\ MapsAgree' /\ SocketsHaveCallback'
      BY <1>1, <1>2, <2>1
         DEF registry, Inv, TypeOK, MapsAgree, SocketsHaveCallback, Registered
    <2>3. UnissuedUnused' /\ TxHaveLeft'
      BY <1>1, <2>1 DEF registry, Inv, UnissuedUnused, TxHaveLeft, Registered, HasLeft
    <2> QED
      BY <1>2, <1>4, <2>1, <2>2, <2>3 DEF Inv, registry
  <1> QED
    BY <1>3, <1>4

\* A call that is denied changes nothing but the inbox.
LEMMA DeniedStep ==
    ASSUME Inv, Denied
    PROVE  Inv' /\ callbacks' = callbacks /\ sockets' = sockets
  <1>1. UNCHANGED <<client, registry, tx>>
    BY DEF Denied
  <1>2. inbox' \in Seq(Messages) /\ GoneIsTrue'
    <2>1. PICK kind \in {"unregister", "open", "close"} : Received(kind)
      BY DEF Denied
    <2> QED
      BY <1>1, <2>1, ReceivedIsMessage
  <1>3. TypeOK' /\ MapsAgree' /\ SocketsHaveCallback' /\ UnissuedUnused' /\ TxHaveLeft'
    BY <1>1, <1>2 DEF registry, Inv, TypeOK, MapsAgree, SocketsHaveCallback, UnissuedUnused,
                      TxHaveLeft, Registered, HasLeft
  <1> QED
    BY <1>1, <1>2, <1>3 DEF Inv, registry

\* At first nothing is registered.
LEMMA InitInv == Init => Inv
  <1> SUFFICES ASSUME Init PROVE Inv
    OBVIOUS
  <1>1. TypeOK
    BY CallbackRegistryAssumption DEF Init, TypeOK, Ids
  <1>2. MapsAgree /\ SocketsHaveCallback /\ UnissuedUnused /\ TxHaveLeft
    BY DEF Init, MapsAgree, SocketsHaveCallback, UnissuedUnused, TxHaveLeft, Registered
  <1>3. GoneIsTrue
    BY DEF Init, GoneIsTrue
  <1> QED
    BY <1>1, <1>2, <1>3 DEF Inv

\* Every step preserves the invariant.
LEMMA NextInv ==
    ASSUME Inv, [Next]_vars
    PROVE  Inv'
  <1>1. ASSUME Handle PROVE Inv'
    BY <1>1, RegisterStep, DeniedStep, UnregisterStep, SocketStep, DepartureStep DEF Handle
  <1>2. ASSUME UNCHANGED vars PROVE Inv'
    BY <1>2 DEF vars, registry, Inv, TypeOK, MapsAgree, SocketsHaveCallback, UnissuedUnused,
                GoneIsTrue, TxHaveLeft, Registered, HasLeft
  <1> QED
    BY <1>1, <1>2, BusStep, RegisterStep, DisconnectedStep DEF Next

\* The inductive invariant of the registry.
THEOREM Invariance == Spec => []Inv
  <1>1. Init => Inv
    BY InitInv
  <1>2. Inv /\ [Next]_vars => Inv'
    BY NextInv
  <1> QED
    BY <1>1, <1>2, PTL DEF Spec

\* The state of the registry has its type, and the messages name clients and issued IDs.
THEOREM TypeCorrect == Spec => []TypeOK
  <1>1. Inv => TypeOK
    BY DEF Inv
  <1> QED
    BY <1>1, Invariance, PTL

\* The two maps of Callbacks stay inverse for any owners and paths.
THEOREM MapsStayInverse == Spec => []MapsAgree
  <1>1. Inv => MapsAgree
    BY DEF Inv
  <1> QED
    BY <1>1, Invariance, PTL

\* No task of a socket outlives its callback (unregister_callback, remove_callback).
THEOREM NoOrphanSockets == Spec => []SocketsHaveCallback
  <1>1. Inv => SocketsHaveCallback
    BY DEF Inv
  <1> QED
    BY <1>1, Invariance, PTL

\* The step lemma of OnlyTheirOwner.
LEMMA TouchedByOwner ==
    ASSUME Inv, Next, NEW id \in Ids
    PROVE  /\ Registered(id) /\ callbacks'[id] # callbacks[id] =>
                HasLeft(callbacks[id][1]) \/ Asked(id, {"unregister"})
           /\ (id \in sockets) # (id \in sockets') =>
                HasLeft(callbacks[id][1]) \/ Asked(id, {"unregister", "open", "close"})
  <1>0. SocketsHaveCallback
    BY DEF Inv
  <1>1. CASE RegisterCallback \/ \E path \in Paths : RegisterLocal(path)
    BY <1>1, RegisterStep
  <1>2. CASE Denied \/ NameOwnerChanged
    BY <1>2, DeniedStep, DepartureStep
  <1>3. CASE UnregisterCallback
    <2>1. Asked(Head(inbox).id, {"unregister"})
          /\ Asked(Head(inbox).id, {"unregister", "open", "close"})
      BY <1>3, UnregisterStep DEF Asked
    <2> QED
      BY <1>3, <2>1, UnregisterStep
  <1>4. CASE OpenSocket \/ CloseSocket
    <2>1. Asked(Head(inbox).id, {"unregister", "open", "close"})
      BY <1>4, SocketStep DEF Asked
    <2> QED
      BY <1>4, <2>1, SocketStep
  <1>5. ASSUME NEW d \in Ids, Disconnected(d)
        PROVE  /\ Registered(id) /\ callbacks'[id] # callbacks[id] => HasLeft(callbacks[id][1])
               /\ (id \in sockets) # (id \in sockets') => HasLeft(callbacks[id][1])
    BY <1>5, DisconnectedStep
  <1>6. ASSUME \/ \E c \in Clients : Connect(c) \/ Leave(c)
               \/ \E m \in Calls : Call(m)
               \/ \E m \in Departures : Forge(m)
        PROVE  callbacks' = callbacks /\ sockets' = sockets
    BY <1>6 DEF Connect, Leave, Call, Forge, Send, registry
  <1> QED
    BY <1>1, <1>2, <1>3, <1>4, <1>5, <1>6 DEF Next, Handle

\* A callback and its sockets are touched for their owner only: authorize_socket_callback
\* and the disconnect messages of the watcher, for any clients and any messages under way.
THEOREM OwnersOnly == Spec => OnlyTheirOwner
  <1>1. ASSUME Inv, [Next]_vars, vars' # vars
        PROVE  \A id \in Ids :
                 /\ Registered(id) /\ callbacks[id]' # callbacks[id] =>
                      HasLeft(callbacks[id][1]) \/ Asked(id, {"unregister"})
                 /\ (id \in sockets) # (id \in sockets)' =>
                      HasLeft(callbacks[id][1]) \/ Asked(id, {"unregister", "open", "close"})
    BY <1>1, TouchedByOwner
  <1>2. Inv /\ [Next]_vars =>
          [\A id \in Ids :
             /\ Registered(id) /\ callbacks[id]' # callbacks[id] =>
                  HasLeft(callbacks[id][1]) \/ Asked(id, {"unregister"})
             /\ (id \in sockets) # (id \in sockets)' =>
                  HasLeft(callbacks[id][1]) \/ Asked(id, {"unregister", "open", "close"})]_vars
    BY <1>1
  <1> QED
    BY <1>2, Invariance, PTL DEF Spec, OnlyTheirOwner
=============================================================================
