----------------------------- MODULE NioServer ------------------------------
(***************************************************************************)
(* demo/socket/nio/Server.java: one thread selects the keys that are ready *)
(* and serves them one after the other.  The clients and the selector are  *)
(* external.                                                               *)
(***************************************************************************)
EXTENDS FiniteSets

CONSTANTS
  Client,   \* the clients, and the keys of their channels
  Acceptor  \* the key of the server channel

VARIABLES
  peer,      \* each client: "away", "connecting", "connected", "closed", "reset",
             \* "unserved" or "aborted"
  unread,    \* the clients whose data has not been read
  keys,      \* the valid keys of the selector
  selected,  \* the keys the loop of run() has not come to
  key,       \* the key it is at
  at         \* where run() is: what it does, or asks the key, next

nioVars == <<peer, unread, keys, selected, key, at>>

NioInit ==
  /\ peer = [c \in Client |-> "away"]
  /\ unread = {}
  /\ keys = {Acceptor} /\ selected = {} /\ key = Acceptor
  /\ at = "selecting"

Becomes(c, from, to) == peer[c] \in from /\ peer' = [peer EXCEPT ![c] = to]

\* External: a client connects, gives up while it waits to be accepted, sends,
\* closes its side, or breaks off.
ClientActs(c) ==
  /\ \/ Becomes(c, {"away"}, "connecting") /\ UNCHANGED unread
     \/ Becomes(c, {"connecting"}, "aborted") /\ UNCHANGED unread
     \/ peer[c] = "connected" /\ unread' = unread \cup {c} /\ UNCHANGED peer
     \/ Becomes(c, {"connected"}, "closed") /\ UNCHANGED unread
     \/ Becomes(c, {"connected"}, "reset") /\ unread' = unread \ {c}
  /\ UNCHANGED <<keys, selected, key, at>>

\* External: the keys that are ready.
Ready ==
  {k \in keys : \/ k = Acceptor /\ \E c \in Client : peer[c] = "connecting"
                \/ k \in Client /\ (k \in unread \/ peer[k] \in {"closed", "reset"})}

\* select() waits until there is one.
Select ==
  /\ at = "selecting" /\ Ready # {}
  /\ selected' = Ready
  /\ at' = "next"
  /\ UNCHANGED <<peer, unread, keys, key>>

\* The next selected key is taken out, and skipped if it is not valid.
NextKey ==
  /\ at = "next"
  /\ IF selected = {} THEN at' = "selecting" /\ UNCHANGED <<selected, key>>
     ELSE \E k \in selected :
            /\ selected' = selected \ {k} /\ key' = k
            /\ at' = IF k \in keys THEN "isAcceptable" ELSE "next"
  /\ UNCHANGED <<peer, unread, keys>>

\* accept() takes one connection and registers its channel for reading; or
\* throws an IOException, which is only printed, before it has taken one or when
\* the channel it has taken is closed; or finds that there is none any more, and
\* returns null: the NullPointerException ends the thread.
Accept ==
  /\ at = "isAcceptable" /\ key = Acceptor
  /\ \/ \E c \in Client : /\ Becomes(c, {"connecting"}, "connected")
                         /\ keys' = keys \cup {c} /\ at' = "isReadable"
     \/ UNCHANGED <<peer, keys>> /\ at' = "isReadable"
     \/ \E c \in Client : /\ Becomes(c, {"connecting"}, "unserved")
                         /\ UNCHANGED keys /\ at' = "isReadable"
     \/ /\ \A c \in Client : peer[c] # "connecting"
        /\ UNCHANGED <<peer, keys>> /\ at' = "ended"
  /\ UNCHANGED <<unread, selected, key>>

\* The key of a client is not acceptable.
NotAcceptable ==
  /\ at = "isAcceptable" /\ key # Acceptor
  /\ at' = "isReadable"
  /\ UNCHANGED <<peer, unread, keys, selected, key>>

\* read(): what has been sent; or the end of the stream, where the channel is
\* closed and the key cancelled; or an IOException, which is only printed.
Read ==
  /\ at = "isReadable" /\ at' = "isWritable"
  /\ unread' = unread \ {key}
  /\ keys' = IF key \in Client /\ key \notin unread /\ peer[key] = "closed"
             THEN keys \ {key} ELSE keys
  /\ UNCHANGED <<peer, selected, key>>

\* isWritable() throws CancelledKeyException if the key is no longer valid.
\* run() catches an IOException only: the thread of the server ends.
AskWritable ==
  /\ at = "isWritable"
  /\ at' = IF key \in keys THEN "next" ELSE "ended"
  /\ UNCHANGED <<peer, unread, keys, selected, key>>

NioNext ==
  \/ Select \/ NextKey \/ Accept \/ NotAcceptable \/ Read \/ AskWritable
  \/ \E c \in Client : ClientActs(c)

NioSpec == NioInit /\ [][NioNext]_nioVars

-----------------------------------------------------------------------------
\* Server.java, line 53: run() asks and serves a key 如果是有效的, "if it is
\* valid".
ServesValidKeys == at \in {"isAcceptable", "isReadable", "isWritable"} => key \in keys
=============================================================================
